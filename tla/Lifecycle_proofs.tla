-------------------------- MODULE Lifecycle_proofs --------------------------
(***************************************************************************)
(* What holds of any number of instances that start, serve, stop and die   *)
(* beside each other, whatever requests and passes they run and however    *)
(* large their pools are.                                                  *)
(***************************************************************************)
EXTENDS Lifecycle, SequenceTheorems, TLAPS

(* The program of a start: the advisory lock, the table locks of the       *)
(* script, its commit, and the end of the advisory lock.                   *)
LEMMA ConnectSteps ==
    /\ Len(Program["connect"]) = 11
    /\ Program["connect"][1] = AdvisoryLock
    /\ \A k \in 2..9 : Program["connect"][k].op = "take" /\ Program["connect"][k].table # "ddl"
    /\ \A k \in 2..9 : Program["connect"][k] = Migration[k - 1]
    /\ Program["connect"][10] = Commit
    /\ Program["connect"][11] = Unlock
<1> DEFINE S == [op : {"take"}, table : {"ddl", "logs", "map", "spans", "notes", "alerts"}, mode : Modes]
                \cup {Commit, Unlock}
           p == <<AdvisoryLock>>
           q == <<Commit, Unlock>>
           front == p \o Migration
           c == front \o q
<1>1. Program["connect"] = c
  BY DEF Program, Kinds, Connect
<1>2. AdvisoryLock \in S /\ Commit \in S /\ Unlock \in S
  BY DEF AdvisoryLock, Take, Modes
<1>3. /\ Migration \in Seq(S) /\ Len(Migration) = 8
      /\ \A k \in 1..8 : Migration[k].op = "take" /\ Migration[k].table # "ddl"
  BY DEF Migration, Index, Alter, Take, Modes
<1> HIDE DEF S
<1>4. p \in Seq(S) /\ Len(p) = 1 /\ p[1] = AdvisoryLock
  BY <1>2
<1>5. q \in Seq(S) /\ Len(q) = 2 /\ q[1] = Commit /\ q[2] = Unlock
  BY <1>2
<1> HIDE DEF p, q
<1>6. /\ front \in Seq(S)
      /\ Len(front) = Len(p) + Len(Migration)
      /\ \A i \in 1..(Len(p) + Len(Migration)) :
            front[i] = IF i <= Len(p) THEN p[i] ELSE Migration[i - Len(p)]
  BY <1>3, <1>4, ConcatProperties, Zenon
<1> HIDE DEF front
<1>7. /\ Len(c) = Len(front) + Len(q)
      /\ \A i \in 1..(Len(front) + Len(q)) :
            c[i] = IF i <= Len(front) THEN front[i] ELSE q[i - Len(front)]
  <2>1. front \in Seq(S) /\ q \in Seq(S)
    BY <1>5, <1>6
  <2> QED
    BY <2>1, ConcatProperties, Zenon
<1> HIDE DEF c
<1>8. Len(front) = 9 /\ front[1] = AdvisoryLock /\ \A k \in 2..9 : front[k] = Migration[k - 1]
  BY <1>3, <1>4, <1>6
<1>9. /\ Len(c) = 11 /\ c[1] = AdvisoryLock /\ c[10] = Commit /\ c[11] = Unlock
      /\ \A k \in 2..9 : c[k] = Migration[k - 1]
  BY <1>5, <1>7, <1>8
<1> QED
  BY <1>1, <1>3, <1>9

(* What a function is after it has been changed at one point.              *)
LEMMA Changed ==
    ASSUME NEW S, NEW f, f = [x \in S |-> f[x]], NEW s \in S, NEW v,
           NEW g, g = [f EXCEPT ![s] = v]
    PROVE  /\ g = [x \in S |-> g[x]]
           /\ \A x \in S : g[x] = IF x = s THEN v ELSE f[x]
<1>1. DOMAIN f = S
  OBVIOUS
<1> QED
  BY <1>1

(* A session that is connecting belongs to an instance.                    *)
LEMMA SessionFacts ==
    /\ \A s \in Session : s[1] \in Instance /\ s = <<s[1], s[2]>>
    /\ \A i \in Instance : <<i, "connect">> \in Session
  BY DEF Session

(* What a start holds while its script runs.                               *)
HasAdvisoryLock(s) == [table |-> "ddl", mode |-> "AccessExclusive"] \in held[s]

(* The advisory lock has one owner; a start holds table locks only while   *)
(* it has it; and it has it to the end of its program.                     *)
MigrationInv ==
    /\ life \in [Instance -> Lives]
    /\ at \in [Session -> Nat]
    /\ held = [s \in Session |-> held[s]]
    /\ \A s, r \in Session : HasAdvisoryLock(s) /\ HasAdvisoryLock(r) => s = r
    /\ \A s \in Session : s[2] = "connect" =>
          /\ at[s] <= 12
          /\ at[s] \in 2..11 => HasAdvisoryLock(s)
          /\ at[s] \notin 2..10 => \A l \in held[s] : l.table = "ddl"
          /\ at[s] >= 11 => schema
    /\ SchemaBeforeService

(* A session that takes a lock moves on by a step, and has taken it while  *)
(* no other session had one that conflicts with it.                        *)
LEMMA AcquireKeeps ==
    ASSUME MigrationInv, NEW s \in Session, Acquire(s)
    PROVE  MigrationInv'
<1> DEFINE lock == [table |-> Step(s).table, mode |-> Step(s).mode]
           ddl == [table |-> "ddl", mode |-> "AccessExclusive"]
<1>0. held' = [held EXCEPT ![s] = @ \cup {lock}]
  BY DEF Acquire
<1>1. /\ \A r \in Session : held'[r] = IF r = s THEN held[r] \cup {lock} ELSE held[r]
      /\ \A r \in Session : at'[r] = IF r = s THEN at[r] + 1 ELSE at[r]
      /\ held' = [r \in Session |-> held'[r]] /\ at' \in [Session -> Nat]
      /\ UNCHANGED <<life, schema>>
  <2>1. held = [r \in Session |-> held[r]]
    BY DEF MigrationInv
  <2>2. /\ held' = [r \in Session |-> held'[r]]
        /\ \A r \in Session : held'[r] = IF r = s THEN held[s] \cup {lock} ELSE held[r]
    BY <1>0, <2>1, Changed, Zenon
  <2>3. /\ \A r \in Session : at'[r] = IF r = s THEN at[r] + 1 ELSE at[r]
        /\ at' \in [Session -> Nat] /\ UNCHANGED <<life, schema>>
    BY DEF Acquire, MigrationInv
  <2> QED
    BY <2>2, <2>3
<1> HIDE DEF lock
<1>2. /\ at[s] > 0 /\ at[s] <= Len(Program[s[2]])
      /\ Step(s) = Program[s[2]][at[s]] /\ Step(s).op = "take"
  BY DEF Acquire, Takes, Active, AtEnd, Step, MigrationInv
<1>3. lock = ddl => \A r \in Session : r # s => ~HasAdvisoryLock(r)
  BY DEF lock, Acquire, Blockers, HasLockAgainst, Conflict, HasAdvisoryLock
<1>4. \A r, q \in Session : HasAdvisoryLock(r)' /\ HasAdvisoryLock(q)' => r = q
  BY <1>1, <1>3 DEF HasAdvisoryLock, MigrationInv
<1>5. ASSUME s[2] = "connect"
      PROVE  /\ at'[s] \in 2..10 /\ HasAdvisoryLock(s)'
  <2>1. at[s] \in 1..9
    BY <1>2, <1>5, ConnectSteps DEF Commit, Unlock, MigrationInv
  <2>2. CASE at[s] = 1
    <3>1. lock = ddl
      BY <1>2, <1>5, <2>2, ConnectSteps DEF lock, AdvisoryLock, Take
    <3> QED
      BY <1>1, <2>1, <3>1 DEF HasAdvisoryLock
  <2>3. CASE at[s] # 1
    <3>1. HasAdvisoryLock(s)
      BY <1>5, <2>1, <2>3 DEF MigrationInv
    <3> QED
      BY <1>1, <2>1, <3>1 DEF HasAdvisoryLock
  <2> QED
    BY <2>2, <2>3
<1>6. ASSUME NEW r \in Session, r[2] = "connect"
      PROVE  /\ at'[r] <= 12
             /\ at'[r] \in 2..11 => HasAdvisoryLock(r)'
             /\ at'[r] \notin 2..10 => \A l \in held'[r] : l.table = "ddl"
             /\ at'[r] >= 11 => schema'
  <2>1. CASE r = s
    BY <1>5, <1>6, <2>1
  <2>2. CASE r # s
    BY <1>1, <1>6, <2>2 DEF HasAdvisoryLock, MigrationInv
  <2> QED
    BY <2>1, <2>2
<1> QED
  BY <1>1, <1>4, <1>6 DEF MigrationInv, SchemaBeforeService

(* The end of a transaction keeps what the session's start has of the      *)
(* advisory lock; the script of a start is committed by it.                *)
LEMMA EndTransactionKeeps ==
    ASSUME MigrationInv, NEW s \in Session, EndTransaction(s)
    PROVE  MigrationInv'
<1>0. held' = [held EXCEPT ![s] = {l \in held[s] : l.table = "ddl"}]
  BY DEF EndTransaction
<1>1. /\ \A r \in Session : held'[r] = IF r = s THEN {l \in held[s] : l.table = "ddl"} ELSE held[r]
      /\ \A r \in Session : at'[r] = IF r = s THEN at[r] + 1 ELSE at[r]
      /\ held' = [r \in Session |-> held'[r]] /\ at' \in [Session -> Nat]
      /\ life' = life /\ (schema => schema')
  <2>1. held = [r \in Session |-> held[r]]
    BY DEF MigrationInv
  <2>2. /\ held' = [r \in Session |-> held'[r]]
        /\ \A r \in Session : held'[r] = IF r = s THEN {l \in held[s] : l.table = "ddl"} ELSE held[r]
    BY <1>0, <2>1, Changed, Zenon
  <2>3. /\ \A r \in Session : at'[r] = IF r = s THEN at[r] + 1 ELSE at[r]
        /\ at' \in [Session -> Nat] /\ life' = life
    BY DEF EndTransaction, MigrationInv
  <2> QED
    BY <2>2, <2>3 DEF EndTransaction
<1>2. \A r \in Session : HasAdvisoryLock(r)' <=> HasAdvisoryLock(r)
  BY <1>1 DEF HasAdvisoryLock
<1>3. s[2] = "connect" => at[s] = 10 /\ schema'
  <2> SUFFICES ASSUME s[2] = "connect" PROVE at[s] = 10 /\ schema'
    OBVIOUS
  <2>0. /\ at[s] \in Nat /\ at[s] > 0 /\ ~(at[s] > Len(Program["connect"]))
        /\ Program["connect"][at[s]] = Commit /\ schema'
    BY DEF EndTransaction, Active, AtEnd, Step, MigrationInv
  <2>1. at[s] \in 1..11 /\ Program["connect"][at[s]] = Commit /\ schema'
    BY <2>0, ConnectSteps
  <2>2. at[s] # 1 /\ at[s] # 11 /\ at[s] \notin 2..9
    BY <2>1, ConnectSteps DEF Commit, Unlock, AdvisoryLock, Take
  <2> QED
    BY <2>1, <2>2
<1>4. ASSUME NEW r \in Session, r[2] = "connect"
      PROVE  /\ at'[r] <= 12
             /\ at'[r] \in 2..11 => HasAdvisoryLock(r)'
             /\ at'[r] \notin 2..10 => \A l \in held'[r] : l.table = "ddl"
             /\ at'[r] >= 11 => schema'
  <2>1. CASE r = s
    BY <1>1, <1>2, <1>3, <1>4, <2>1 DEF MigrationInv
  <2>2. CASE r # s
    BY <1>1, <1>2, <1>4, <2>2 DEF MigrationInv
  <2> QED
    BY <2>1, <2>2
<1> QED
  BY <1>1, <1>2, <1>4 DEF MigrationInv, SchemaBeforeService

(* The advisory lock is given up when nothing else is held.                *)
LEMMA ReleaseKeeps ==
    ASSUME MigrationInv, NEW s \in Session, ReleaseAdvisoryLock(s)
    PROVE  MigrationInv'
<1>0. held' = [held EXCEPT ![s] = {l \in held[s] : l.table # "ddl"}]
  BY DEF ReleaseAdvisoryLock
<1>1. /\ \A r \in Session : held'[r] = IF r = s THEN {l \in held[s] : l.table # "ddl"} ELSE held[r]
      /\ \A r \in Session : at'[r] = IF r = s THEN at[r] + 1 ELSE at[r]
      /\ held' = [r \in Session |-> held'[r]] /\ at' \in [Session -> Nat]
      /\ UNCHANGED <<life, schema>>
  <2>1. held = [r \in Session |-> held[r]]
    BY DEF MigrationInv
  <2>2. /\ held' = [r \in Session |-> held'[r]]
        /\ \A r \in Session : held'[r] = IF r = s THEN {l \in held[s] : l.table # "ddl"} ELSE held[r]
    BY <1>0, <2>1, Changed, Zenon
  <2>3. /\ \A r \in Session : at'[r] = IF r = s THEN at[r] + 1 ELSE at[r]
        /\ at' \in [Session -> Nat] /\ UNCHANGED <<life, schema>>
    BY DEF ReleaseAdvisoryLock, MigrationInv
  <2> QED
    BY <2>2, <2>3
<1>2. \A r \in Session : HasAdvisoryLock(r)' <=> r # s /\ HasAdvisoryLock(r)
  BY <1>1 DEF HasAdvisoryLock
<1>3. s[2] = "connect" => at[s] = 11
  <2> SUFFICES ASSUME s[2] = "connect" PROVE at[s] = 11
    OBVIOUS
  <2>0. /\ at[s] \in Nat /\ at[s] > 0 /\ ~(at[s] > Len(Program["connect"]))
        /\ Program["connect"][at[s]] = Unlock
    BY DEF ReleaseAdvisoryLock, Active, AtEnd, Step, MigrationInv
  <2>1. at[s] \in 1..11 /\ Program["connect"][at[s]] = Unlock
    BY <2>0, ConnectSteps
  <2>2. at[s] # 1 /\ at[s] # 10 /\ at[s] \notin 2..9
    BY <2>1, ConnectSteps DEF Commit, Unlock, AdvisoryLock, Take
  <2> QED
    BY <2>1, <2>2
<1>4. ASSUME NEW r \in Session, r[2] = "connect"
      PROVE  /\ at'[r] <= 12
             /\ at'[r] \in 2..11 => HasAdvisoryLock(r)'
             /\ at'[r] \notin 2..10 => \A l \in held'[r] : l.table = "ddl"
             /\ at'[r] >= 11 => schema'
  <2>1. CASE r = s
    <3>1. at'[r] = 12 /\ schema' /\ \A l \in held[r] : l.table = "ddl"
      BY <1>1, <1>3, <1>4, <2>1 DEF MigrationInv
    <3> QED
      BY <1>1, <2>1, <3>1
  <2>2. CASE r # s
    BY <1>1, <1>2, <1>4, <2>2 DEF MigrationInv
  <2> QED
    BY <2>1, <2>2
<1> QED
  BY <1>1, <1>2, <1>4 DEF MigrationInv, SchemaBeforeService

(* A connection that goes back leaves nothing locked.                      *)
LEMMA GiveBackKeeps ==
    ASSUME MigrationInv, NEW s \in Session, GiveBack(s), schema' = schema,
           life' \in [Instance -> Lives], SchemaBeforeService'
    PROVE  MigrationInv'
<1>1. /\ \A r \in Session : held'[r] = IF r = s THEN {} ELSE held[r]
      /\ \A r \in Session : at'[r] = IF r = s THEN 0 ELSE at[r]
      /\ held' = [r \in Session |-> held'[r]] /\ at' \in [Session -> Nat]
  <2>1. held = [r \in Session |-> held[r]] /\ held' = [held EXCEPT ![s] = {}]
    BY DEF MigrationInv, GiveBack
  <2>2. /\ held' = [r \in Session |-> held'[r]]
        /\ \A r \in Session : held'[r] = IF r = s THEN {} ELSE held[r]
    BY <2>1, Changed, Zenon
  <2>3. (\A r \in Session : at'[r] = IF r = s THEN 0 ELSE at[r]) /\ at' \in [Session -> Nat]
    BY DEF GiveBack, MigrationInv
  <2> QED
    BY <2>2, <2>3
<1>2. \A r \in Session : HasAdvisoryLock(r)' <=> r # s /\ HasAdvisoryLock(r)
  BY <1>1 DEF HasAdvisoryLock
<1>3. ASSUME NEW r \in Session, r[2] = "connect"
      PROVE  /\ at'[r] <= 12
             /\ at'[r] \in 2..11 => HasAdvisoryLock(r)'
             /\ at'[r] \notin 2..10 => \A l \in held'[r] : l.table = "ddl"
             /\ at'[r] >= 11 => schema'
  <2>1. CASE r = s
    BY <1>1, <2>1
  <2>2. CASE r # s
    BY <1>1, <1>2, <1>3, <2>2 DEF MigrationInv
  <2> QED
    BY <2>1, <2>2
<1> QED
  BY <1>1, <1>2, <1>3 DEF MigrationInv

(* A session that is idle begins, and holds nothing that it should not.    *)
LEMMA BeginKeeps ==
    ASSUME MigrationInv, NEW s \in Session, at[s] = 0, at' = [at EXCEPT ![s] = 1],
           held' = held, schema' = schema, life' \in [Instance -> Lives], SchemaBeforeService'
    PROVE  MigrationInv'
<1>1. (\A r \in Session : at'[r] = IF r = s THEN 1 ELSE at[r]) /\ at' \in [Session -> Nat]
  BY DEF MigrationInv
<1>2. held' = [r \in Session |-> held'[r]] /\ \A r \in Session : HasAdvisoryLock(r)' <=> HasAdvisoryLock(r)
  BY DEF MigrationInv, HasAdvisoryLock
<1> QED
  BY <1>1, <1>2 DEF MigrationInv

(* Every step keeps the invariant.                                         *)
LEMMA MigrationInductive ==
    ASSUME MigrationInv, [Next]_vars
    PROVE  MigrationInv'
<1>0. MigrationInv => life \in [Instance -> Lives] /\ SchemaBeforeService
  BY DEF MigrationInv
<1>1. CASE UNCHANGED vars
  BY <1>1 DEF MigrationInv, HasAdvisoryLock, SchemaBeforeService, vars
<1>2. ASSUME NEW i \in Instance, Start(i)
      PROVE  MigrationInv'
  <2>1. <<i, "connect">> \in Session /\ at[<<i, "connect">>] = 0
    <3>1. <<i, "connect">> \in Session
      BY SessionFacts
    <3> QED
      BY <1>2, <3>1 DEF Start, InUse, Active, MigrationInv
  <2>2. life' \in [Instance -> Lives] /\ SchemaBeforeService'
    BY <1>0, <1>2 DEF Start, Lives, SchemaBeforeService
  <2> QED
    BY <1>2, <2>1, <2>2, BeginKeeps DEF Start
<1>3. ASSUME NEW i \in Instance, Stop(i) \/ BeginClose(i) \/ Close(i) \/ Crash(i)
      PROVE  MigrationInv'
  <2>1. life' \in [Instance -> Lives] /\ SchemaBeforeService' /\ UNCHANGED <<at, held, schema>>
    BY <1>0, <1>3 DEF Stop, BeginClose, Close, Crash, Lives, SchemaBeforeService
  <2> QED
    BY <2>1 DEF MigrationInv, HasAdvisoryLock
<1>4. ASSUME NEW s \in Session, Begin(s)
      PROVE  MigrationInv'
  <2>1. at[s] = 0 /\ life' \in [Instance -> Lives] /\ SchemaBeforeService'
    BY <1>4 DEF Begin, Active, MigrationInv, SchemaBeforeService
  <2> QED
    BY <1>4, <2>1, BeginKeeps DEF Begin
<1>5. ASSUME NEW s \in Session, Wait(s)
      PROVE  MigrationInv'
  BY <1>5 DEF Wait, MigrationInv, HasAdvisoryLock, SchemaBeforeService
<1>6. ASSUME NEW s \in Session, Finish(s)
      PROVE  MigrationInv'
  <2>1. life' \in [Instance -> Lives] /\ SchemaBeforeService'
    <3>1. CASE s[2] = "connect"
      <4>1. schema
        BY <1>6, <3>1, ConnectSteps DEF Finish, AtEnd, MigrationInv
      <4> QED
        BY <1>0, <1>6, <3>1, <4>1 DEF Finish, Lives, SchemaBeforeService
    <3>2. CASE s[2] # "connect"
      BY <1>0, <1>6, <3>2 DEF Finish, SchemaBeforeService
    <3> QED
      BY <3>1, <3>2
  <2> QED
    BY <1>6, <2>1, GiveBackKeeps DEF Finish
<1>7. ASSUME NEW s \in Session, Fail(s) \/ KillForDeadlock(s)
      PROVE  MigrationInv'
  <2>1. EndByError(s)
    BY <1>7 DEF Fail, KillForDeadlock
  <2>2. life' \in [Instance -> Lives] /\ SchemaBeforeService'
    BY <1>0, <2>1 DEF EndByError, Lives, SchemaBeforeService
  <2> QED
    BY <2>1, <2>2, GiveBackKeeps DEF EndByError
<1>8. ASSUME NEW s \in Session, EndByCancel(s) \/ EndOrphan(s)
      PROVE  MigrationInv'
  BY <1>0, <1>8, GiveBackKeeps DEF EndByCancel, EndOrphan, SchemaBeforeService
<1> QED
  BY <1>1, <1>2, <1>3, <1>4, <1>5, <1>6, <1>7, <1>8,
     AcquireKeeps, EndTransactionKeeps, ReleaseKeeps
     DEF Next, Proceed

(* The invariant holds from the start on.                                  *)
LEMMA MigrationInvariant == Spec => []MigrationInv
<1>1. Init => MigrationInv
  BY DEF Init, MigrationInv, HasAdvisoryLock, SchemaBeforeService, Lives
<1>2. MigrationInv /\ [Next]_vars => MigrationInv'
  BY MigrationInductive
<1> QED
  BY <1>1, <1>2, PTL DEF Spec

(* However many instances start at once, and whichever of them die in the  *)
(* middle, the script of one runs at a time.                               *)
THEOREM MigrationIsAlone == Spec => []OneMigration
<1>1. MigrationInv => OneMigration
  BY DEF MigrationInv, OneMigration
<1> QED
  BY <1>1, MigrationInvariant, PTL

(* An instance takes requests, and finishes the ones it took, on a schema  *)
(* that has been migrated.                                                 *)
THEOREM ServiceOnSchema == Spec => []SchemaBeforeService
<1>1. MigrationInv => SchemaBeforeService
  BY DEF MigrationInv
<1> QED
  BY <1>1, MigrationInvariant, PTL

----------------------------------------------------------------------------
(* Locks and their queue.                                                  *)

(* The lock on the logs that the script's first CREATE INDEX takes.        *)
LogsShare == [table |-> "logs", mode |-> "Share"]

(* A session holds what steps of its program behind it took, and the       *)
(* script of a start keeps the lock on the logs that it took first.        *)
HeldInv ==
    \A s \in Session :
        /\ at[s] <= Len(Program[s[2]]) + 1 /\ held[s] \subseteq Lock
        /\ \A l \in held[s] : \E j \in 1..(at[s] - 1) :
              j <= Len(Program[s[2]]) /\ Program[s[2]][j] = Take(l.table, l.mode)
        /\ s[2] = "connect" /\ at[s] \in 3..10 => LogsShare \in held[s]

(* No two sessions hold locks that conflict.                               *)
CompatibleInv ==
    \A s, r \in Session : \A l \in held[s], k \in held[r] :
        s # r /\ l.table = k.table => ~Conflict(l.mode, k.mode)

(* Who waits is in the queue once, and has come to a lock.                 *)
QueueInv ==
    /\ queue \in Seq(Session) /\ IsInjective(queue)
    /\ \A s \in Session : Waiting(s) => Takes(s)

(* The invariant: of the migration, of the locks held, and of the queue.   *)
LockInv ==
    /\ MigrationInv /\ schema \in BOOLEAN
    /\ HeldInv /\ CompatibleInv /\ QueueInv

(* A sequence without one of its elements.                                 *)
LEMMA RemoveAtFacts ==
    ASSUME NEW S, NEW q \in Seq(S), NEW i \in 1..Len(q)
    PROVE  /\ RemoveAt(q, i) \in Seq(S) /\ Len(RemoveAt(q, i)) = Len(q) - 1
           /\ \A j \in 1..(Len(q) - 1) : RemoveAt(q, i)[j] = IF j < i THEN q[j] ELSE q[j + 1]
<1> DEFINE a == SubSeq(q, 1, i - 1)
           b == SubSeq(q, i + 1, Len(q))
<1>1. a \in Seq(S) /\ Len(a) = i - 1 /\ \A j \in 1..(i - 1) : a[j] = q[j]
  OBVIOUS
<1>2. b \in Seq(S) /\ Len(b) = Len(q) - i /\ \A j \in 1..(Len(q) - i) : b[j] = q[i + j]
  OBVIOUS
<1> HIDE DEF a, b
<1>3. /\ a \o b \in Seq(S) /\ Len(a \o b) = Len(a) + Len(b)
      /\ \A j \in 1..(Len(a) + Len(b)) : (a \o b)[j] = IF j <= Len(a) THEN a[j] ELSE b[j - Len(a)]
  BY <1>1, <1>2, ConcatProperties
<1>4. RemoveAt(q, i) = a \o b
  BY DEF RemoveAt, a, b
<1>5. Len(a \o b) = Len(q) - 1
  BY <1>1, <1>2, <1>3
<1>6. ASSUME NEW j \in 1..(Len(q) - 1)
      PROVE  (a \o b)[j] = IF j < i THEN q[j] ELSE q[j + 1]
  <2>1. CASE j < i
    BY <1>1, <1>2, <1>3, <2>1
  <2>2. CASE ~(j < i)
    <3>1. PICK k : k = j - Len(a)
      OBVIOUS
    <3>2. k \in 1..(Len(q) - i) /\ i + k = j + 1
      BY <1>1, <2>2, <3>1
    <3>3. (a \o b)[j] = b[k]
      BY <1>1, <1>2, <1>3, <2>2, <3>1
    <3> QED
      BY <1>2, <2>2, <3>2, <3>3
  <2> QED
    BY <2>1, <2>2
<1> QED
  BY <1>3, <1>4, <1>5, <1>6

(* A session that leaves the queue is nowhere in it any more, and the      *)
(* others are where they were, one behind the other.                       *)
LEMMA ForgetFacts ==
    ASSUME queue \in Seq(Session), IsInjective(queue), NEW s \in Session
    PROVE  /\ Forget(s) \in Seq(Session) /\ IsInjective(Forget(s))
           /\ ToSet(Forget(s)) = ToSet(queue) \ {s}
<1>1. CASE ~\E i \in 1..Len(queue) : queue[i] = s
  <2>1. Forget(s) = queue
    BY <1>1 DEF Forget, RemoveFirst
  <2> QED
    BY <1>1, <2>1 DEF ToSet
<1>2. CASE \E i \in 1..Len(queue) : queue[i] = s
  <2>1. PICK i \in 1..Len(queue) : queue[i] = s
    BY <1>2
  <2>2. {k \in 1..Len(queue) : queue[k] = s} = {i}
    BY <2>1 DEF IsInjective
  <2>3. SelectInSeq(queue, LAMBDA v : v = s) = i
    BY <2>1, <2>2 DEF SelectInSeq, Min
  <2>4. Forget(s) = RemoveAt(queue, i)
    BY <1>2, <2>3 DEF Forget, RemoveFirst
  <2> DEFINE rest == RemoveAt(queue, i)
             n == Len(queue)
  <2>5. /\ rest \in Seq(Session) /\ DOMAIN rest = 1..(n - 1)
        /\ \A j \in 1..(n - 1) : rest[j] = IF j < i THEN queue[j] ELSE queue[j + 1]
    BY RemoveAtFacts
  <2> HIDE DEF rest
  <2>6. /\ n \in Nat /\ DOMAIN queue = 1..n /\ i \in 1..n
        /\ \A j, k \in 1..n : queue[j] = queue[k] => j = k
    BY DEF IsInjective
  <2> HIDE DEF n
  <2> DEFINE old(j) == IF j < i THEN j ELSE j + 1
  <2>7. \A j \in 1..(n - 1) : old(j) \in (1..n) \ {i} /\ rest[j] = queue[old(j)]
    BY <2>5, <2>6
  <2>8. \A j, k \in 1..(n - 1) : old(j) = old(k) => j = k
    BY <2>6
  <2> HIDE DEF old
  <2>9. \A j, k \in 1..(n - 1) : rest[j] = rest[k] => j = k
    BY <2>6, <2>7, <2>8
  <2>10. ASSUME NEW j \in 1..(n - 1) PROVE rest[j] \in ToSet(queue) \ {s}
    BY <2>1, <2>6, <2>7 DEF ToSet
  <2>11. ASSUME NEW k \in 1..n, k # i PROVE queue[k] \in ToSet(rest)
    <3>1. CASE k < i
      BY <2>1, <2>5, <2>6, <3>1 DEF ToSet, n
    <3>2. CASE ~(k < i)
      <4>1. k - 1 \in 1..(n - 1) /\ ~(k - 1 < i) /\ (k - 1) + 1 = k
        BY <2>1, <2>6, <2>11, <3>2 DEF n
      <4> QED
        BY <2>5, <4>1 DEF ToSet
    <3> QED
      BY <3>1, <3>2
  <2>12. ToSet(rest) = ToSet(queue) \ {s}
    BY <2>1, <2>5, <2>6, <2>10, <2>11 DEF ToSet
  <2> QED
    BY <2>4, <2>5, <2>9, <2>12 DEF IsInjective, rest
<1> QED
  BY <1>1, <1>2

----------------------------------------------------------------------------
(* The programs.                                                           *)

(* The steps of programs on some tables in some modes.                     *)
Ops(tables, modes) == [op : {"take"}, table : tables, mode : modes] \cup {Commit, Unlock}

(* The tables that there are locks of besides the advisory lock.           *)
Tables == {"logs", "map", "spans", "notes", "alerts"}

(* All but the script of a start read and write only.                      *)
QuietOps == Ops(Tables, {"AccessShare", "RowExclusive"})

(* Sequences of such steps, and one behind the other.                      *)
LEMMA QuietPieces ==
    /\ \A t \in Tables : Read(t) \in QuietOps /\ Write(t) \in QuietOps
    /\ Commit \in QuietOps
    /\ \A p, q \in Seq(QuietOps) : p \o q \in Seq(QuietOps)
<1>1. \A p, q \in Seq(QuietOps) : p \o q \in Seq(QuietOps)
  BY ConcatProperties
<1> QED
  BY <1>1 DEF QuietOps, Ops, Read, Write, Take

(* Every program but that of a start is of such steps.                     *)
LEMMA QuietPrograms == \A kind \in Kinds \ {"connect"} : Program[kind] \in Seq(QuietOps)
<1>1. Tables = {"logs", "map", "spans", "notes", "alerts"}
  BY DEF Tables
<1>2. /\ PostLogs \in Seq(QuietOps) /\ PostTraces \in Seq(QuietOps) /\ Annotate \in Seq(QuietOps)
  BY <1>1, QuietPieces DEF PostLogs, PostTraces, Annotate
<1>3. /\ QueryLogs \in Seq(QuietOps) /\ QuerySpans \in Seq(QuietOps) /\ QueryNotes \in Seq(QuietOps)
      /\ QueryAlerts \in Seq(QuietOps) /\ QueryConversations \in Seq(QuietOps)
  BY <1>1, QuietPieces DEF QueryLogs, QuerySpans, QueryNotes, QueryAlerts, QueryConversations
<1>4. QueryStats \in Seq(QuietOps)
  <2>1. <<Read("map"), Read("spans"), Commit>> \in Seq(QuietOps)
    BY <1>1, QuietPieces
  <2> QED
    BY <1>3, <2>1, QuietPieces DEF QueryStats
<1>5. EvaluateAlerts \in Seq(QuietOps)
  <2>1. <<Write("alerts"), Commit>> \in Seq(QuietOps)
    BY <1>1, QuietPieces
  <2>2. QuerySpans \o QueryLogs \in Seq(QuietOps)
    BY <1>3, QuietPieces
  <2> QED
    BY <2>1, <2>2, QuietPieces DEF EvaluateAlerts
<1>6. PruneOld \in Seq(QuietOps)
  BY <1>1, QuietPieces DEF PruneOld
<1> QED
  BY <1>2, <1>3, <1>4, <1>5, <1>6 DEF Program, Kinds

(* Steps are of one of three kinds; a lock that is taken is one there is.  *)
LEMMA ProgramTypes ==
    ASSUME NEW kind \in Kinds
    PROVE  /\ Len(Program[kind]) \in Nat
           /\ \A j \in 1..Len(Program[kind]) :
                 /\ Program[kind][j] \in Ops(Tables \cup {"ddl"}, Modes)
                 /\ kind # "connect" => Program[kind][j] \in QuietOps
<1>1. CASE kind = "connect"
  <2>1. \A k \in 1..8 : Migration[k] \in Ops(Tables \cup {"ddl"}, Modes)
    BY DEF Migration, Index, Alter, Take, Ops, Tables, Modes
  <2>2. {AdvisoryLock, Commit, Unlock} \subseteq Ops(Tables \cup {"ddl"}, Modes)
    BY DEF AdvisoryLock, Take, Ops, Modes
  <2>3. ASSUME NEW j \in 1..11 PROVE Program["connect"][j] \in Ops(Tables \cup {"ddl"}, Modes)
    <3>1. j = 1 \/ j \in 2..9 \/ j = 10 \/ j = 11
      OBVIOUS
    <3>2. j \in 2..9 => j - 1 \in 1..8
      OBVIOUS
    <3> QED
      BY <2>1, <2>2, <3>1, <3>2, ConnectSteps
  <2> QED
    BY <1>1, <2>3, ConnectSteps
<1>2. CASE kind # "connect"
  <2>1. Program[kind] \in Seq(QuietOps)
    BY <1>2, QuietPrograms
  <2>2. QuietOps \subseteq Ops(Tables \cup {"ddl"}, Modes)
    BY DEF QuietOps, Ops, Modes
  <2>3. Len(Program[kind]) \in Nat /\ \A j \in 1..Len(Program[kind]) : Program[kind][j] \in QuietOps
    BY <2>1, LenProperties, ElementOfSeq
  <2> QED
    BY <2>2, <2>3
<1> QED
  BY <1>1, <1>2

(* The kind of a session is one there is.                                  *)
LEMMA SessionKinds == \A s \in Session : s[2] \in Kinds
<1> SUFFICES ASSUME NEW s \in Session PROVE s[2] \in Kinds
  OBVIOUS
<1>1. PICK i \in Instance : s \in {i} \X ({"connect"} \cup Requests[i] \cup Passes[i])
  BY DEF Session
<1>2. s[2] \in {"connect"} \cup Requests[i] \cup Passes[i]
  BY <1>1
<1>3. Requests[i] \subseteq Kinds /\ Passes[i] \subseteq {"evaluate", "prune"}
  BY LifecycleAssumption
<1> QED
  BY <1>2, <1>3 DEF Kinds

(* The step of a session that takes a lock.                                *)
LEMMA TakesFacts ==
    ASSUME NEW s \in Session, at[s] \in Nat, Takes(s)
    PROVE  /\ at[s] \in 1..Len(Program[s[2]]) /\ Step(s) = Program[s[2]][at[s]]
           /\ Step(s) = Take(Step(s).table, Step(s).mode)
           /\ [table |-> Step(s).table, mode |-> Step(s).mode] \in Lock
           /\ s[2] # "connect" => /\ Step(s).table \in Tables
                                  /\ Step(s).mode \in {"AccessShare", "RowExclusive"}
           /\ s[2] = "connect" => at[s] \in 1..9
<1>1. s[2] \in Kinds
  BY SessionKinds
<1>2. Len(Program[s[2]]) \in Nat
  BY <1>1, ProgramTypes
<1>3. at[s] \in 1..Len(Program[s[2]]) /\ Step(s) = Program[s[2]][at[s]] /\ Step(s).op = "take"
  BY <1>2 DEF Takes, Active, AtEnd, Step
<1>4. /\ Step(s) \in Ops(Tables \cup {"ddl"}, Modes)
      /\ s[2] # "connect" => Step(s) \in QuietOps
  BY <1>1, <1>3, ProgramTypes
<1>5. /\ Step(s) \in [op : {"take"}, table : Tables \cup {"ddl"}, mode : Modes]
      /\ s[2] # "connect" => Step(s) \in [op : {"take"}, table : Tables, mode : {"AccessShare", "RowExclusive"}]
  BY <1>3, <1>4 DEF QuietOps, Ops, Commit, Unlock
<1>6. /\ Step(s) = Take(Step(s).table, Step(s).mode)
      /\ [table |-> Step(s).table, mode |-> Step(s).mode] \in Lock
      /\ s[2] # "connect" => /\ Step(s).table \in Tables
                             /\ Step(s).mode \in {"AccessShare", "RowExclusive"}
  BY <1>5 DEF Take, Lock, Tables
<1>7. s[2] = "connect" => at[s] # 10 /\ at[s] # 11
  <2>1. Program["connect"][10].op # "take" /\ Program["connect"][11].op # "take"
    BY ConnectSteps DEF Commit, Unlock
  <2> QED
    BY <1>3, <2>1
<1>8. s[2] = "connect" => at[s] \in 1..9
  <2> HAVE s[2] = "connect"
  <2>1. at[s] \in 1..11
    BY <1>3, ConnectSteps
  <2> QED
    BY <1>7, <2>1
<1> QED
  BY <1>3, <1>6, <1>8

----------------------------------------------------------------------------
(* Steps.                                                                  *)

(* Giving locks up leaves no conflict.                                     *)
LEMMA LessIsCompatible ==
    ASSUME CompatibleInv, \A s \in Session : held'[s] \subseteq held[s]
    PROVE  CompatibleInv'
BY DEF CompatibleInv

(* A step that moves no session leaves those that wait before their lock.  *)
LEMMA StillTakes ==
    ASSUME NEW s \in Session, at'[s] = at[s]
    PROVE  Takes(s)' <=> Takes(s)
BY DEF Takes, Active, AtEnd, Step

(* A session that takes a lock holds that of the step it leaves behind.    *)
LEMMA AcquireLocks ==
    ASSUME LockInv, NEW s \in Session, Acquire(s)
    PROVE  HeldInv' /\ CompatibleInv' /\ QueueInv' /\ schema' = schema
<1> DEFINE lock == [table |-> Step(s).table, mode |-> Step(s).mode]
<1>1. /\ \A r \in Session : held'[r] = IF r = s THEN held[s] \cup {lock} ELSE held[r]
      /\ \A r \in Session : at'[r] = IF r = s THEN at[s] + 1 ELSE at[r]
      /\ queue' = Forget(s) /\ schema' = schema
  <2>1. held = [r \in Session |-> held[r]] /\ held' = [held EXCEPT ![s] = held[s] \cup {lock}]
    BY DEF LockInv, MigrationInv, Acquire
  <2>2. \A r \in Session : held'[r] = IF r = s THEN held[s] \cup {lock} ELSE held[r]
    BY <2>1, Changed, Zenon
  <2> QED
    BY <2>2 DEF LockInv, MigrationInv, Acquire
<1>2. at \in [Session -> Nat] /\ HeldInv /\ CompatibleInv /\ QueueInv
  BY DEF LockInv, MigrationInv
<1>3. /\ at[s] \in 1..Len(Program[s[2]]) /\ Program[s[2]][at[s]] = Take(lock.table, lock.mode)
      /\ s[2] = "connect" => at[s] \in 1..9
      /\ lock \in Lock
  BY <1>2, TakesFacts DEF Acquire, lock
<1>4. \A r \in Session \ {s} : \A l \in held[r] : l.table = lock.table => ~Conflict(l.mode, lock.mode)
  BY DEF Acquire, Blockers, HasLockAgainst, lock
<1>5. s[2] = "connect" /\ at[s] = 2 => lock = LogsShare
  <2> HAVE s[2] = "connect" /\ at[s] = 2
  <2>1. Program["connect"][2] = Take("logs", "Share")
    BY ConnectSteps DEF Migration, Index
  <2> QED
    BY <1>3, <2>1 DEF Take, LogsShare, lock
<1> HIDE DEF lock
<1>6. ASSUME NEW r \in Session
      PROVE  /\ at'[r] <= Len(Program[r[2]]) + 1 /\ held'[r] \subseteq Lock
             /\ \A l \in held'[r] : \E j \in 1..(at'[r] - 1) :
                   j <= Len(Program[r[2]]) /\ Program[r[2]][j] = Take(l.table, l.mode)
             /\ r[2] = "connect" /\ at'[r] \in 3..10 => LogsShare \in held'[r]
  <2>0. Len(Program[r[2]]) \in Nat
    BY SessionKinds, ProgramTypes
  <2>1. CASE r # s
    BY <1>1, <1>2, <2>1 DEF HeldInv
  <2>2. CASE r = s
    <3>1. at'[r] <= Len(Program[r[2]]) + 1 /\ at'[r] = at[r] + 1 /\ held'[r] = held[r] \cup {lock}
      BY <1>1, <1>3, <2>0, <2>2
    <3>2. ASSUME NEW l \in held'[r]
          PROVE  \E j \in 1..(at'[r] - 1) : j <= Len(Program[r[2]]) /\ Program[r[2]][j] = Take(l.table, l.mode)
      <4>1. CASE l = lock
        BY <1>3, <2>0, <2>2, <3>1, <4>1
      <4>2. CASE l \in held[r]
        <5>1. PICK j \in 1..(at[r] - 1) : j <= Len(Program[r[2]]) /\ Program[r[2]][j] = Take(l.table, l.mode)
          BY <1>2, <4>2 DEF HeldInv
        <5>2. j \in 1..(at'[r] - 1)
          BY <1>2, <3>1, <5>1
        <5> QED
          BY <5>1, <5>2
      <4> QED
        BY <3>1, <4>1, <4>2
    <3>3. held'[r] \subseteq Lock
      BY <1>2, <1>3, <3>1 DEF HeldInv
    <3>4. ASSUME r[2] = "connect", at'[r] \in 3..10 PROVE LogsShare \in held'[r]
      <4>1. at[r] = 2 \/ at[r] \in 3..10
        BY <1>2, <3>1, <3>4
      <4> QED
        BY <1>2, <1>5, <2>2, <3>1, <3>4, <4>1 DEF HeldInv
    <3> QED
      BY <3>1, <3>2, <3>3, <3>4
  <2> QED
    BY <2>1, <2>2
<1>7. CompatibleInv'
  <2> SUFFICES ASSUME NEW r \in Session, NEW q \in Session, NEW l \in held'[r], NEW k \in held'[q],
                      r # q, l.table = k.table
               PROVE  ~Conflict(l.mode, k.mode)
    BY DEF CompatibleInv
  <2>1. CASE l \in held[r] /\ k \in held[q]
    BY <1>2, <2>1 DEF CompatibleInv
  <2>2. CASE r = s /\ l = lock /\ q # s
    BY <1>1, <1>4, <2>2 DEF Conflict
  <2>3. CASE q = s /\ k = lock /\ r # s
    BY <1>1, <1>4, <2>3
  <2> QED
    BY <1>1, <2>1, <2>2, <2>3
<1>8. QueueInv'
  <2>1. Forget(s) \in Seq(Session) /\ IsInjective(Forget(s)) /\ ToSet(Forget(s)) = ToSet(queue) \ {s}
    BY <1>2, ForgetFacts DEF QueueInv
  <2>2. ASSUME NEW r \in Session, Waiting(r)' PROVE Takes(r)'
    <3>1. r # s /\ Waiting(r)
      BY <1>1, <2>1, <2>2 DEF Waiting
    <3> QED
      BY <1>1, <1>2, <3>1, StillTakes DEF QueueInv
  <2> QED
    BY <1>1, <2>1, <2>2 DEF QueueInv
<1> QED
  BY <1>1, <1>6, <1>7, <1>8 DEF HeldInv

(* The end of a transaction or of the advisory lock.                       *)
LEMMA ReleaseLocks ==
    ASSUME LockInv, NEW s \in Session, EndTransaction(s) \/ ReleaseAdvisoryLock(s)
    PROVE  HeldInv' /\ CompatibleInv' /\ QueueInv' /\ schema' \in BOOLEAN
<1>1. /\ at \in [Session -> Nat] /\ held = [r \in Session |-> held[r]]
      /\ HeldInv /\ CompatibleInv /\ QueueInv /\ schema \in BOOLEAN
  BY DEF LockInv, MigrationInv
<1>2. PICK less \in SUBSET held[s] :
         held' = [held EXCEPT ![s] = less] /\ (EndTransaction(s) => less = {l \in held[s] : l.table = "ddl"})
  BY DEF EndTransaction, ReleaseAdvisoryLock
<1>3. /\ \A r \in Session : held'[r] = IF r = s THEN less ELSE held[r]
      /\ \A r \in Session : at'[r] = IF r = s THEN at[s] + 1 ELSE at[r]
      /\ queue' = queue /\ schema' \in BOOLEAN
  <2>1. \A r \in Session : held'[r] = IF r = s THEN less ELSE held[r]
    BY <1>1, <1>2, Changed, Zenon
  <2> QED
    BY <1>1, <2>1 DEF EndTransaction, ReleaseAdvisoryLock
<1>4. at[s] > 0 /\ at[s] <= Len(Program[s[2]]) /\ Len(Program[s[2]]) \in Nat
  BY <1>1, SessionKinds, ProgramTypes DEF EndTransaction, ReleaseAdvisoryLock, Active, AtEnd
<1>5. ~Takes(s)
  BY DEF EndTransaction, ReleaseAdvisoryLock, Takes, Commit, Unlock
<1>6. s[2] = "connect" => at'[s] \notin 3..10
  <2> SUFFICES ASSUME s[2] = "connect" PROVE at'[s] \notin 3..10
    OBVIOUS
  <2>1. /\ at[s] \in 1..11 /\ Step(s) = Program["connect"][at[s]]
        /\ Step(s).op # "take"
    BY <1>1, <1>4, ConnectSteps DEF Step, EndTransaction, ReleaseAdvisoryLock, Commit, Unlock
  <2>2. at[s] \notin 1..9
    BY <2>1, ConnectSteps DEF AdvisoryLock, Take
  <2> QED
    BY <1>3, <2>1, <2>2
<1>7. ASSUME NEW r \in Session
      PROVE  /\ at'[r] <= Len(Program[r[2]]) + 1 /\ held'[r] \subseteq Lock
             /\ \A l \in held'[r] : \E j \in 1..(at'[r] - 1) :
                   j <= Len(Program[r[2]]) /\ Program[r[2]][j] = Take(l.table, l.mode)
             /\ r[2] = "connect" /\ at'[r] \in 3..10 => LogsShare \in held'[r]
  <2>1. CASE r # s
    BY <1>1, <1>3, <2>1 DEF HeldInv
  <2>2. CASE r = s
    <3>1. at'[r] <= Len(Program[r[2]]) + 1 /\ at'[r] = at[r] + 1 /\ held'[r] \subseteq held[r]
      BY <1>1, <1>3, <1>4, <2>2
    <3>2. 1..(at[r] - 1) \subseteq 1..(at'[r] - 1)
      BY <1>1, <3>1
    <3> QED
      BY <1>1, <1>6, <2>2, <3>1, <3>2 DEF HeldInv
  <2> QED
    BY <2>1, <2>2
<1>8. QueueInv'
  <2>1. ASSUME NEW r \in Session, Waiting(r)' PROVE Takes(r)'
    <3>1. r # s /\ Waiting(r)
      BY <1>1, <1>3, <1>5, <2>1 DEF Waiting, QueueInv
    <3> QED
      BY <1>1, <1>3, <3>1, StillTakes DEF QueueInv
  <2> QED
    BY <1>1, <1>3, <2>1 DEF QueueInv
<1> QED
  BY <1>1, <1>3, <1>7, <1>8, LessIsCompatible DEF HeldInv

(* A connection that goes back has no lock and waits for none.             *)
LEMMA GiveBackLocks ==
    ASSUME LockInv, NEW s \in Session, GiveBack(s)
    PROVE  HeldInv' /\ CompatibleInv' /\ QueueInv'
<1>1. /\ at \in [Session -> Nat] /\ held = [r \in Session |-> held[r]]
      /\ HeldInv /\ CompatibleInv /\ QueueInv
  BY DEF LockInv, MigrationInv
<1>2. /\ \A r \in Session : held'[r] = IF r = s THEN {} ELSE held[r]
      /\ \A r \in Session : at'[r] = IF r = s THEN 0 ELSE at[r]
      /\ queue' = Forget(s)
  <2>1. \A r \in Session : held'[r] = IF r = s THEN {} ELSE held[r]
    BY <1>1, Changed, Zenon DEF GiveBack
  <2> QED
    BY <1>1, <2>1 DEF GiveBack
<1>3. Len(Program[s[2]]) \in Nat
  BY SessionKinds, ProgramTypes
<1>4. HeldInv'
  <2> SUFFICES ASSUME NEW r \in Session
               PROVE  /\ at'[r] <= Len(Program[r[2]]) + 1 /\ held'[r] \subseteq Lock
                      /\ \A l \in held'[r] : \E j \in 1..(at'[r] - 1) :
                            j <= Len(Program[r[2]]) /\ Program[r[2]][j] = Take(l.table, l.mode)
                      /\ r[2] = "connect" /\ at'[r] \in 3..10 => LogsShare \in held'[r]
    BY DEF HeldInv
  <2>1. CASE r = s
    BY <1>2, <1>3, <2>1
  <2>2. CASE r # s
    BY <1>1, <1>2, <2>2 DEF HeldInv
  <2> QED
    BY <2>1, <2>2
<1>5. QueueInv'
  <2>1. Forget(s) \in Seq(Session) /\ IsInjective(Forget(s)) /\ ToSet(Forget(s)) = ToSet(queue) \ {s}
    BY <1>1, ForgetFacts DEF QueueInv
  <2>2. ASSUME NEW r \in Session, Waiting(r)' PROVE Takes(r)'
    <3>1. r # s /\ Waiting(r)
      BY <1>2, <2>1, <2>2 DEF Waiting
    <3> QED
      BY <1>1, <1>2, <3>1, StillTakes DEF QueueInv
  <2> QED
    BY <1>2, <2>1, <2>2 DEF QueueInv
<1> QED
  BY <1>1, <1>2, <1>4, <1>5, LessIsCompatible

(* A session that begins holds nothing and waits for nothing yet.          *)
LEMMA BeginLocks ==
    ASSUME LockInv, NEW s \in Session, at[s] = 0, at' = [at EXCEPT ![s] = 1],
           held' = held, queue' = queue
    PROVE  HeldInv' /\ CompatibleInv' /\ QueueInv'
<1>1. at \in [Session -> Nat] /\ HeldInv /\ CompatibleInv /\ QueueInv
  BY DEF LockInv, MigrationInv
<1>2. \A r \in Session : at'[r] = IF r = s THEN 1 ELSE at[r]
  BY <1>1
<1>3. held[s] = {} /\ Len(Program[s[2]]) \in Nat
  BY <1>1, SessionKinds, ProgramTypes DEF HeldInv
<1>4. HeldInv'
  <2>1. at'[s] = 1 /\ held'[s] = {}
    BY <1>2, <1>3
  <2>2. 1 <= Len(Program[s[2]]) + 1 /\ 1 \notin 3..10
    BY <1>3
  <2>3. \A r \in Session : r # s => at'[r] = at[r] /\ held'[r] = held[r]
    BY <1>2
  <2> QED
    BY <1>1, <2>1, <2>2, <2>3, Zenon DEF HeldInv
<1>5. QueueInv'
  <2>1. ASSUME NEW r \in Session, Waiting(r)' PROVE Takes(r)'
    <3>1. r # s /\ Waiting(r)
      BY <1>1, <2>1 DEF Waiting, QueueInv, Takes, Active
    <3> QED
      BY <1>1, <1>2, <3>1, StillTakes DEF QueueInv
  <2> QED
    BY <1>1, <2>1 DEF QueueInv
<1> QED
  BY <1>1, <1>4, <1>5, LessIsCompatible

(* A session that waits has come to a lock, and was not in the queue.      *)
LEMMA WaitLocks ==
    ASSUME LockInv, NEW s \in Session, Wait(s)
    PROVE  HeldInv' /\ CompatibleInv' /\ QueueInv'
<1>1. HeldInv /\ CompatibleInv /\ QueueInv /\ UNCHANGED <<at, held>> /\ queue' = Append(queue, s)
  BY DEF LockInv, Wait
<1>2. queue \in Seq(Session) /\ IsInjective(queue) /\ \A i \in DOMAIN queue : queue[i] # s
  BY <1>1 DEF QueueInv, Wait, Waiting, ToSet
<1>3. /\ queue' \in Seq(Session) /\ DOMAIN queue' = 1..(Len(queue) + 1)
      /\ \A i \in 1..(Len(queue) + 1) : queue'[i] = IF i <= Len(queue) THEN queue[i] ELSE s
  BY <1>1, <1>2
<1>4. IsInjective(queue') /\ ToSet(queue') \subseteq ToSet(queue) \cup {s}
  BY <1>2, <1>3 DEF IsInjective, ToSet
<1>5. ASSUME NEW r \in Session, Waiting(r)' PROVE Takes(r)'
  BY <1>1, <1>4, <1>5, StillTakes DEF Waiting, QueueInv, Wait
<1> QED
  BY <1>1, <1>3, <1>4, <1>5, LessIsCompatible DEF HeldInv, QueueInv

(* Every step keeps the locks and the queue in order.                      *)
LEMMA LockInductive ==
    ASSUME LockInv, [Next]_vars
    PROVE  LockInv'
<1>1. MigrationInv'
  BY MigrationInductive DEF LockInv
<1>2. LockInv => schema \in BOOLEAN /\ HeldInv /\ CompatibleInv /\ QueueInv /\ at \in [Session -> Nat]
  BY DEF LockInv, MigrationInv
<1>3. ASSUME UNCHANGED <<at, held, queue, schema>> PROVE LockInv'
  <2>1. \A s \in Session : Takes(s)' <=> Takes(s)
    BY <1>3, StillTakes
  <2>2. HeldInv' /\ CompatibleInv' /\ QueueInv'
    BY <1>2, <1>3, <2>1, LessIsCompatible DEF HeldInv, QueueInv, Waiting
  <2> QED
    BY <1>1, <1>2, <1>3, <2>2 DEF LockInv
<1>4. CASE UNCHANGED vars
  BY <1>3, <1>4 DEF vars
<1>5. ASSUME NEW i \in Instance, Start(i)
      PROVE  LockInv'
  <2>1. <<i, "connect">> \in Session /\ at[<<i, "connect">>] = 0
    <3>1. <<i, "connect">> \in Session
      BY SessionFacts
    <3> QED
      BY <1>2, <1>5, <3>1 DEF Start, InUse, Active
  <2>2. at' = [at EXCEPT ![<<i, "connect">>] = 1] /\ UNCHANGED <<held, queue, schema>>
    BY <1>5 DEF Start
  <2> QED
    BY <1>1, <1>2, <2>1, <2>2, BeginLocks DEF LockInv
<1>6. ASSUME NEW i \in Instance, Stop(i) \/ BeginClose(i) \/ Close(i) \/ Crash(i)
      PROVE  LockInv'
  BY <1>3, <1>6 DEF Stop, BeginClose, Close, Crash
<1>7. ASSUME NEW s \in Session, Begin(s)
      PROVE  LockInv'
  <2>1. at[s] = 0 /\ at' = [at EXCEPT ![s] = 1] /\ UNCHANGED <<held, queue, schema>>
    BY <1>2, <1>7 DEF Begin, Active
  <2> QED
    BY <1>1, <1>2, <2>1, BeginLocks DEF LockInv
<1>8. ASSUME NEW s \in Session, Acquire(s)
      PROVE  LockInv'
  BY <1>1, <1>2, <1>8, AcquireLocks DEF LockInv
<1>9. ASSUME NEW s \in Session, Wait(s)
      PROVE  LockInv'
  BY <1>1, <1>2, <1>9, WaitLocks DEF LockInv, Wait
<1>10. ASSUME NEW s \in Session, EndTransaction(s) \/ ReleaseAdvisoryLock(s)
       PROVE  LockInv'
  BY <1>1, <1>10, ReleaseLocks DEF LockInv
<1>11. ASSUME NEW s \in Session, Finish(s) \/ EndByCancel(s) \/ EndOrphan(s) \/ Fail(s) \/ KillForDeadlock(s)
       PROVE  LockInv'
  <2>1. GiveBack(s) /\ schema' = schema
    BY <1>11 DEF Finish, EndByCancel, EndOrphan, Fail, KillForDeadlock, EndByError
  <2> QED
    BY <1>1, <1>2, <2>1, GiveBackLocks DEF LockInv
<1> QED
  BY <1>4, <1>5, <1>6, <1>7, <1>8, <1>9, <1>10, <1>11 DEF Next, Proceed

(* From the first start of the first instance on.                          *)
LEMMA LockInvariant == Spec => []LockInv
<1>1. Init => LockInv
  <2> SUFFICES ASSUME Init PROVE LockInv
    OBVIOUS
  <2>1. MigrationInv
    BY DEF Init, MigrationInv, HasAdvisoryLock, SchemaBeforeService, Lives
  <2>2. HeldInv
    <3>1. ASSUME NEW s \in Session
          PROVE  at[s] = 0 /\ held[s] = {} /\ Len(Program[s[2]]) \in Nat
      BY SessionKinds, ProgramTypes DEF Init
    <3> QED
      BY <3>1 DEF HeldInv
  <2>3. CompatibleInv /\ schema \in BOOLEAN
    BY DEF Init, CompatibleInv
  <2>4. QueueInv
    <3>1. queue = <<>> /\ queue \in Seq(Session) /\ DOMAIN queue = {}
      BY DEF Init
    <3> QED
      BY <3>1 DEF QueueInv, Waiting, ToSet, IsInjective
  <2> QED
    BY <2>1, <2>2, <2>3, <2>4 DEF LockInv
<1>2. LockInv /\ [Next]_vars => LockInv'
  BY LockInductive
<1> QED
  BY <1>1, <1>2, PTL DEF Spec

(* Sessions, their locks and their queue are of their types; who has no    *)
(* connection holds no lock and waits for none.                            *)
THEOREM TypeCorrect == Spec => []TypeOK
<1>1. LockInv => TypeOK
  <2> SUFFICES ASSUME LockInv PROVE TypeOK
    OBVIOUS
  <2>1. /\ MigrationInv /\ HeldInv /\ QueueInv /\ schema \in BOOLEAN
        /\ at \in [Session -> Nat] /\ held = [s \in Session |-> held[s]]
    BY DEF LockInv, MigrationInv
  <2>2. ASSUME NEW s \in Session, NEW l \in held[s] PROVE l \in Lock /\ at[s] # 0
    BY <2>1 DEF HeldInv
  <2>3. ASSUME NEW s \in Session, at[s] = 0 PROVE held[s] = {} /\ s \notin ToSet(queue)
    BY <2>1, <2>2, <2>3 DEF QueueInv, Waiting, Takes, Active
  <2> QED
    BY <2>1, <2>2, <2>3 DEF TypeOK, MigrationInv, QueueInv
<1> QED
  BY <1>1, LockInvariant, PTL

----------------------------------------------------------------------------
(* Who waits for whom.                                                     *)

(* What the modes of a quiet step conflict with.                           *)
LEMMA QuietConflicts ==
    \A m \in {"AccessShare", "RowExclusive"}, n \in Modes :
        Conflict(n, m) => n \notin {"AccessShare", "RowExclusive"}
BY DEF Conflict, Modes

(* A quiet session holds quiet locks, a start that is not migrating its    *)
(* advisory lock alone.                                                    *)
LEMMA HeldFacts ==
    ASSUME LockInv, NEW s \in Session, NEW l \in held[s]
    PROVE  /\ s[2] # "connect" => l.table \in Tables /\ l.mode \in {"AccessShare", "RowExclusive"}
           /\ s[2] = "connect" /\ l.table # "ddl" => at[s] \in 2..10 /\ HasAdvisoryLock(s)
           /\ l.mode \in Modes
<1>1. MigrationInv /\ HeldInv /\ at[s] \in Nat
  BY DEF LockInv, MigrationInv
<1>2. PICK j \in 1..(at[s] - 1) : j <= Len(Program[s[2]]) /\ Program[s[2]][j] = Take(l.table, l.mode)
  BY <1>1 DEF HeldInv
<1>3. ASSUME s[2] # "connect"
      PROVE  l.table \in Tables /\ l.mode \in {"AccessShare", "RowExclusive"}
  <2>1. Take(l.table, l.mode) \in QuietOps
    BY <1>1, <1>2, <1>3, SessionKinds, ProgramTypes
  <2>2. Take(l.table, l.mode) \in [op : {"take"}, table : Tables, mode : {"AccessShare", "RowExclusive"}]
    BY <2>1 DEF QuietOps, Ops, Take, Commit, Unlock
  <2> QED
    BY <2>2 DEF Take
<1>4. ASSUME s[2] = "connect", l.table # "ddl"
      PROVE  at[s] \in 2..10 /\ HasAdvisoryLock(s)
  BY <1>1, <1>4 DEF MigrationInv
<1>5. l.mode \in Modes
  BY <1>1 DEF HeldInv, Lock
<1> QED
  BY <1>3, <1>4, <1>5

(* A start that waits for another table than that of the advisory lock has *)
(* the advisory lock.                                                      *)
LEMMA WaitingStart ==
    ASSUME LockInv, NEW s \in Session, s[2] = "connect", Takes(s), Step(s).table # "ddl"
    PROVE  at[s] \in 2..9 /\ HasAdvisoryLock(s) /\ Step(s) = Migration[at[s] - 1]
<1>1. MigrationInv /\ at[s] \in Nat
  BY DEF LockInv, MigrationInv
<1>2. at[s] \in 1..9 /\ Step(s) = Program["connect"][at[s]]
  BY <1>1, TakesFacts
<1>3. at[s] # 1
  BY <1>2, ConnectSteps DEF AdvisoryLock, Take
<1>4. at[s] \in 2..9
  BY <1>2, <1>3
<1> QED
  BY <1>1, <1>2, <1>4, ConnectSteps DEF MigrationInv

(* So is the table that a start waits for once it has the advisory lock.   *)
LEMMA WaitingMigration ==
    ASSUME LockInv, NEW m \in Session, m[2] = "connect", HasAdvisoryLock(m), Takes(m)
    PROVE  at[m] \in 2..9 /\ Step(m) = Program["connect"][at[m]] /\ Step(m).table # "ddl"
<1>1. HeldInv /\ at[m] \in Nat
  BY DEF LockInv, MigrationInv
<1>2. at[m] \in 1..9 /\ Step(m) = Program["connect"][at[m]]
  BY <1>1, TakesFacts
<1>3. at[m] # 1
  BY <1>1 DEF HasAdvisoryLock, HeldInv
<1>4. at[m] \in 2..9
  BY <1>2, <1>3
<1> QED
  BY <1>2, <1>4, ConnectSteps

(* Requests and passes wait for a migration only.                          *)
LEMMA BlockersOfQuiet ==
    ASSUME LockInv, NEW s \in Session, s[2] # "connect", Takes(s), NEW r \in Blockers(s)
    PROVE  r \in Session /\ r[2] = "connect" /\ HasAdvisoryLock(r)
<1>1. /\ QueueInv /\ at \in [Session -> Nat] /\ r \in Session
  BY DEF LockInv, MigrationInv, Blockers
<1>2. Step(s).table \in Tables /\ Step(s).mode \in {"AccessShare", "RowExclusive"} /\ Step(s).table # "ddl"
  BY <1>1, TakesFacts DEF Tables
<1>3. CASE HasLockAgainst(r, s)
  <2>1. PICK l \in held[r] : l.table = Step(s).table /\ Conflict(l.mode, Step(s).mode)
    BY <1>3 DEF HasLockAgainst
  <2>2. l.mode \notin {"AccessShare", "RowExclusive"}
    BY <1>1, <1>2, <2>1, HeldFacts, QuietConflicts
  <2> QED
    BY <1>1, <1>2, <2>1, <2>2, HeldFacts
<1>4. CASE Before(r, s) /\ Step(r).table = Step(s).table /\ Conflict(Step(r).mode, Step(s).mode)
  <2>1. Takes(r)
    BY <1>1, <1>4 DEF Before, QueueInv, Waiting, ToSet
  <2>2. Step(r).mode \in Modes /\ (r[2] # "connect" => Step(r).mode \in {"AccessShare", "RowExclusive"})
    BY <1>1, <2>1, TakesFacts DEF Lock
  <2>3. r[2] = "connect"
    BY <1>2, <1>4, <2>2, QuietConflicts
  <2> QED
    BY <1>1, <1>2, <1>4, <2>1, <2>3, WaitingStart
<1> QED
  BY <1>3, <1>4 DEF Blockers

(* A migration waits for requests and passes only.                         *)
LEMMA BlockersOfMigration ==
    ASSUME LockInv, NEW m \in Session, m[2] = "connect", HasAdvisoryLock(m), Takes(m),
           NEW r \in Blockers(m)
    PROVE  r \in Session /\ r[2] # "connect"
<1>1. /\ MigrationInv /\ QueueInv /\ at \in [Session -> Nat] /\ r \in Session /\ r # m
  BY DEF LockInv, MigrationInv, Blockers
<1>2. Step(m).table # "ddl"
  BY WaitingMigration
<1>3. ~HasAdvisoryLock(r)
  BY <1>1 DEF MigrationInv
<1> SUFFICES ASSUME r[2] = "connect" PROVE FALSE
  BY <1>1
<1>4. CASE HasLockAgainst(r, m)
  BY <1>1, <1>2, <1>3, <1>4, HeldFacts DEF HasLockAgainst
<1>5. CASE Before(r, m) /\ Step(r).table = Step(m).table
  <2>1. Takes(r)
    BY <1>1, <1>5 DEF Before, QueueInv, Waiting, ToSet
  <2> QED
    BY <1>1, <1>2, <1>3, <1>5, <2>1, WaitingStart
<1> QED
  BY <1>4, <1>5 DEF Blockers

(* Of two sessions in the queue one comes before the other.                *)
LEMMA OneComesFirst ==
    ASSUME queue \in Seq(Session), NEW r \in Session, NEW s \in Session, Before(r, s), Before(s, r)
    PROVE  FALSE
<1>1. PICK i \in DOMAIN queue : queue[i] = r /\ s \notin ToSet(SubSeq(queue, 1, i))
  BY DEF Before
<1>2. PICK j \in DOMAIN queue : queue[j] = s /\ r \notin ToSet(SubSeq(queue, 1, j))
  BY DEF Before
<1>3. /\ \A k \in 1..i : queue[k] # s
      /\ \A k \in 1..j : queue[k] # r
  <2>1. \A n \in DOMAIN queue : \A k \in 1..n : queue[k] \in ToSet(SubSeq(queue, 1, n))
    <3>1. ASSUME NEW n \in DOMAIN queue, NEW k \in 1..n PROVE queue[k] \in ToSet(SubSeq(queue, 1, n))
      <4>1. k \in DOMAIN SubSeq(queue, 1, n) /\ SubSeq(queue, 1, n)[k] = queue[k]
        OBVIOUS
      <4> QED
        BY <4>1 DEF ToSet
    <3> QED
      BY <3>1
  <2> QED
    BY <1>1, <1>2, <2>1
<1>4. i \in Nat /\ j \in Nat /\ i >= 1 /\ j >= 1
  OBVIOUS
<1> QED
  BY <1>1, <1>2, <1>3, <1>4

(* The transactions that store payloads.                                   *)
Ingesting(s) == s[2] = "post logs" \/ s[2] = "post traces"

(* The tables of the script's steps, and the transactions of ingestion.    *)
LEMMA ProgramTables ==
    /\ \A j \in 2..9 : Program["connect"][j].table = "map" => j \in 3..4
    /\ \A j \in 2..9 : Program["connect"][j].table = "logs" => j \in {2, 5}
    /\ \A j \in 2..9 : Program["connect"][j].table = "spans" => j \in {6, 8}
    /\ Len(Program["post traces"]) = 3 /\ Len(Program["post logs"]) = 3
    /\ Program["post traces"][1] = Write("map") /\ Program["post traces"][2] = Write("spans")
    /\ Program["post logs"][1] = Write("logs") /\ Program["post logs"][2] = Write("map")
    /\ Program["post traces"][3] = Commit /\ Program["post logs"][3] = Commit
<1>1. /\ Migration[1].table = "logs" /\ Migration[2].table = "map" /\ Migration[3].table = "map"
      /\ Migration[4].table = "logs" /\ Migration[5].table = "spans" /\ Migration[6].table = "notes"
      /\ Migration[7].table = "spans" /\ Migration[8].table = "alerts"
  BY DEF Migration, Index, Alter, Take
<1>2. /\ Program["connect"][2].table = "logs" /\ Program["connect"][3].table = "map"
      /\ Program["connect"][4].table = "map" /\ Program["connect"][5].table = "logs"
      /\ Program["connect"][6].table = "spans" /\ Program["connect"][7].table = "notes"
      /\ Program["connect"][8].table = "spans" /\ Program["connect"][9].table = "alerts"
  <2>1. \A j \in 2..9 : Program["connect"][j] = Migration[j - 1]
    BY ConnectSteps
  <2> QED
    BY <1>1, <2>1
<1>3. ASSUME NEW j \in 2..9
      PROVE  /\ Program["connect"][j].table = "map" => j \in 3..4
             /\ Program["connect"][j].table = "logs" => j \in {2, 5}
             /\ Program["connect"][j].table = "spans" => j \in {6, 8}
  <2>1. j = 2 \/ j = 3 \/ j = 4 \/ j = 5 \/ j = 6 \/ j = 7 \/ j = 8 \/ j = 9
    OBVIOUS
  <2> QED
    BY <1>2, <2>1
<1>4. Program["post traces"] = PostTraces /\ Program["post logs"] = PostLogs
  BY DEF Program, Kinds
<1>5. /\ Len(PostTraces) = 3 /\ PostTraces[1] = Write("map") /\ PostTraces[2] = Write("spans")
      /\ PostTraces[3] = Commit
      /\ Len(PostLogs) = 3 /\ PostLogs[1] = Write("logs") /\ PostLogs[2] = Write("map")
      /\ PostLogs[3] = Commit
  BY DEF PostTraces, PostLogs
<1> QED
  BY <1>3, <1>4, <1>5

(* What a transaction of ingestion that waits for a lock holds.            *)
LEMMA IngestionHolds ==
    ASSUME LockInv, NEW s \in Session, Ingesting(s), Takes(s), NEW l \in held[s]
    PROVE  /\ s[2] = "post logs" => l = [table |-> "logs", mode |-> "RowExclusive"] /\ Step(s).table = "map"
           /\ s[2] = "post traces" => l.table = "map" /\ Step(s).table = "spans"
<1>1. HeldInv /\ at[s] \in Nat
  BY DEF LockInv, MigrationInv
<1>2. at[s] \in 1..3 /\ Step(s) = Program[s[2]][at[s]] /\ at[s] # 3
  <2>1. at[s] \in 1..Len(Program[s[2]]) /\ Step(s) = Program[s[2]][at[s]]
    BY <1>1, TakesFacts
  <2>2. Len(Program[s[2]]) = 3 /\ Program[s[2]][3] = Commit
    BY ProgramTables DEF Ingesting
  <2>3. Step(s).op # Commit.op
    BY DEF Takes, Commit
  <2> QED
    BY <2>1, <2>2, <2>3
<1>3. PICK j \in 1..(at[s] - 1) : Program[s[2]][j] = Take(l.table, l.mode)
  BY <1>1 DEF HeldInv
<1>4. at[s] = 2 /\ j = 1
  BY <1>2, <1>3
<1>5. l \in Lock
  BY <1>1 DEF HeldInv
<1>6. ASSUME s[2] = "post logs"
      PROVE  l = [table |-> "logs", mode |-> "RowExclusive"] /\ Step(s).table = "map"
  <2>1. Take(l.table, l.mode) = Write("logs") /\ Step(s) = Write("map")
    BY <1>2, <1>3, <1>4, <1>6, ProgramTables
  <2> QED
    BY <1>5, <2>1 DEF Write, Take, Lock
<1>7. ASSUME s[2] = "post traces"
      PROVE  l.table = "map" /\ Step(s).table = "spans"
  <2>1. Take(l.table, l.mode) = Write("map") /\ Step(s) = Write("spans")
    BY <1>2, <1>3, <1>4, <1>7, ProgramTables
  <2> QED
    BY <2>1 DEF Write, Take
<1> QED
  BY <1>6, <1>7

(* A migration and a transaction of ingestion never wait for each other:   *)
(* that would take a lock of each that the other comes to later, but the   *)
(* script locks the logs before the map and the map before the spans.      *)
LEMMA NotForEachOther ==
    ASSUME LockInv, NEW s \in Session, Ingesting(s), Takes(s),
           NEW m \in Session, m[2] = "connect", HasAdvisoryLock(m), Takes(m),
           m \in Blockers(s), s \in Blockers(m)
    PROVE  FALSE
<1>0. s[2] # "connect" /\ m # s
  BY DEF Ingesting
<1>1. MigrationInv /\ HeldInv /\ CompatibleInv /\ QueueInv /\ at \in [Session -> Nat]
  BY DEF LockInv, MigrationInv
<1>2. at[m] \in 2..9 /\ Step(m) = Program["connect"][at[m]]
  BY WaitingMigration
<1>3. ~(Before(m, s) /\ Before(s, m))
  BY <1>1, OneComesFirst DEF QueueInv
<1>4. HasLockAgainst(m, s) /\ HasLockAgainst(s, m)
  BY <1>3 DEF Blockers
<1>5. PICK k \in held[m] : k.table = Step(s).table /\ Conflict(k.mode, Step(s).mode)
  BY <1>4 DEF HasLockAgainst
<1>6. PICK l \in held[s] : l.table = Step(m).table
  BY <1>4 DEF HasLockAgainst
<1>7. PICK j \in 1..(at[m] - 1) : Program["connect"][j] = Take(k.table, k.mode)
  BY <1>1 DEF HeldInv
<1>8. Step(s).table # "ddl"
  BY <1>0, <1>1, TakesFacts DEF Tables
<1>9. j \in 2..9 /\ j < at[m] /\ Program["connect"][j].table = Step(s).table
  <2>1. Program["connect"][j].table = Step(s).table
    BY <1>5, <1>7 DEF Take
  <2>2. j # 1
    BY <1>8, <2>1, ConnectSteps DEF AdvisoryLock, Take
  <2> QED
    BY <1>2, <2>1, <2>2
<1>10. CASE s[2] = "post traces"
  <2>1. Step(m).table = "map" /\ Step(s).table = "spans"
    BY <1>6, <1>10, IngestionHolds
  <2>2. at[m] \in 3..4
    BY <1>2, <2>1, ProgramTables
  <2>3. j \in {6, 8}
    BY <1>9, <2>1, ProgramTables
  <2> QED
    BY <1>9, <2>2, <2>3
<1>11. CASE s[2] = "post logs"
  <2>1. l = [table |-> "logs", mode |-> "RowExclusive"] /\ Step(s).table = "map"
    BY <1>11, IngestionHolds
  <2>2. j \in 3..4
    BY <1>9, <2>1, ProgramTables
  <2>3. LogsShare \in held[m]
    BY <1>1, <1>2, <1>9, <2>2 DEF HeldInv
  <2> QED
    BY <1>0, <1>1, <2>1, <2>3 DEF CompatibleInv, LogsShare, Conflict
<1> QED
  BY <1>10, <1>11 DEF Ingesting

(* However many instances migrate, serve, stop and die: no payload is      *)
(* rolled back because of a deadlock of table locks.  Every circle of      *)
(* waiting sessions has a migration in it, and the ones that it waits for. *)
THEOREM IngestionSurvives == Spec => []IngestionIsNeverVictim
<1>1. ASSUME LockInv, NEW s \in Session, Ingesting(s), InCircle(s)
      PROVE  FALSE
  <2> DEFINE W == ToSet(queue)
             B == [r \in W |-> Blockers(r) \cap W]
             M == B[s]
             S == M \cup UNION {B[m] : m \in M}
  <2>1. s \in W /\ W \subseteq Session /\ \A r \in W : Takes(r)
    <3>1. queue \in Seq(Session) /\ \A r \in Session : Waiting(r) => Takes(r)
      BY <1>1 DEF LockInv, QueueInv
    <3>2. W \subseteq Session
      BY <3>1 DEF ToSet
    <3> QED
      BY <1>1, <3>1, <3>2 DEF InCircle, Waiting
  <2>2. S \in SUBSET W /\ B[s] \subseteq S
    BY <2>1
  <2>3. (\A r \in S : B[r] \subseteq S) => s \in S
    BY <1>1, <2>2 DEF InCircle
  <2> HIDE DEF W
  <2>4. \A r \in W : r[2] # "connect" => \A m \in B[r] :
           m \in Session /\ m[2] = "connect" /\ HasAdvisoryLock(m)
    BY <1>1, <2>1, BlockersOfQuiet
  <2>5. \A m, r \in Session : HasAdvisoryLock(m) /\ HasAdvisoryLock(r) => m = r
    BY <1>1 DEF LockInv, MigrationInv
  <2>6. \A m \in M : m \in W /\ m \in Session /\ m[2] = "connect" /\ HasAdvisoryLock(m)
    <3>1. s[2] # "connect"
      BY <1>1 DEF Ingesting
    <3>2. M \subseteq W
      BY <2>1
    <3> QED
      BY <2>1, <2>4, <3>1, <3>2
  <2>7. \A m \in M : \A r \in B[m] : r \in W /\ r[2] # "connect"
    BY <1>1, <2>1, <2>6, BlockersOfMigration
  <2>8. ASSUME NEW r \in S PROVE B[r] \subseteq S
    <3>1. CASE r \in M
      BY <3>1
    <3>2. ASSUME NEW m \in M, r \in B[m] PROVE B[r] \subseteq S
      <4>1. \A n \in B[r] : n = m
        BY <2>4, <2>5, <2>6, <2>7, <3>2
      <4> QED
        BY <4>1
    <3> QED
      BY <2>8, <3>1, <3>2
  <2>9. s \in S
    BY <2>3, <2>8
  <2>10. s \notin M
    BY <2>1 DEF Blockers
  <2>11. PICK m \in M : s \in B[m]
    BY <2>9, <2>10
  <2> QED
    BY <1>1, <2>1, <2>6, <2>11, NotForEachOther
<1>2. LockInv => IngestionIsNeverVictim
  BY <1>1 DEF IngestionIsNeverVictim, Ingesting
<1> QED
  BY <1>2, LockInvariant, PTL
=============================================================================
