--------------------------- MODULE Ingest_proofs ---------------------------
(***************************************************************************)
(* What holds of the delivery of any number of payloads of any length, for *)
(* any size of the pool and any number of posts and faults: the copies it  *)
(* may leave, and that it implements AtomicDelivery.                       *)
(***************************************************************************)
EXTENDS Ingest, ConversationMap_proofs, SequenceTheorems, FiniteSetTheorems, TLAPS

(* What a function is after it has been changed at one point.              *)
LEMMA Changed ==
    ASSUME NEW S, NEW f, f = [x \in S |-> f[x]], NEW s \in S, NEW v,
           NEW g, g = [f EXCEPT ![s] = v]
    PROVE  /\ g = [x \in S |-> g[x]]
           /\ \A x \in S : g[x] = IF x = s THEN v ELSE f[x]
<1>1. DOMAIN f = S
  OBVIOUS
<1> QED
  BY <1>1

(* A post is a payload and the number of the try.                          *)
LEMMA PostFacts ==
    \A a \in Posts : a[1] \in Payload /\ a[2] \in 1..MaxTries[a[1]] /\ a = <<a[1], a[2]>>
  BY DEF Posts

(* A log row belongs to a payload.                                         *)
LEMMA LogIdFacts == \A l \in LogIds : l[1] \in Payload
  BY DEF LogIds

IsPost(r) ==
    r = [stage |-> r.stage, done |-> r.done, waits |-> r.waits, rows |-> r.rows, marks |-> r.marks]

(* The shape of the state.                                                 *)
Shape ==
    /\ logs \in [LogIds -> Nat]
    /\ tries \in [Payload -> Nat]
    /\ post = [a \in Posts |-> post[a]]
    /\ \A a \in Posts : IsPost(post[a])
    /\ faults \in Nat

(* The posts of a payload that may still be committed.                     *)
Alive(p) == {a \in Posts : a[1] = p /\ post[a].stage \in {"queued", "open"}}

(* A payload that is to be sent once more without a fault: it is neither   *)
(* settled nor waited for, or will not be after an error that is under way.*)
Owed(p) ==
    IF \/ p \in acked \cup dropped
       \/ p \in waiting /\ \A a \in Posts : a[1] = p /\ Latest(a) => post[a].stage # "failed"
    THEN 0 ELSE 1

(* Every copy of a log row, every post that may still add one and the next *)
(* post that is owed needed a fault, but for one of them.                  *)
CopyInv == \A l \in LogIds : logs[l] + Cardinality(Alive(l[1])) + Owed(l[1]) <= 1 + faults

(* The posts of a payload that are alive can be counted.                   *)
LEMMA AliveFinite ==
    ASSUME NEW p \in Payload
    PROVE  IsFiniteSet(Alive(p)) /\ Cardinality(Alive(p)) \in Nat
<1>1. MaxTries[p] \in Nat
  BY IngestAssumption
<1>2. IsFiniteSet({p} \X (1..MaxTries[p]))
  <2>1. IsFiniteSet(1..MaxTries[p])
    BY <1>1, FS_Interval
  <2>2. IsFiniteSet({p})
    BY FS_Singleton
  <2> QED
    BY <2>1, <2>2, FS_Product
<1>3. Alive(p) \subseteq {p} \X (1..MaxTries[p])
  BY PostFacts DEF Alive
<1>4. IsFiniteSet(Alive(p))
  BY <1>2, <1>3, FS_Subset
<1> QED
  BY <1>4, FS_CardinalityType

(* The stage of one post changes, or of none.                              *)
Moves(a, stage) ==
    /\ post' = [b \in Posts |-> post'[b]]
    /\ \A b \in Posts : IsPost(post'[b])
    /\ \A b \in Posts : post'[b].stage = IF b = a THEN stage ELSE post[b].stage

(* Putting a record for one post moves that post alone.                    *)
LEMMA Moved ==
    ASSUME Shape, NEW a \in Posts, NEW r, IsPost(r), post' = [post EXCEPT ![a] = r]
    PROVE  Moves(a, r.stage)
<1>1. post' = [b \in Posts |-> post'[b]] /\ \A b \in Posts : post'[b] = IF b = a THEN r ELSE post[b]
  BY Changed, Zenon DEF Shape
<1> QED
  BY <1>1 DEF Moves, Shape

(* A post that has written nothing is a post.                              *)
LEMMA IdleIsPost == \A stage : IsPost(Idle(stage)) /\ Idle(stage).stage = stage
  BY DEF Idle, IsPost
Live == {"queued", "open"}

(* How the posts that are alive change with one stage.                     *)
LEMMA AliveMoved ==
    ASSUME Shape, NEW a \in Posts, NEW stage, Moves(a, stage), NEW q \in Payload
    PROVE  /\ Cardinality(Alive(q)) \in Nat /\ Cardinality(Alive(q)') \in Nat
           /\ q # a[1] => Cardinality(Alive(q)') = Cardinality(Alive(q))
           /\ stage \in Live => Cardinality(Alive(q)') <= Cardinality(Alive(q)) + 1
           /\ stage \notin Live => Cardinality(Alive(q)') <= Cardinality(Alive(q))
           /\ q = a[1] /\ post[a].stage \in Live =>
                Cardinality(Alive(q)') = IF stage \in Live THEN Cardinality(Alive(q))
                                                           ELSE Cardinality(Alive(q)) - 1
<1>1. IsFiniteSet(Alive(q)) /\ Cardinality(Alive(q)) \in Nat
  BY AliveFinite
<1>2. q # a[1] => Alive(q)' = Alive(q)
  BY DEF Alive, Moves
<1>3. q = a[1] /\ stage \in Live => Alive(q)' = Alive(q) \cup {a}
  BY DEF Alive, Moves, Live
<1>4. q = a[1] /\ stage \notin Live => Alive(q)' = Alive(q) \ {a}
  BY DEF Alive, Moves, Live
<1>5. q = a[1] => (a \in Alive(q) <=> post[a].stage \in Live)
  BY DEF Alive, Live
<1>6. /\ Cardinality(Alive(q) \cup {a}) =
            IF a \in Alive(q) THEN Cardinality(Alive(q)) ELSE Cardinality(Alive(q)) + 1
      /\ Cardinality(Alive(q) \ {a}) =
            IF a \in Alive(q) THEN Cardinality(Alive(q)) - 1 ELSE Cardinality(Alive(q))
  BY <1>1, FS_AddElement, FS_RemoveElement
<1>7. IsFiniteSet(Alive(q) \ {a}) /\ Cardinality(Alive(q) \ {a}) \in Nat
  BY <1>1, FS_RemoveElement, FS_CardinalityType
<1> DEFINE n == Cardinality(Alive(q))
<1>8. CASE q # a[1]
  BY <1>1, <1>2, <1>8
<1>9. CASE q = a[1] /\ stage \in Live
  <2>1. Cardinality(Alive(q)') = IF post[a].stage \in Live THEN n ELSE n + 1
    BY <1>3, <1>5, <1>6, <1>9
  <2> QED
    BY <1>1, <1>9, <2>1
<1>10. CASE q = a[1] /\ stage \notin Live
  <2>1. Cardinality(Alive(q)') = IF post[a].stage \in Live THEN n - 1 ELSE n
    BY <1>4, <1>5, <1>6, <1>10
  <2>2. Cardinality(Alive(q)') \in Nat
    BY <1>4, <1>7, <1>10
  <2> QED
    BY <1>1, <1>10, <2>1, <2>2
<1> QED
  BY <1>8, <1>9, <1>10

(* One post is owed or none.                                               *)
LEMMA OwedType == \A p : Owed(p) \in {0, 1}
  BY DEF Owed

(* A post that goes on, from the pool or by a statement.                   *)
LEMMA GoingOnKeeps ==
    ASSUME Shape, CopyInv, NEW a \in Posts, post[a].stage \in Live, NEW stage \in Live,
           Moves(a, stage), UNCHANGED <<logs, acked, dropped, tries, waiting, faults>>
    PROVE  CopyInv'
<1>1. \A q : Owed(q)' = Owed(q)
  <2>1. \A b \in Posts : post'[b].stage # "failed" <=> post[b].stage # "failed"
    BY DEF Moves, Live
  <2> QED
    BY <2>1 DEF Owed, Latest
<1>2. \A q \in Payload : Cardinality(Alive(q)') = Cardinality(Alive(q))
  BY AliveMoved
<1> QED
  BY <1>1, <1>2, LogIdFacts DEF CopyInv

(* A post that is rolled back may have to be sent again, and adds no copy. *)
LEMMA RollBackKeeps ==
    ASSUME Shape, CopyInv, NEW a \in Posts, post[a].stage \in Live, Moves(a, "failed"),
           UNCHANGED <<logs, acked, dropped, tries, waiting>>, faults' \in Nat, faults <= faults'
    PROVE  CopyInv'
<1> SUFFICES ASSUME NEW l \in LogIds
             PROVE  logs[l] + Cardinality(Alive(l[1])') + Owed(l[1])' <= 1 + faults'
  BY DEF CopyInv
<1>1. /\ l[1] \in Payload /\ logs[l] \in Nat /\ faults \in Nat
      /\ logs[l] + Cardinality(Alive(l[1])) + Owed(l[1]) <= 1 + faults
  BY LogIdFacts DEF CopyInv, Shape
<1>2. Owed(l[1]) \in {0, 1} /\ Owed(l[1])' \in {0, 1}
  BY DEF Owed
<1>3. CASE l[1] = a[1]
  <2>1. /\ Cardinality(Alive(l[1])) \in Nat
        /\ Cardinality(Alive(l[1])') = Cardinality(Alive(l[1])) - 1
    BY <1>1, <1>3, AliveMoved DEF Live
  <2> QED
    BY <1>1, <1>2, <2>1
<1>4. CASE l[1] # a[1]
  <2>1. /\ Cardinality(Alive(l[1])) \in Nat
        /\ Cardinality(Alive(l[1])') = Cardinality(Alive(l[1]))
    BY <1>1, <1>4, AliveMoved
  <2>2. Owed(l[1])' = Owed(l[1])
    <3>1. \A b \in Posts : b[1] = l[1] => post'[b].stage = post[b].stage
      BY <1>4 DEF Moves
    <3> QED
      BY <3>1 DEF Owed, Latest
  <2> QED
    BY <1>1, <1>2, <2>1, <2>2
<1> QED
  BY <1>3, <1>4

(* A commit turns the post into a copy.                                    *)
LEMMA CommitKeeps ==
    ASSUME Shape, CopyInv, NEW a \in Posts, Commit(a), Moves(a, "stored")
    PROVE  CopyInv'
<1> SUFFICES ASSUME NEW l \in LogIds
             PROVE  logs'[l] + Cardinality(Alive(l[1])') + Owed(l[1])' <= 1 + faults'
  BY DEF CopyInv
<1>1. /\ l[1] \in Payload /\ logs[l] \in Nat /\ faults \in Nat /\ faults' = faults
      /\ logs[l] + Cardinality(Alive(l[1])) + Owed(l[1]) <= 1 + faults
      /\ logs'[l] = IF l[1] = a[1] THEN logs[l] + 1 ELSE logs[l]
  BY LogIdFacts DEF CopyInv, Shape, Commit
<1>2. Owed(l[1])' = Owed(l[1])
  <2>1. \A b \in Posts : post'[b].stage # "failed" <=> post[b].stage # "failed"
    BY DEF Moves, Commit
  <2> QED
    BY <2>1 DEF Owed, Latest, Commit
<1>3. /\ Cardinality(Alive(l[1])) \in Nat
      /\ Cardinality(Alive(l[1])') =
           IF l[1] = a[1] THEN Cardinality(Alive(l[1])) - 1 ELSE Cardinality(Alive(l[1]))
  BY <1>1, AliveMoved DEF Commit, Live
<1> QED
  BY <1>1, <1>2, <1>3, OwedType

(* A payload is sent again when that is owed.                              *)
LEMMA SendKeeps ==
    ASSUME Shape, CopyInv, NEW p \in Payload, Send(p), <<p, tries[p] + 1>> \in Posts,
           NEW stage, Moves(<<p, tries[p] + 1>>, stage)
    PROVE  CopyInv'
<1> DEFINE a == <<p, tries[p] + 1>>
<1> SUFFICES ASSUME NEW l \in LogIds
             PROVE  logs[l] + Cardinality(Alive(l[1])') + Owed(l[1])' <= 1 + faults
  BY DEF CopyInv, Send, tables
<1>1. /\ l[1] \in Payload /\ logs[l] \in Nat /\ faults \in Nat
      /\ logs[l] + Cardinality(Alive(l[1])) + Owed(l[1]) <= 1 + faults
  BY LogIdFacts DEF CopyInv, Shape
<1>2. /\ \A q \in Payload : q # p => tries'[q] = tries[q]
      /\ tries'[p] = tries[p] + 1 /\ waiting' = waiting \cup {p}
      /\ p \notin acked \cup dropped /\ p \notin waiting
      /\ UNCHANGED <<acked, dropped>>
  BY DEF Send, Shape
<1>3. CASE l[1] # p
  <2>1. \A b \in Posts : b[1] = l[1] => post'[b].stage = post[b].stage /\ (Latest(b)' <=> Latest(b))
    BY <1>1, <1>2, <1>3, PostFacts DEF Moves, Latest
  <2>2. Owed(l[1])' = Owed(l[1])
    BY <1>2, <1>3, <2>1 DEF Owed
  <2>3. Cardinality(Alive(l[1])') = Cardinality(Alive(l[1]))
    BY <1>1, <1>3, AliveMoved
  <2> QED
    BY <1>1, <2>2, <2>3
<1>4. CASE l[1] = p
  <2>1. Owed(p) = 1
    BY <1>2 DEF Owed
  <2>2. a \in Posts /\ post'[a].stage = stage /\ (\A b \in Posts : b[1] = p /\ Latest(b)' => b = a)
    BY <1>2, PostFacts DEF Moves, Latest
  <2>3. stage # "failed" => Owed(p)' = 0
    BY <1>2, <2>2 DEF Owed
  <2>4. /\ Cardinality(Alive(p)) \in Nat /\ Cardinality(Alive(p)') \in Nat
        /\ stage \in Live => Cardinality(Alive(p)') <= Cardinality(Alive(p)) + 1
        /\ stage \notin Live => Cardinality(Alive(p)') <= Cardinality(Alive(p))
    BY <2>2, AliveMoved
  <2>5. Owed(p)' \in {0, 1}
    BY DEF Owed
  <2> QED
    BY <1>1, <1>4, <2>1, <2>3, <2>4, <2>5 DEF Live
<1> QED
  BY <1>3, <1>4

(* A reply settles the payload, or owes it another post as before.         *)
LEMMA ReplyKeeps ==
    ASSUME Shape, CopyInv, NEW a \in Posts, Reply(a), Moves(a, "over")
    PROVE  CopyInv'
<1> SUFFICES ASSUME NEW l \in LogIds
             PROVE  logs[l] + Cardinality(Alive(l[1])') + Owed(l[1])' <= 1 + faults
  BY DEF CopyInv, Reply, tables
<1>1. /\ l[1] \in Payload /\ logs[l] \in Nat /\ faults \in Nat
      /\ logs[l] + Cardinality(Alive(l[1])) + Owed(l[1]) <= 1 + faults
  BY LogIdFacts DEF CopyInv, Shape
<1>2. /\ Cardinality(Alive(l[1])) \in Nat /\ Cardinality(Alive(l[1])') \in Nat
      /\ Cardinality(Alive(l[1])') <= Cardinality(Alive(l[1]))
  BY <1>1, AliveMoved DEF Live
<1>3. Owed(l[1]) \in {0, 1} /\ Owed(l[1])' \in {0, 1}
  BY DEF Owed
<1>4. Owed(l[1]) = 0 => Owed(l[1])' = 0
  <2> SUFFICES ASSUME Owed(l[1]) = 0 PROVE Owed(l[1])' = 0
    OBVIOUS
  <2>1. /\ acked \subseteq acked' /\ dropped \subseteq dropped'
        /\ tries' = tries
    BY DEF Reply
  <2>2. CASE l[1] \in acked \cup dropped
    BY <2>1, <2>2 DEF Owed
  <2>3. CASE /\ l[1] \notin acked \cup dropped /\ l[1] \in waiting
             /\ \A b \in Posts : b[1] = l[1] /\ Latest(b) => post[b].stage # "failed"
    <3>1. CASE a[1] = l[1] /\ Latest(a)
      BY <2>3, <3>1 DEF Reply, Owed
    <3>2. CASE ~(a[1] = l[1] /\ Latest(a))
      <4>1. l[1] \in waiting'
        BY <2>3, <3>2 DEF Reply
      <4>2. \A b \in Posts : b[1] = l[1] /\ Latest(b) => post'[b].stage # "failed"
        BY <2>3 DEF Moves
      <4> QED
        BY <2>1, <4>1, <4>2 DEF Owed, Latest
    <3> QED
      BY <3>1, <3>2
  <2> QED
    BY <2>2, <2>3 DEF Owed
<1> QED
  BY <1>1, <1>2, <1>3, <1>4
(* A fault may leave one more post owed, and counts for it.                *)
LEMMA FaultKeeps ==
    ASSUME Shape, CopyInv, logs' = logs, faults' = faults + 1,
           \A q \in Payload : Alive(q)' = Alive(q) \/ Alive(q)' = {}
    PROVE  CopyInv'
<1> SUFFICES ASSUME NEW l \in LogIds
             PROVE  logs[l] + Cardinality(Alive(l[1])') + Owed(l[1])' <= 1 + faults'
  BY DEF CopyInv
<1>1. /\ l[1] \in Payload /\ logs[l] \in Nat /\ faults \in Nat
      /\ logs[l] + Cardinality(Alive(l[1])) + Owed(l[1]) <= 1 + faults
  BY LogIdFacts DEF CopyInv, Shape
<1>2. Owed(l[1]) \in {0, 1} /\ Owed(l[1])' \in {0, 1}
  BY DEF Owed
<1>3. /\ Cardinality(Alive(l[1])) \in Nat
      /\ Cardinality(Alive(l[1])') \in {0, Cardinality(Alive(l[1]))}
  BY <1>1, AliveFinite, FS_EmptySet
<1> QED
  BY <1>1, <1>2, <1>3

----------------------------------------------------------------------------
(* Each step, by the posts it moves.                                       *)

(* A change of one field of a post leaves a post, in its stage unless that *)
(* is the field.                                                           *)
LEMMA PostChanges ==
    ASSUME NEW r, IsPost(r), NEW v
    PROVE  /\ IsPost([r EXCEPT !.stage = v]) /\ [r EXCEPT !.stage = v].stage = v
           /\ IsPost([r EXCEPT !.waits = v]) /\ [r EXCEPT !.waits = v].stage = r.stage
           /\ IsPost([r EXCEPT !.rows = v])  /\ [r EXCEPT !.rows = v].stage = r.stage
           /\ IsPost([r EXCEPT !.marks = v]) /\ [r EXCEPT !.marks = v].stage = r.stage
           /\ IsPost([r EXCEPT !.done = v])  /\ [r EXCEPT !.done = v].stage = r.stage
<1>0. r = [stage |-> r.stage, done |-> r.done, waits |-> r.waits, rows |-> r.rows, marks |-> r.marks]
  BY DEF IsPost
<1>1. [r EXCEPT !.stage = v] =
        [stage |-> v, done |-> r.done, waits |-> r.waits, rows |-> r.rows, marks |-> r.marks]
  BY <1>0
<1>2. [r EXCEPT !.waits = v] =
        [stage |-> r.stage, done |-> r.done, waits |-> v, rows |-> r.rows, marks |-> r.marks]
  BY <1>0
<1>3. [r EXCEPT !.rows = v] =
        [stage |-> r.stage, done |-> r.done, waits |-> r.waits, rows |-> v, marks |-> r.marks]
  BY <1>0
<1>4. [r EXCEPT !.marks = v] =
        [stage |-> r.stage, done |-> r.done, waits |-> r.waits, rows |-> r.rows, marks |-> v]
  BY <1>0
<1>5. [r EXCEPT !.done = v] =
        [stage |-> r.stage, done |-> v, waits |-> r.waits, rows |-> r.rows, marks |-> r.marks]
  BY <1>0
<1> QED
  BY <1>1, <1>2, <1>3, <1>4, <1>5 DEF IsPost

(* A statement leaves its post open and the others alone.                  *)
LEMMA StatementMoves ==
    ASSUME Shape, NEW a \in Posts, Statement(a)
    PROVE  post[a].stage = "open" /\ Moves(a, "open")
<1>1. post[a].stage = "open" /\ IsPost(post[a])
  BY DEF Statement, HasNext, Shape
<1>2. IsPost(Ran(a)) /\ Ran(a).stage = "open"
  <2> DEFINE next == [post[a] EXCEPT !.done = post[a].done + 1]
  <2>1. IsPost(next) /\ next.stage = "open"
    BY <1>1, PostChanges
  <2>2. Ran(a) = [next EXCEPT !.waits = FALSE]
    BY DEF Ran
  <2> HIDE DEF next
  <2>3. IsPost([next EXCEPT !.waits = FALSE]) /\ [next EXCEPT !.waits = FALSE].stage = next.stage
    BY <2>1, PostChanges
  <2> QED
    BY <2>1, <2>2, <2>3
<1>3. CASE RunLog(a)
  BY <1>1, <1>2, <1>3, Moved DEF RunLog
<1>4. ASSUME NEW rec, RunLink(a, rec) PROVE Moves(a, "open")
  <2>1. PICK rows : post' = [post EXCEPT ![a] = [Ran(a) EXCEPT !.rows = rows]]
    BY <1>4 DEF RunLink
  <2> DEFINE new == [Ran(a) EXCEPT !.rows = rows]
  <2>2. IsPost(new) /\ new.stage = "open" /\ post' = [post EXCEPT ![a] = new]
    BY <1>2, <2>1, PostChanges
  <2> HIDE DEF new
  <2> QED
    BY <2>2, Moved
<1>5. ASSUME NEW rec, RunSpan(a, rec) PROVE Moves(a, "open")
  <2>1. PICK marks : post' = [post EXCEPT ![a] = [Ran(a) EXCEPT !.marks = marks]]
    BY <1>5 DEF RunSpan
  <2> DEFINE new == [Ran(a) EXCEPT !.marks = marks]
  <2>2. IsPost(new) /\ new.stage = "open" /\ post' = [post EXCEPT ![a] = new]
    BY <1>2, <2>1, PostChanges
  <2> HIDE DEF new
  <2> QED
    BY <2>2, Moved
<1> QED
  BY <1>1, <1>3, <1>4, <1>5 DEF Statement

CopyIndInv == Shape /\ CopyInv

(* Every step keeps the invariant.                                         *)
LEMMA CopyInductive ==
    ASSUME CopyIndInv, [Next]_vars
    PROVE  CopyIndInv'
<1> USE DEF CopyIndInv
<1>1. CASE UNCHANGED vars
  <2>1. Shape'
    BY <1>1 DEF Shape, vars, tables
  <2>2. \A q : Alive(q)' = Alive(q) /\ Owed(q)' = Owed(q)
    BY <1>1 DEF Alive, Owed, Latest, vars
  <2> QED
    BY <1>1, <2>1, <2>2 DEF CopyInv, vars, tables
<1>2. ASSUME NEW p \in Payload, Send(p)
      PROVE  CopyIndInv'
  <2> DEFINE a == <<p, tries[p] + 1>>
             idle == Idle(Arrival(p))
  <2>1. a \in Posts
    <3>1. tries[p] \in Nat /\ MaxTries[p] \in Nat /\ tries[p] < MaxTries[p]
      BY <1>2, IngestAssumption DEF Send, Shape
    <3> QED
      BY <3>1 DEF Posts
  <2>2. IsPost(idle) /\ post' = [post EXCEPT ![a] = idle]
    BY <1>2, IdleIsPost DEF Send
  <2> HIDE DEF idle, a
  <2>3. Moves(a, idle.stage)
    BY <2>1, <2>2, Moved
  <2>4. CopyInv'
    BY <1>2, <2>1, <2>3, SendKeeps DEF a
  <2>5. Shape'
    BY <1>2, <2>3 DEF Send, Shape, Moves, tables
  <2> QED
    BY <2>4, <2>5
<1>3. ASSUME NEW p \in Payload, TimeOut(p)
      PROVE  CopyIndInv'
  <2>1. \A q \in Payload : Alive(q)' = Alive(q)
    BY <1>3 DEF TimeOut, Alive
  <2>2. Shape'
    BY <1>3 DEF TimeOut, Shape, tables
  <2> QED
    BY <1>3, <2>1, <2>2, FaultKeeps DEF TimeOut, tables
<1>4. CASE Crash
  <2>1. \A b \in Posts : IsPost(post'[b]) /\ post'[b].stage \notin Live
    BY <1>4, IdleIsPost DEF Crash, Live, Shape
  <2>2. \A q \in Payload : Alive(q)' = {}
    BY <2>1 DEF Alive, Live
  <2>3. Shape'
    BY <1>4, <2>1 DEF Crash, Shape, tables
  <2> QED
    BY <1>4, <2>2, <2>3, FaultKeeps DEF Crash, tables
<1>5. ASSUME NEW a \in Posts, Serve(a) \/ Fail(a)
      PROVE  CopyIndInv'
  <2>0. IsPost(post[a])
    BY DEF Shape
  <2>1. CASE Acquire(a)
    <3>1. Moves(a, "open")
      <4> DEFINE new == [post[a] EXCEPT !.stage = "open"]
      <4>1. IsPost(new) /\ new.stage = "open"
        BY <2>0, PostChanges
      <4>2. post' = [post EXCEPT ![a] = new]
        BY <2>1 DEF Acquire
      <4> HIDE DEF new
      <4> QED
        BY <4>1, <4>2, Moved
    <3>2. Shape'
      BY <2>1, <3>1 DEF Acquire, Shape, Moves, tables
    <3> QED
      BY <2>1, <3>1, <3>2, GoingOnKeeps DEF Acquire, Live, tables
  <2>2. CASE Wait(a)
    <3>1. post[a].stage = "open"
      BY <2>2 DEF Wait, Blockers, HasNext
    <3>2. Moves(a, "open")
      <4> DEFINE new == [post[a] EXCEPT !.waits = TRUE]
      <4>1. IsPost(new) /\ new.stage = "open" /\ post' = [post EXCEPT ![a] = new]
        BY <2>0, <2>2, <3>1, PostChanges DEF Wait
      <4> HIDE DEF new
      <4> QED
        BY <4>1, Moved
    <3>3. Shape'
      BY <2>2, <3>2 DEF Wait, Shape, Moves, tables
    <3> QED
      BY <2>2, <3>1, <3>2, <3>3, GoingOnKeeps DEF Wait, Live, tables
  <2>3. CASE Statement(a)
    <3>1. post[a].stage = "open" /\ Moves(a, "open")
      BY <2>3, StatementMoves
    <3>2. Shape'
      BY <2>3, <3>1 DEF Statement, Shape, Moves, tables
    <3> QED
      BY <2>3, <3>1, <3>2, GoingOnKeeps DEF Statement, Live, tables
  <2>4. CASE Commit(a)
    <3>1. Moves(a, "stored")
      BY <2>4, IdleIsPost, Moved DEF Commit
    <3>2. Shape'
      BY <2>4, <3>1 DEF Commit, Shape, Moves
    <3> QED
      BY <2>4, <3>1, <3>2, CommitKeeps
  <2>5. CASE Reply(a)
    <3>1. Moves(a, "over")
      BY <2>5, IdleIsPost, Moved DEF Reply
    <3>2. Shape'
      BY <2>5, <3>1 DEF Reply, Shape, Moves, tables
    <3> QED
      BY <2>5, <3>1, <3>2, ReplyKeeps
  <2>6. CASE Refused(a) \/ KillForDeadlock(a) \/ Fail(a)
    <3>1. /\ RollBack(a) /\ post[a].stage \in Live
          /\ UNCHANGED <<tables, acked, dropped, tries, waiting>>
          /\ faults' \in {faults, faults + 1}
      BY <2>6 DEF Refused, KillForDeadlock, Fail, HasNext, Running, Live
    <3>2. Moves(a, "failed")
      BY <3>1, IdleIsPost, Moved DEF RollBack
    <3>3. Shape'
      BY <3>1, <3>2 DEF Shape, Moves, tables
    <3>4. faults' \in Nat /\ faults <= faults'
      BY <3>1 DEF Shape
    <3> QED
      BY <3>1, <3>2, <3>3, <3>4, RollBackKeeps DEF tables
  <2> QED
    BY <1>5, <2>1, <2>2, <2>3, <2>4, <2>5, <2>6 DEF Serve
<1> QED
  BY <1>1, <1>2, <1>3, <1>4, <1>5 DEF Next

(* However often payloads are posted, and however their statements         *)
(* interleave, deadlock and fail, a log row has one copy and at most one   *)
(* more for each fault.                                                    *)
THEOREM CopiesNeedFaults == Spec => []DuplicatesNeedFaults
<1>1. Init => CopyIndInv
  <2> SUFFICES ASSUME Init PROVE CopyIndInv
    OBVIOUS
  <2>1. Shape
    BY IdleIsPost DEF Init, Shape
  <2>2. \A q : Alive(q) = {}
    BY IdleIsPost DEF Init, Alive
  <2>3. \A l \in LogIds : logs[l] = 0 /\ Cardinality(Alive(l[1])) = 0 /\ Owed(l[1]) \in {0, 1}
    BY <2>2, FS_EmptySet, OwedType DEF Init
  <2>4. CopyInv
    BY <2>3 DEF CopyInv, Init
  <2> QED
    BY <2>1, <2>4 DEF CopyIndInv
<1>2. CopyIndInv /\ [Next]_vars => CopyIndInv'
  BY CopyInductive
<1>3. CopyIndInv => DuplicatesNeedFaults
  <2> SUFFICES ASSUME CopyIndInv, NEW l \in LogIds PROVE logs[l] <= 1 + faults
    BY DEF DuplicatesNeedFaults
  <2>1. /\ logs[l] \in Nat /\ faults \in Nat /\ Cardinality(Alive(l[1])) \in Nat
        /\ logs[l] + Cardinality(Alive(l[1])) + Owed(l[1]) <= 1 + faults
    BY LogIdFacts, AliveFinite DEF CopyIndInv, CopyInv, Shape
  <2> QED
    BY <2>1, OwedType
<1> QED
  BY <1>1, <1>2, <1>3, PTL DEF Spec

----------------------------------------------------------------------------
(* The statements of a payload.                                            *)

(* How many of p's links and spans have run after d statements.            *)
LinkCount(p, d) ==
    IF Kind[p] = "logs"
    THEN IF d <= Len(RowsOf[p]) THEN 0 ELSE d - Len(RowsOf[p])
    ELSE IF d <= Len(LinksOf[p]) THEN d ELSE Len(LinksOf[p])

SpanCount(p, d) ==
    IF Kind[p] = "logs" \/ d <= Len(LinksOf[p]) THEN 0 ELSE d - Len(LinksOf[p])

(* The links and the spans among them.                                    *)
LinksRun(p, d) == SubSeq(LinksOf[p], 1, LinkCount(p, d))
SpansRun(p, d) == SubSeq(SpansOf(p), 1, SpanCount(p, d))

(* The first records of a payload, with the next one.                      *)
LEMMA OneMore ==
    ASSUME NEW S, NEW s \in Seq(S), NEW n \in Nat, n < Len(s)
    PROVE  /\ SubSeq(s, 1, n) \in Seq(S) /\ s[n + 1] \in S
           /\ Len(SubSeq(s, 1, n)) = n
           /\ SubSeq(s, 1, n + 1) = Append(SubSeq(s, 1, n), s[n + 1])
  OBVIOUS

(* The sequences of a payload, and where one ends in its program.          *)
LEMMA PayloadTypes ==
    ASSUME NEW p \in Payload
    PROVE  /\ LinksOf[p] \in Seq(Link) /\ SpansOf(p) \in Seq(SpanRow)
           /\ Len(RowsOf[p]) \in Nat /\ Len(LinksOf[p]) \in Nat
           /\ DOMAIN RowsOf[p] = 1..Len(RowsOf[p])
           /\ DOMAIN LinksOf[p] = 1..Len(LinksOf[p])
           /\ Kind[p] = "logs" => SpansOf(p) = <<>>
           /\ Kind[p] # "logs" => SpansOf(p) = RowsOf[p] /\ Kind[p] = "traces"
           /\ BadAt[p] \in Nat
<1>1. CASE Kind[p] = "logs"
  <2>1. RowsOf[p] \in Seq(LogRow)
    BY <1>1, PayloadAssumption
  <2> QED
    BY <1>1, <2>1, PayloadAssumption DEF SpansOf
<1>2. CASE Kind[p] # "logs"
  <2>1. RowsOf[p] \in Seq(SpanRow)
    BY <1>2, PayloadAssumption
  <2> QED
    BY <1>2, <2>1, PayloadAssumption DEF SpansOf
<1> QED
  BY <1>1, <1>2

(* A run of statements of one kind, and behind it one of another.          *)
Consecutive(both, op1, s, op2, t) ==
    /\ Len(both) = Len(s) + Len(t) /\ DOMAIN both = 1..(Len(s) + Len(t))
    /\ \A i \in 1..Len(s) : both[i] = [op |-> op1, rec |-> s[i]]
    /\ \A i \in 1..Len(t) : both[Len(s) + i] = [op |-> op2, rec |-> t[i]]

(* What a payload's statements are put together of.                        *)
LEMMA TwoRuns ==
    ASSUME NEW op1, NEW op2, NEW S, NEW T, NEW s \in Seq(S), NEW t \in Seq(T),
           NEW both, both = Statements(op1, s) \o Statements(op2, t)
    PROVE  Consecutive(both, op1, s, op2, t)
<1>0. PICK n, m : n = Len(s) /\ m = Len(t)
  OBVIOUS
<1> DEFINE E == [op : {op1, op2}, rec : S \cup T]
           a == Statements(op1, s)
           b == Statements(op2, t)
<1>1. /\ n \in Nat /\ DOMAIN s = 1..n /\ \A i \in 1..n : s[i] \in S
      /\ m \in Nat /\ DOMAIN t = 1..m /\ \A i \in 1..m : t[i] \in T
  BY <1>0, LenProperties, ElementOfSeq
<1>2. /\ a = [i \in 1..n |-> [op |-> op1, rec |-> s[i]]]
      /\ b = [i \in 1..m |-> [op |-> op2, rec |-> t[i]]]
  BY <1>1 DEF Statements
<1>3. a \in [1..n -> E] /\ b \in [1..m -> E]
  BY <1>1, <1>2
<1>4. /\ \A i \in 1..n : a[i] = [op |-> op1, rec |-> s[i]]
      /\ \A i \in 1..m : b[i] = [op |-> op2, rec |-> t[i]]
  BY <1>2
<1> HIDE DEF E, a, b
<1>5. a \in Seq(E) /\ b \in Seq(E)
  BY <1>1, <1>3, SeqDef
<1>6. Len(a) = n /\ Len(b) = m
  BY <1>1, <1>3
<1>7. both \in Seq(E) /\ Len(both) = n + m /\ both = a \o b
  <2>1. a \o b \in Seq(E) /\ Len(a \o b) = Len(a) + Len(b)
    BY <1>5, ConcatProperties
  <2> QED
    BY <1>6, <2>1 DEF a, b
<1>8. \A i \in 1..(n + m) : both[i] = IF i <= n THEN a[i] ELSE b[i - n]
  <2>1. \A i \in 1..(Len(a) + Len(b)) : (a \o b)[i] = IF i <= Len(a) THEN a[i] ELSE b[i - Len(a)]
    BY <1>5, ConcatProperties
  <2> QED
    BY <1>6, <1>7, <2>1
<1>9. DOMAIN both = 1..(n + m)
  BY <1>7, LenProperties
<1>10. \A i \in 1..n : i \in 1..(n + m) /\ i <= n
  BY <1>1
<1>11. \A i \in 1..n : both[i] = [op |-> op1, rec |-> s[i]]
  BY <1>4, <1>8, <1>10
<1>12. ASSUME NEW i \in 1..m PROVE both[n + i] = [op |-> op2, rec |-> t[i]]
  <2>1. PICK j : j = n + i
    OBVIOUS
  <2>2. j \in 1..(n + m) /\ ~(j <= n) /\ j - n = i
    BY <1>1, <2>1
  <2>3. both[j] = b[j - n]
    BY <1>8, <2>2
  <2> QED
    BY <1>4, <2>1, <2>2, <2>3
<1> QED
  BY <1>0, <1>7, <1>9, <1>11, <1>12 DEF Consecutive

(* The two runs of a payload of logs, and of one of traces.                *)
LEMMA ProgramRuns ==
    ASSUME NEW p \in Payload
    PROVE  IF Kind[p] = "logs"
           THEN Consecutive(Program[p], "log", RowsOf[p], "link", LinksOf[p])
           ELSE Consecutive(Program[p], "link", LinksOf[p], "span", RowsOf[p])
<1>1. LinksOf[p] \in Seq(Link)
  BY PayloadAssumption
<1>2. CASE Kind[p] = "logs"
  <2>1. RowsOf[p] \in Seq(LogRow)
    BY <1>2, PayloadAssumption
  <2>2. Program[p] = Statements("log", RowsOf[p]) \o Statements("link", LinksOf[p])
    BY <1>2 DEF Program
  <2> QED
    BY <1>1, <1>2, <2>1, <2>2, TwoRuns
<1>3. CASE Kind[p] # "logs"
  <2>1. RowsOf[p] \in Seq(SpanRow)
    BY <1>3, PayloadAssumption
  <2>2. Program[p] = Statements("link", LinksOf[p]) \o Statements("span", RowsOf[p])
    BY <1>3 DEF Program
  <2> QED
    BY <1>1, <1>3, <2>1, <2>2, TwoRuns
<1> QED
  BY <1>2, <1>3

(* Before the first statement none has run, behind the last one all have.  *)
LEMMA CountsAtEnds ==
    ASSUME NEW p \in Payload
    PROVE  /\ LinkCount(p, 0) = 0 /\ SpanCount(p, 0) = 0
           /\ Len(Program[p]) = Len(RowsOf[p]) + Len(LinksOf[p])
           /\ DOMAIN Program[p] = 1..Len(Program[p])
           /\ LinksRun(p, Len(Program[p])) = LinksOf[p]
           /\ SpansRun(p, Len(Program[p])) = SpansOf(p)
<1>0. PICK nr, nl : nr = Len(RowsOf[p]) /\ nl = Len(LinksOf[p])
  OBVIOUS
<1>1. /\ nr \in Nat /\ nl \in Nat
      /\ Len(SpansOf(p)) = IF Kind[p] = "logs" THEN 0 ELSE nr
  BY <1>0, PayloadTypes
<1>2. Len(Program[p]) = nr + nl /\ DOMAIN Program[p] = 1..(nr + nl)
  <2>1. CASE Kind[p] = "logs"
    BY <1>0, <2>1, ProgramRuns DEF Consecutive
  <2>2. CASE Kind[p] # "logs"
    <3>1. Len(Program[p]) = nl + nr /\ DOMAIN Program[p] = 1..(nl + nr)
      BY <1>0, <2>2, ProgramRuns DEF Consecutive
    <3>2. nl + nr = nr + nl
      BY <1>1
    <3> QED
      BY <3>1, <3>2
  <2> QED
    BY <2>1, <2>2
<1>3. /\ \A d : LinkCount(p, d) = IF Kind[p] = "logs" THEN IF d <= nr THEN 0 ELSE d - nr
                                                      ELSE IF d <= nl THEN d ELSE nl
      /\ \A d : SpanCount(p, d) = IF Kind[p] = "logs" \/ d <= nl THEN 0 ELSE d - nl
  BY <1>0 DEF LinkCount, SpanCount
<1>4. LinkCount(p, nr + nl) = nl /\ SpanCount(p, nr + nl) = Len(SpansOf(p))
  BY <1>1, <1>3
<1>5. LinkCount(p, 0) = 0 /\ SpanCount(p, 0) = 0
  BY <1>1, <1>3
<1>6. /\ SubSeq(LinksOf[p], 1, Len(LinksOf[p])) = LinksOf[p]
      /\ SubSeq(SpansOf(p), 1, Len(SpansOf(p))) = SpansOf(p)
  BY PayloadTypes, SubSeqFull
<1> QED
  BY <1>0, <1>2, <1>4, <1>5, <1>6 DEF LinksRun, SpansRun

(* The next statement is that of a log row, or of the next link, or of the *)
(* next span.                                                              *)
LEMMA NextStatement ==
    ASSUME NEW p \in Payload, NEW d \in Nat, d < Len(Program[p]),
           NEW s, s = Program[p][d + 1]
    PROVE  /\ LinkCount(p, d) \in Nat /\ SpanCount(p, d) \in Nat
           /\ \/ /\ s.op = "log"
                 /\ LinkCount(p, d + 1) = LinkCount(p, d) /\ SpanCount(p, d + 1) = SpanCount(p, d)
              \/ /\ s.op = "link"
                 /\ LinkCount(p, d) < Len(LinksOf[p])
                 /\ s.rec = LinksOf[p][LinkCount(p, d) + 1]
                 /\ LinkCount(p, d + 1) = LinkCount(p, d) + 1 /\ SpanCount(p, d + 1) = SpanCount(p, d)
              \/ /\ s.op = "span"
                 /\ SpanCount(p, d) < Len(SpansOf(p))
                 /\ s.rec = SpansOf(p)[SpanCount(p, d) + 1]
                 /\ LinkCount(p, d + 1) = LinkCount(p, d) /\ SpanCount(p, d + 1) = SpanCount(p, d) + 1
<1>0. PICK nr, nl : nr = Len(RowsOf[p]) /\ nl = Len(LinksOf[p])
  OBVIOUS
<1>1. nr \in Nat /\ nl \in Nat /\ Len(Program[p]) = nr + nl
  BY <1>0, PayloadTypes, CountsAtEnds
<1>2. CASE Kind[p] = "logs"
  <2>1. /\ \A i \in 1..nr : Program[p][i] = [op |-> "log", rec |-> RowsOf[p][i]]
        /\ \A i \in 1..nl : Program[p][nr + i] = [op |-> "link", rec |-> LinksOf[p][i]]
    BY <1>0, <1>2, ProgramRuns DEF Consecutive
  <2>2. \A e : SpanCount(p, e) = 0 /\ LinkCount(p, e) = IF e <= nr THEN 0 ELSE e - nr
    BY <1>0, <1>2 DEF SpanCount, LinkCount
  <2>3. CASE d < nr
    <3>1. d + 1 \in 1..nr /\ d <= nr /\ d + 1 <= nr
      BY <1>1, <2>3
    <3>2. s = [op |-> "log", rec |-> RowsOf[p][d + 1]]
      BY <2>1, <3>1
    <3> QED
      BY <2>2, <3>1, <3>2
  <2>4. CASE ~(d < nr)
    <3> DEFINE i == d - nr
    <3>1. i \in Nat /\ i < nl /\ nr + (i + 1) = d + 1 /\ i + 1 \in 1..nl
      BY <1>1, <2>4
    <3>2. LinkCount(p, d) = i /\ LinkCount(p, d + 1) = i + 1
      BY <1>1, <2>2, <2>4
    <3> HIDE DEF i
    <3>3. s = [op |-> "link", rec |-> LinksOf[p][i + 1]]
      BY <2>1, <3>1
    <3> QED
      BY <1>0, <2>2, <3>1, <3>2, <3>3
  <2> QED
    BY <2>3, <2>4
<1>3. CASE Kind[p] # "logs"
  <2>0. SpansOf(p) = RowsOf[p]
    BY <1>3, PayloadTypes
  <2>1. /\ \A i \in 1..nl : Program[p][i] = [op |-> "link", rec |-> LinksOf[p][i]]
        /\ \A i \in 1..nr : Program[p][nl + i] = [op |-> "span", rec |-> RowsOf[p][i]]
    BY <1>0, <1>3, ProgramRuns DEF Consecutive
  <2>2. \A e : /\ SpanCount(p, e) = IF e <= nl THEN 0 ELSE e - nl
               /\ LinkCount(p, e) = IF e <= nl THEN e ELSE nl
    BY <1>0, <1>3 DEF SpanCount, LinkCount
  <2>3. CASE d < nl
    <3>1. d + 1 \in 1..nl /\ d <= nl /\ d + 1 <= nl
      BY <1>1, <2>3
    <3>2. s = [op |-> "link", rec |-> LinksOf[p][d + 1]]
      BY <2>1, <3>1
    <3>3. LinkCount(p, d) = d /\ LinkCount(p, d + 1) = d + 1
      BY <2>2, <3>1
    <3> QED
      BY <1>0, <2>2, <2>3, <3>1, <3>2, <3>3
  <2>4. CASE ~(d < nl)
    <3> DEFINE i == d - nl
    <3>1. i \in Nat /\ i < nr /\ nl + (i + 1) = d + 1 /\ i + 1 \in 1..nr
      BY <1>1, <2>4
    <3>2. SpanCount(p, d) = i /\ SpanCount(p, d + 1) = i + 1
      BY <1>1, <2>2, <2>4
    <3>3. LinkCount(p, d) = nl /\ LinkCount(p, d + 1) = nl
      BY <1>1, <2>2, <2>4
    <3> HIDE DEF i
    <3>4. s = [op |-> "span", rec |-> RowsOf[p][i + 1]]
      BY <2>1, <3>1
    <3> QED
      BY <1>0, <1>1, <2>0, <3>1, <3>2, <3>3, <3>4
  <2> QED
    BY <2>3, <2>4
<1> QED
  BY <1>2, <1>3

(* No more have run than there are, and the first of them are a sequence.  *)
LEMMA CountsBounded ==
    ASSUME NEW p \in Payload, NEW d \in Nat, d <= Len(Program[p])
    PROVE  /\ LinkCount(p, d) \in Nat /\ LinkCount(p, d) <= Len(LinksOf[p])
           /\ SpanCount(p, d) \in Nat /\ SpanCount(p, d) <= Len(SpansOf(p))
<1>0. PICK nr, nl, ns : nr = Len(RowsOf[p]) /\ nl = Len(LinksOf[p]) /\ ns = Len(SpansOf(p))
  OBVIOUS
<1>1. /\ nr \in Nat /\ nl \in Nat /\ d <= nr + nl
      /\ ns = IF Kind[p] = "logs" THEN 0 ELSE nr
  BY <1>0, PayloadTypes, CountsAtEnds
<1>2. /\ LinkCount(p, d) = IF Kind[p] = "logs" THEN IF d <= nr THEN 0 ELSE d - nr
                                               ELSE IF d <= nl THEN d ELSE nl
      /\ SpanCount(p, d) = IF Kind[p] = "logs" \/ d <= nl THEN 0 ELSE d - nl
  BY <1>0 DEF LinkCount, SpanCount
<1>3. /\ LinkCount(p, d) \in Nat /\ LinkCount(p, d) <= nl
      /\ SpanCount(p, d) \in Nat /\ SpanCount(p, d) <= ns
  BY <1>1, <1>2
<1> QED
  BY <1>0, <1>3

(* The first elements of a sequence are one of the same kind.             *)
LEMMA PrefixType ==
    ASSUME NEW S, NEW s \in Seq(S), NEW n \in Nat, n <= Len(s)
    PROVE  SubSeq(s, 1, n) \in Seq(S)
  OBVIOUS

(* A payload has finitely many statements.                                *)
LEMMA ProgramLength ==
    ASSUME NEW p \in Payload
    PROVE  Len(Program[p]) \in Nat
<1>1. Len(RowsOf[p]) \in Nat /\ Len(LinksOf[p]) \in Nat
  BY PayloadTypes
<1>2. Len(Program[p]) = Len(RowsOf[p]) + Len(LinksOf[p])
  BY CountsAtEnds
<1>3. \A i, j \in Nat : i + j \in Nat
  OBVIOUS
<1> QED
  BY <1>1, <1>2, <1>3

(* What has run after any number of statements.                            *)
LEMMA RunsType ==
    ASSUME NEW p \in Payload, NEW d \in Nat, d <= Len(Program[p])
    PROVE  LinksRun(p, d) \in Seq(Link) /\ SpansRun(p, d) \in Seq(SpanRow)
<1>1. LinksOf[p] \in Seq(Link) /\ SpansOf(p) \in Seq(SpanRow)
  BY PayloadTypes
<1>2. LinkCount(p, d) \in Nat /\ SpanCount(p, d) \in Nat
  BY CountsBounded
<1>3. LinkCount(p, d) <= Len(LinksOf[p]) /\ SpanCount(p, d) <= Len(SpansOf(p))
  BY CountsBounded
<1> QED
  BY <1>1, <1>2, <1>3, PrefixType DEF LinksRun, SpansRun

----------------------------------------------------------------------------
(* What a transaction has written.                                         *)

(* What the links ls write of a map m, and the spans rs of a table t.      *)
Written(m, ls, k) == IF Hits(ls, k) = {} THEN NoRow ELSE UpsertRow(m[k], ls, k)

(* What the statements of spans rs have written: the first of a key alone.*)
Marked(t, rs, k) ==
    IF t[k] # NoRow \/ SpanHits(rs, k) = {} THEN NoRow ELSE rs[Min(SpanHits(rs, k))]

SpanTables == [SpanKeys -> SpanRow \cup {NoRow}]

(* A link is a record of the map that has both ids.                        *)
LEMMA LinksAreRecords ==
    /\ \A rec \in Link : rec \in Record /\ LinkKey(rec) \in Keys
    /\ \A ls \in Seq(Link) : ls \in Seq(Record) /\ Batch(ls)
<1>1. \A rec \in Link : rec \in Record /\ LinkKey(rec) \in Keys
  BY DEF Link, Record, LinkKey, Keys
<1>2. \A ls \in Seq(Link) : ls \in Seq(Record)
  BY <1>1, SeqMonotonic
<1> QED
  BY <1>1, <1>2, RecordsAreBatch

(* A key that a link hits has a row of its own in the transaction.         *)
LEMMA WrittenType ==
    ASSUME NEW m \in Maps, NEW ls \in Seq(Link), NEW k \in Keys
    PROVE  /\ Written(m, ls, k) \in Row \cup {NoRow}
           /\ Written(m, ls, k) = NoRow <=> Hits(ls, k) = {}
<1>1. m[k] \in Row \cup {NoRow}
  BY DEF Maps
<1>2. Hits(ls, k) # {} => UpsertRow(m[k], ls, k) \in Row
  BY <1>1, LinksAreRecords, UpsertRowFacts
<1> QED
  BY <1>2, SentinelAssumption DEF Written

(* One upsert more changes the row of its key as that statement does.      *)
LEMMA WrittenOneMore ==
    ASSUME NEW m \in Maps, NEW ls \in Seq(Link), NEW rec \in Link, NEW k \in Keys
    PROVE  Written(m, Append(ls, rec), k) =
             IF k = LinkKey(rec)
             THEN Upsert(IF Written(m, ls, k) # NoRow THEN Written(m, ls, k) ELSE m[k], rec)
             ELSE Written(m, ls, k)
<1>1. ls \in Seq(Record) /\ rec \in Record
  BY LinksAreRecords
<1>2. UpsertAll(m, Append(ls, rec))[k] = IF LinkKey(rec) = k THEN Upsert(UpsertAll(m, ls)[k], rec)
                                                             ELSE UpsertAll(m, ls)[k]
  BY <1>1, UpsertAllOneMore DEF LinkKey
<1>3. UpsertAll(m, ls)[k] = IF Written(m, ls, k) # NoRow THEN Written(m, ls, k) ELSE m[k]
  BY WrittenType DEF UpsertAll, Written
<1>4. /\ LinkKey(rec) = k => Hits(Append(ls, rec), k) # {}
      /\ LinkKey(rec) # k => Hits(Append(ls, rec), k) = Hits(ls, k)
  <2>1. LinkKey(rec) = k => Hits(Append(ls, rec), k) = Hits(ls, k) \cup {Len(ls) + 1}
    BY <1>1, HitsOneMore DEF LinkKey
  <2>2. LinkKey(rec) # k => Hits(Append(ls, rec), k) = Hits(ls, k)
    BY <1>1, HitsOneMore DEF LinkKey
  <2> QED
    BY <2>1, <2>2
<1>5. Hits(Append(ls, rec), k) # {} => Written(m, Append(ls, rec), k) = UpsertAll(m, Append(ls, rec))[k]
  BY DEF UpsertAll, Written
<1>6. CASE LinkKey(rec) = k
  BY <1>2, <1>3, <1>4, <1>5, <1>6
<1>7. CASE LinkKey(rec) # k
  <2>1. CASE Hits(ls, k) = {}
    BY <1>4, <1>7, <2>1 DEF Written
  <2>2. CASE Hits(ls, k) # {}
    BY <1>2, <1>3, <1>4, <1>5, <1>7, <2>2, WrittenType
  <2> QED
    BY <2>1, <2>2
<1> QED
  BY <1>6, <1>7

(* What a commit publishes is the map with all the links upserted.         *)
LEMMA WrittenCommitted ==
    ASSUME NEW m \in Maps, NEW ls \in Seq(Link)
    PROVE  [k \in Keys |-> IF Written(m, ls, k) # NoRow THEN Written(m, ls, k) ELSE m[k]]
             = UpsertAll(m, ls)
<1>1. \A k \in Keys : (IF Written(m, ls, k) # NoRow THEN Written(m, ls, k) ELSE m[k])
                        = UpsertAll(m, ls)[k]
  BY WrittenType DEF UpsertAll, Written
<1> QED
  BY <1>1 DEF UpsertAll

(* A span key that a span hits.                                            *)
LEMMA MarkedType ==
    ASSUME NEW t \in SpanTables, NEW rs \in Seq(SpanRow), NEW k \in SpanKeys
    PROVE  /\ Marked(t, rs, k) \in SpanRow \cup {NoRow}
           /\ Marked(t, rs, k) = NoRow <=> t[k] # NoRow \/ SpanHits(rs, k) = {}
<1>1. \A i \in SpanHits(rs, k) : i \in Nat /\ rs[i] \in SpanRow
  BY DEF SpanHits
<1>2. SpanHits(rs, k) # {} => Min(SpanHits(rs, k)) \in SpanHits(rs, k)
  BY <1>1, MinIsLeast
<1> QED
  BY <1>1, <1>2, PayloadAssumption DEF Marked

(* One insert more takes its key if that is free.                          *)
LEMMA MarkedOneMore ==
    ASSUME NEW t \in SpanTables, NEW rs \in Seq(SpanRow), NEW rec \in SpanRow, NEW k \in SpanKeys
    PROVE  Marked(t, Append(rs, rec), k) =
             IF k = SpanKey(rec) /\ Marked(t, rs, k) = NoRow /\ t[k] = NoRow
             THEN rec ELSE Marked(t, rs, k)
<1> DEFINE more == Append(rs, rec)
           n == Len(rs) + 1
<1>1. /\ Len(rs) \in Nat /\ n \in Nat /\ DOMAIN rs = 1..Len(rs) /\ DOMAIN more = (1..Len(rs)) \cup {n}
      /\ more[n] = rec /\ \A i \in 1..Len(rs) : more[i] = rs[i] /\ i <= n /\ i \in Nat
  OBVIOUS
<1>2. SpanHits(rs, k) \subseteq 1..Len(rs)
  BY <1>1 DEF SpanHits
<1>3. SpanHits(more, k) = IF k = SpanKey(rec) THEN SpanHits(rs, k) \cup {n} ELSE SpanHits(rs, k)
  BY <1>1 DEF SpanHits, SpanKey
<1> HIDE DEF more, n
<1>4. CASE SpanHits(rs, k) # {}
  <2> DEFINE i == Min(SpanHits(rs, k))
  <2>1. SpanHits(rs, k) \subseteq Nat
    BY <1>1, <1>2
  <2>2. i \in SpanHits(rs, k) /\ \A j \in SpanHits(rs, k) : i <= j
    BY <1>4, <2>1, MinIsLeast
  <2>3. i \in 1..Len(rs) /\ i <= n /\ more[i] = rs[i]
    BY <1>1, <1>2, <2>2
  <2> HIDE DEF i
  <2>4. Min(SpanHits(more, k)) = i
    BY <1>1, <1>3, <2>1, <2>2, <2>3, MinIs
  <2>5. SpanHits(more, k) # {}
    BY <1>3, <1>4
  <2>6. Marked(t, more, k) = Marked(t, rs, k)
    BY <1>4, <2>3, <2>4, <2>5 DEF Marked, i
  <2>7. Marked(t, rs, k) = NoRow => t[k] # NoRow
    BY <1>4, MarkedType
  <2> QED
    BY <2>6, <2>7 DEF more
<1>5. CASE SpanHits(rs, k) = {}
  <2>1. Marked(t, rs, k) = NoRow
    BY <1>5 DEF Marked
  <2>2. Min({n}) = n
    <3>1. {n} \subseteq Nat /\ n \in {n} /\ \A y \in {n} : n <= y
      BY <1>1
    <3>2. \A S : S \subseteq Nat /\ n \in S /\ (\A y \in S : n <= y) => Min(S) = n
      BY MinIs
    <3> QED
      BY <3>1, <3>2
  <2>3. k = SpanKey(rec) => SpanHits(more, k) = {n}
    BY <1>3, <1>5
  <2> QED
    BY <1>1, <1>3, <1>5, <2>1, <2>2, <2>3 DEF Marked, more
<1> QED
  BY <1>4, <1>5

(* What a commit publishes is the table with all the spans inserted.       *)
LEMMA MarkedCommitted ==
    ASSUME NEW t \in SpanTables, NEW p \in Payload
    PROVE  [k \in SpanKeys |-> IF Marked(t, SpansOf(p), k) # NoRow
                               THEN Marked(t, SpansOf(p), k) ELSE t[k]]
             = StoreSpans(t, p)
<1>1. SpansOf(p) \in Seq(SpanRow)
  BY PayloadTypes
<1>2. \A k \in SpanKeys :
        (IF Marked(t, SpansOf(p), k) # NoRow THEN Marked(t, SpansOf(p), k) ELSE t[k])
          = StoreSpans(t, p)[k]
  BY <1>1, MarkedType DEF StoreSpans, Marked
<1> QED
  BY <1>2 DEF StoreSpans

----------------------------------------------------------------------------
(* A payload that is stored stays stored.                                  *)

(* A table that holds the spans of p holds them after those of q.          *)
LEMMA SpansStay ==
    ASSUME NEW t \in SpanTables, NEW p \in Payload, NEW q \in Payload,
           p = q \/ StoreSpans(t, p) = t
    PROVE  /\ StoreSpans(t, q) \in SpanTables
           /\ StoreSpans(StoreSpans(t, q), p) = StoreSpans(t, q)
<1> DEFINE new == StoreSpans(t, q)
<1>1. ASSUME NEW u \in SpanTables, NEW r \in Payload
      PROVE  /\ StoreSpans(u, r) \in SpanTables
             /\ \A k \in SpanKeys : u[k] # NoRow => StoreSpans(u, r)[k] = u[k]
             /\ \A k \in SpanKeys : StoreSpans(u, r)[k] = NoRow => SpanHits(SpansOf(r), k) = {}
  <2>1. SpansOf(r) \in Seq(SpanRow)
    BY PayloadTypes
  <2>2. \A k \in SpanKeys : StoreSpans(u, r)[k] =
          IF Marked(u, SpansOf(r), k) # NoRow THEN Marked(u, SpansOf(r), k) ELSE u[k]
    BY <2>1, MarkedType DEF StoreSpans, Marked
  <2>3. \A k \in SpanKeys : StoreSpans(u, r)[k] \in SpanRow \cup {NoRow}
    BY <2>1, <2>2, MarkedType DEF SpanTables
  <2>4. StoreSpans(u, r) = [k \in SpanKeys |-> StoreSpans(u, r)[k]]
    BY DEF StoreSpans
  <2>5. StoreSpans(u, r) \in SpanTables
    BY <2>3, <2>4, Zenon DEF SpanTables
  <2> QED
    BY <2>1, <2>2, <2>5, MarkedType
<1>2. new \in SpanTables
  BY <1>1
<1>3. \A k \in SpanKeys : new[k] = NoRow => SpanHits(SpansOf(p), k) = {}
  BY <1>1
<1> HIDE DEF new
<1>4. \A k \in SpanKeys : StoreSpans(new, p)[k] = new[k]
  BY <1>3 DEF StoreSpans
<1>5. StoreSpans(new, p) = [k \in SpanKeys |-> StoreSpans(new, p)[k]] /\ new = [k \in SpanKeys |-> new[k]]
  BY <1>2 DEF StoreSpans, SpanTables
<1>6. StoreSpans(new, p) = new
  BY <1>4, <1>5
<1> QED
  BY <1>2, <1>6 DEF new

(* What the times and the user of a row must be for upserts to leave it.   *)
Settled(row, ls, k) ==
    /\ row \in Row
    /\ row.user = NoUser => FirstUser(ls, k) = NoUser
    /\ \A ts \in HitTimes(ls, k) : row.first <= ts /\ ts <= row.last
    /\ row.last # NoTime

(* Such a row, and no other, is what the upserts make of itself.          *)
LEMMA SettledMeans ==
    ASSUME NEW ls, Batch(ls), NEW k \in Keys, Hits(ls, k) # {}, NEW row \in Row \cup {NoRow}
    PROVE  UpsertRow(row, ls, k) = row <=> Settled(row, ls, k)
<1> DEFINE times == HitTimes(ls, k)
           fst == FirstUser(ls, k)
<1>1. times \subseteq Time /\ times # {}
  BY HitTimesType
<1>2. row = NoRow => UpsertRow(row, ls, k) # row /\ row \notin Row
  BY UpsertRowFacts, SentinelAssumption
<1>3. CASE row # NoRow
  <2> DEFINE early == {row.first} \cup times
             late == {LastActivity(row)} \cup times
  <2>1. /\ row = [user |-> row.user, first |-> row.first, last |-> row.last]
        /\ row.first \in Time /\ row.last \in Time \cup {NoTime} /\ LastActivity(row) \in Time
    BY <1>3, LastActivityType DEF Row
  <2>2. UpsertRow(row, ls, k) = [user |-> Coalesce(row.user, fst), first |-> Min(early), last |-> Max(late)]
    BY <1>3 DEF UpsertRow
  <2>3. /\ early \subseteq Time /\ row.first \in early /\ times \subseteq early
        /\ late \subseteq Time /\ LastActivity(row) \in late /\ times \subseteq late
        /\ \A y : (y \in early <=> y = row.first \/ y \in times)
        /\ \A y : (y \in late <=> y = LastActivity(row) \/ y \in times)
    BY <1>1, <2>1
  <2> HIDE DEF early, late, times, fst
  <2>4. /\ Min(early) \in early /\ \A y \in early : Min(early) <= y
        /\ Max(late) \in late /\ \A y \in late : Max(late) >= y
    <3>1. early # {} /\ late # {}
      BY <2>3
    <3> QED
      BY <2>3, <3>1, MinOfTimes, MaxIsGreatest
  <2>5. /\ Min(early) \in Time /\ Max(late) \in Time /\ Max(late) # NoTime
        /\ \A y \in Time : y \in Nat
    BY <2>3, <2>4, SentinelAssumption, TimesAreNaturals
  <2>6. ASSUME Settled(row, ls, k) PROVE UpsertRow(row, ls, k) = row
    <3>1. /\ \A ts \in times : row.first <= ts /\ ts <= row.last
          /\ row.last \in Time /\ LastActivity(row) = row.last
          /\ row.user = NoUser => fst = NoUser
      BY <2>1, <2>6 DEF Settled, LastActivity, times, fst
    <3>2. Min(early) = row.first
      <4>1. \A y \in early : row.first <= y
        BY <2>1, <2>3, <2>5, <3>1
      <4> QED
        BY <2>3, <2>5, <4>1, MinIs
    <3>3. Max(late) = row.last
      <4>1. \A y \in late : row.last >= y
        BY <2>3, <2>5, <3>1
      <4> QED
        BY <2>3, <3>1, <4>1, MaxIs
    <3> QED
      BY <2>1, <2>2, <3>1, <3>2, <3>3 DEF Coalesce
  <2>7. ASSUME UpsertRow(row, ls, k) = row PROVE Settled(row, ls, k)
    <3>1. row.user = Coalesce(row.user, fst) /\ row.first = Min(early) /\ row.last = Max(late)
      BY <2>1, <2>2, <2>7
    <3>2. \A ts \in times : row.first <= ts /\ ts <= row.last
      BY <2>3, <2>4, <2>5, <3>1
    <3> QED
      BY <1>3, <2>5, <3>1, <3>2 DEF Settled, Coalesce, times, fst
  <2> QED
    BY <2>6, <2>7
<1> QED
  BY <1>2, <1>3 DEF Settled

(* Upserts of other links leave a settled row settled.                     *)
LEMMA SettledStays ==
    ASSUME NEW ls, Batch(ls), NEW more, Batch(more), NEW k \in Keys, Hits(ls, k) # {},
           Hits(more, k) # {}, NEW row, Settled(row, ls, k)
    PROVE  Settled(UpsertRow(row, more, k), ls, k)
<1> DEFINE new == UpsertRow(row, more, k)
<1>1. row \in Row /\ row # NoRow /\ row.first \in Time /\ row.last \in Time /\ LastActivity(row) = row.last
  BY SentinelAssumption DEF Settled, Row, LastActivity
<1>2. /\ new \in Row /\ new.first <= row.first /\ LastActivity(new) >= row.last
      /\ row.user # NoUser => new.user = row.user
  BY <1>1, UpsertRowFacts
<1>3. new.last # NoTime
  <2>1. /\ HitTimes(more, k) \subseteq Time
        /\ {LastActivity(row)} \cup HitTimes(more, k) \subseteq Time
        /\ {LastActivity(row)} \cup HitTimes(more, k) # {}
    BY <1>1, HitTimesType
  <2>2. Max({LastActivity(row)} \cup HitTimes(more, k)) \in Time
    BY <2>1, MaxIsGreatest
  <2>3. new.last = Max({LastActivity(row)} \cup HitTimes(more, k))
    BY <1>1 DEF UpsertRow
  <2> QED
    BY <2>2, <2>3, SentinelAssumption
<1>4. new.first \in Time /\ new.last \in Time /\ LastActivity(new) = new.last
  BY <1>2, <1>3 DEF Row, LastActivity
<1>5. HitTimes(ls, k) \subseteq Time /\ \A y \in Time : y \in Nat
  BY HitTimesType, TimesAreNaturals
<1> HIDE DEF new
<1>6. \A ts \in HitTimes(ls, k) : new.first <= ts /\ ts <= new.last
  BY <1>1, <1>2, <1>4, <1>5 DEF Settled
<1>7. new.user = NoUser => FirstUser(ls, k) = NoUser
  BY <1>2 DEF Settled
<1> QED
  BY <1>2, <1>3, <1>6, <1>7 DEF Settled, new

(* A map that holds the links of p holds them after those of q.            *)
LEMMA LinksStay ==
    ASSUME NEW m \in Maps, NEW p \in Payload, NEW q \in Payload, p = q \/ StoreLinks(m, p) = m
    PROVE  /\ StoreLinks(m, q) \in Maps
           /\ StoreLinks(StoreLinks(m, q), p) = StoreLinks(m, q)
<1> DEFINE ls == LinksOf[p]
           more == LinksOf[q]
           new == StoreLinks(m, q)
<1>1. Batch(ls) /\ Batch(more)
  BY PayloadTypes, LinksAreRecords
<1>2. new \in Maps
  BY <1>1, UpsertAllType DEF StoreLinks
<1>3. ASSUME NEW k \in Keys, Hits(ls, k) # {} PROVE UpsertRow(new[k], ls, k) = new[k]
  <2>1. m[k] \in Row \cup {NoRow} /\ new[k] \in Row \cup {NoRow}
    BY <1>2 DEF Maps
  <2>2. new[k] = IF Hits(more, k) = {} THEN m[k] ELSE UpsertRow(m[k], more, k)
    BY DEF StoreLinks, UpsertAll
  <2>3. CASE p = q
    BY <1>1, <1>3, <2>1, <2>2, <2>3, UpsertRowTwice
  <2>4. CASE StoreLinks(m, p) = m
    <3>1. StoreLinks(m, p)[k] = UpsertRow(m[k], ls, k)
      BY <1>3 DEF StoreLinks, UpsertAll
    <3>2. Settled(m[k], ls, k)
      BY <1>1, <1>3, <2>1, <2>4, <3>1, SettledMeans
    <3>3. Settled(new[k], ls, k)
      BY <1>1, <1>3, <2>2, <3>2, SettledStays
    <3> QED
      BY <1>1, <1>3, <2>1, <3>3, SettledMeans
  <2> QED
    BY <2>3, <2>4
<1> HIDE DEF new, ls
<1>4. \A k \in Keys : UpsertAll(new, ls)[k] = new[k]
  BY <1>3 DEF UpsertAll
<1>5. UpsertAll(new, ls) = [k \in Keys |-> UpsertAll(new, ls)[k]] /\ new = [k \in Keys |-> new[k]]
  BY <1>2 DEF UpsertAll, Maps
<1>6. UpsertAll(new, ls) = new
  BY <1>4, <1>5
<1> QED
  BY <1>2, <1>6 DEF StoreLinks, new, ls

----------------------------------------------------------------------------
(* What is asked of a request.                                             *)

(* The answers there are, and that passing the checks in their order is to *)
(* be as the documentation asks.                                           *)
LEMMA StatusFacts ==
    ASSUME NEW req \in Request
    PROVE  /\ Status(req) \in {200, 400, 401, 413, 415, 500}
           /\ Status(req) = 200 <=> WellFormed(req)
<1> DEFINE failed == {i \in DOMAIN Checks(req) : ~Checks(req)[i].passes}
<1>0. /\ DOMAIN Checks(req) = 1..6
      /\ Checks(req)[1].status = 401 /\ Checks(req)[2].status = 415 /\ Checks(req)[3].status = 413
      /\ Checks(req)[4].status = Gunzip(req)
      /\ Checks(req)[5].status = 400 /\ Checks(req)[6].status = 500
  BY DEF Checks
<1>5. /\ Checks(req)[1].passes <=> TokenPasses(req)
      /\ Checks(req)[2].passes <=> req.json
      /\ Checks(req)[3].passes <=> req.size <= MaxBody
      /\ Checks(req)[4].passes <=> (req.gzip => Gunzip(req) = 200)
      /\ Checks(req)[5].passes <=> req.content # "garbage"
      /\ Checks(req)[6].passes <=> req.content # "malformed"
  BY DEF Checks
<1>1. Gunzip(req) \in {200, 400, 413}
  BY DEF Gunzip
<1>2. Status(req) = IF failed = {} THEN 200 ELSE Checks(req)[Min(failed)].status
  BY DEF Status
<1>3. CASE failed # {}
  <2>1. failed \subseteq 1..6 /\ failed \subseteq Nat
    BY <1>0
  <2>2. PICK i \in failed : i = Min(failed)
    BY <1>3, <2>1, MinIsLeast
  <2>3. i \in 1..6 /\ ~Checks(req)[i].passes
    BY <2>1
  <2>4. i = 4 => Gunzip(req) # 200
    BY <1>5, <2>3
  <2>5. Checks(req)[i].status \in {400, 401, 413, 415, 500}
    BY <1>0, <1>1, <2>3, <2>4
  <2>6. ~WellFormed(req)
    <3> SUFFICES ASSUME WellFormed(req) PROVE Checks(req)[i].passes
      BY <2>3
    <3>1. /\ TokenPasses(req) /\ req.json /\ req.size <= MaxBody /\ req.content = "payload"
          /\ req.gzip => req.inflated <= MaxInflated /\ ~req.broken
      BY DEF WellFormed, TokenPasses
    <3>2. req.gzip => Gunzip(req) = 200
      BY <3>1, RequestAssumption DEF Gunzip, Request
    <3> QED
      BY <1>5, <2>3, <3>1, <3>2
  <2> QED
    BY <1>2, <1>3, <2>2, <2>5, <2>6
<1>4. CASE failed = {}
  <2>1. \A i \in 1..6 : Checks(req)[i].passes
    BY <1>0, <1>4
  <2>2. /\ TokenPasses(req) /\ req.json /\ req.size <= MaxBody /\ (req.gzip => Gunzip(req) = 200)
        /\ req.content # "garbage" /\ req.content # "malformed"
    BY <1>5, <2>1
  <2>3. req.gzip => req.inflated <= MaxInflated /\ ~req.broken
    BY <2>2, RequestAssumption DEF Gunzip, Request
  <2>4. req.content = "payload"
    BY <2>2 DEF Request
  <2>5. IngestToken \in {NoToken, req.token}
    BY <2>2 DEF TokenPasses
  <2> QED
    BY <1>2, <1>4, <2>2, <2>3, <2>4, <2>5 DEF WellFormed
<1> QED
  BY <1>3, <1>4

----------------------------------------------------------------------------
(* The invariant.                                                          *)

PostRecord == [stage : Stages, done : Nat, waits : BOOLEAN, rows : Maps, marks : SpanTables]

(* The tables l, t and m hold payload p, which the service had to take.    *)
Holding(l, t, m, p) ==
    /\ Acceptable(p)
    /\ \A i \in LogIds : i[1] = p => l[i] > 0
    /\ StoreSpans(t, p) = t
    /\ StoreLinks(m, p) = m

(* An open transaction has written what its statements up to now make of   *)
(* the tables as they are, not only as they were when it began.            *)
InStep(t, m, p, r) ==
    /\ r.done <= Len(Program[p])
    /\ BadAt[p] \notin 1..r.done
    /\ \A k \in Keys : r.rows[k] = Written(m, LinksRun(p, r.done), k)
    /\ \A k \in SpanKeys : r.marks[k] = Marked(t, SpansRun(p, r.done), k)

(* What holds of a post of payload p whose record is r.                    *)
PostInv(l, t, m, p, r) ==
    /\ r \in PostRecord
    /\ r.stage \in {"queued", "open", "stored"} => WellFormed(RequestOf[p])
    /\ r.stage # "open" => r = Idle(r.stage)
    /\ r.stage = "open" => InStep(t, m, p, r)
    /\ r.stage = "stored" => Holding(l, t, m, p)

(* No two transactions have written the same row.                          *)
Disjoint(r, q) ==
    /\ \A k \in Keys : r.rows[k] = NoRow \/ q.rows[k] = NoRow
    /\ \A k \in SpanKeys : r.marks[k] = NoRow \/ q.marks[k] = NoRow

(* The tables and every post's part in them.                              *)
StoreInv ==
    /\ logs \in [LogIds -> Nat] /\ spans \in SpanTables /\ map \in Maps
    /\ post = [a \in Posts |-> post[a]]
    /\ \A a \in Posts : PostInv(logs, spans, map, a[1], post[a])
    /\ \A a, b \in Posts : a # b => Disjoint(post[a], post[b])

(* What the collector keeps, and the bounds.                              *)
CollectorTypes ==
    /\ acked \subseteq Payload /\ dropped \subseteq Payload /\ waiting \subseteq Payload
    /\ tries \in [Payload -> Nat] /\ \A p \in Payload : tries[p] <= MaxTries[p]
    /\ faults \in 0..MaxFaults

(* The inductive invariant.                                               *)
DeliveryInv == StoreInv /\ CollectorTypes

(* The invariant contains the types.                                       *)
LEMMA InvIsTyped == DeliveryInv => TypeOK
<1> SUFFICES ASSUME DeliveryInv PROVE TypeOK
  OBVIOUS
<1>1. post = [a \in Posts |-> post[a]] /\ \A a \in Posts : post[a] \in PostRecord
  BY DEF DeliveryInv, StoreInv, PostInv
<1>2. post \in [Posts -> PostRecord]
  BY <1>1
<1> QED
  BY <1>2 DEF TypeOK, DeliveryInv, StoreInv, CollectorTypes, PostRecord, SpanTables

(* Before its first statement a transaction has written nothing.           *)
LEMMA NothingWritten ==
    ASSUME NEW p \in Payload, NEW t, NEW m
    PROVE  /\ \A k \in Keys : Written(m, LinksRun(p, 0), k) = NoRow
           /\ \A k \in SpanKeys : Marked(t, SpansRun(p, 0), k) = NoRow
<1>1. LinksRun(p, 0) = <<>> /\ SpansRun(p, 0) = <<>>
  <2>1. \A s : SubSeq(s, 1, 0) = <<>>
    BY SubSeqEmpty
  <2> QED
    BY <2>1, CountsAtEnds DEF LinksRun, SpansRun
<1>2. \A k : Hits(<<>>, k) = {} /\ SpanHits(<<>>, k) = {}
  BY DEF Hits, SpanHits
<1> QED
  BY <1>1, <1>2 DEF Written, Marked

(* A post that rests, or has just got its connection.                      *)
LEMMA IdleFacts ==
    ASSUME NEW stage \in Stages
    PROVE  /\ Idle(stage) \in PostRecord /\ Idle(stage).stage = stage
           /\ \A q : Disjoint(Idle(stage), q)
           /\ \A p \in Payload : \A t, m : InStep(t, m, p, Idle(stage))
<1>1. Idle(stage) \in PostRecord /\ Idle(stage).stage = stage
  BY DEF Idle, PostRecord, Maps, SpanTables
<1>2. \A q : Disjoint(Idle(stage), q)
  BY DEF Idle, Disjoint
<1>3. ASSUME NEW p \in Payload, NEW t, NEW m
      PROVE  InStep(t, m, p, Idle(stage))
  <2>1. 0 <= Len(Program[p]) /\ BadAt[p] \notin 1..0
    <3>1. PICK nr \in Nat, nl \in Nat : Len(Program[p]) = nr + nl
      BY PayloadTypes, CountsAtEnds
    <3>2. 0 <= nr + nl /\ 1..0 = {}
      OBVIOUS
    <3> QED
      BY <3>1, <3>2
  <2>2. Idle(stage).done = 0
    BY DEF Idle
  <2>3. /\ \A k \in Keys : Idle(stage).rows[k] = NoRow
        /\ \A k \in SpanKeys : Idle(stage).marks[k] = NoRow
    BY DEF Idle
  <2> QED
    BY <2>1, <2>2, <2>3, NothingWritten DEF InStep
<1> QED
  BY <1>1, <1>2, <1>3

(* A step that puts a new record for one post and leaves the tables alone. *)
LEMMA PutKeeps ==
    ASSUME StoreInv, NEW a \in Posts, NEW r, post' = [post EXCEPT ![a] = r],
           UNCHANGED <<logs, spans, map>>, PostInv(logs, spans, map, a[1], r),
           \A b \in Posts : b # a => Disjoint(r, post[b])
    PROVE  StoreInv'
<1>1. post' = [b \in Posts |-> post'[b]] /\ \A b \in Posts : post'[b] = IF b = a THEN r ELSE post[b]
  BY Changed, Zenon DEF StoreInv
<1>2. \A b \in Posts : PostInv(logs, spans, map, b[1], post'[b])
  BY <1>1 DEF StoreInv
<1>3. \A b, c \in Posts : b # c => Disjoint(post'[b], post'[c])
  BY <1>1 DEF StoreInv, Disjoint
<1> QED
  BY <1>1, <1>2, <1>3 DEF StoreInv

(* The same when the post rests afterwards.                                *)
LEMMA RestKeeps ==
    ASSUME StoreInv, NEW a \in Posts, NEW stage \in Stages, stage # "open",
           post' = [post EXCEPT ![a] = Idle(stage)], UNCHANGED <<logs, spans, map>>,
           stage \in {"queued", "stored"} => WellFormed(RequestOf[a[1]]),
           stage = "stored" => Holding(logs, spans, map, a[1])
    PROVE  StoreInv'
<1> DEFINE r == Idle(stage)
<1>1. r \in PostRecord /\ r.stage = stage /\ \A q : Disjoint(r, q)
  BY IdleFacts
<1>2. r = Idle(r.stage)
  BY <1>1
<1> HIDE DEF r
<1>3. PostInv(logs, spans, map, a[1], r)
  BY <1>1, <1>2 DEF PostInv
<1> QED
  BY <1>1, <1>3, PutKeeps DEF r

----------------------------------------------------------------------------
(* The steps.                                                              *)

(* A payload without statements is held by any tables.                     *)
LEMMA NothingToStore ==
    ASSUME NEW p \in Payload, Program[p] = <<>>, WellFormed(RequestOf[p]),
           NEW l, NEW t \in SpanTables, NEW m \in Maps
    PROVE  Holding(l, t, m, p)
<1>1. /\ Len(RowsOf[p]) \in Nat /\ Len(LinksOf[p]) \in Nat
      /\ Len(RowsOf[p]) + Len(LinksOf[p]) = 0
      /\ DOMAIN RowsOf[p] = 1..Len(RowsOf[p]) /\ DOMAIN LinksOf[p] = 1..Len(LinksOf[p])
      /\ DOMAIN Program[p] = {}
  <2>1. Len(Program[p]) = Len(RowsOf[p]) + Len(LinksOf[p])
    BY CountsAtEnds
  <2>2. Len(<<>>) = 0 /\ DOMAIN <<>> = {}
    OBVIOUS
  <2> QED
    BY <2>1, <2>2, PayloadTypes
<1>2. DOMAIN RowsOf[p] = {} /\ DOMAIN LinksOf[p] = {}
  <2>1. PICK nr \in Nat, nl \in Nat : nr = Len(RowsOf[p]) /\ nl = Len(LinksOf[p]) /\ nr + nl = 0
    BY <1>1
  <2>2. \A i, j \in Nat : i + j = 0 => i = 0 /\ j = 0
    OBVIOUS
  <2>3. nr = 0 /\ nl = 0
    BY <2>1, <2>2
  <2>4. 1..0 = {}
    OBVIOUS
  <2> QED
    BY <1>1, <2>1, <2>3, <2>4
<1>3. \A i \in LogIds : i[1] # p
  BY <1>2 DEF LogIds
<1>4. DOMAIN SpansOf(p) = {}
  BY <1>2 DEF SpansOf
<1>5. StoreSpans(t, p) = t
  BY <1>4 DEF StoreSpans, SpanHits, SpanTables
<1>6. StoreLinks(m, p) = m
  BY <1>2 DEF StoreLinks, UpsertAll, Hits, Maps
<1> QED
  BY <1>1, <1>3, <1>5, <1>6 DEF Holding, Acceptable

(* A post that arrives.                                                    *)
LEMMA SendStep ==
    ASSUME DeliveryInv, NEW p \in Payload, Send(p)
    PROVE  DeliveryInv'
<1> DEFINE a == <<p, tries[p] + 1>>
           stage == Arrival(p)
<1>1. /\ RequestOf[p] \in Request
      /\ Status(RequestOf[p]) \in {200, 400, 401, 413, 415, 500}
      /\ Status(RequestOf[p]) = 200 => WellFormed(RequestOf[p])
  BY PayloadAssumption, StatusFacts
<1>2. /\ stage \in {"denied", "failed", "stored", "queued"}
      /\ stage \in {"stored", "queued"} => Status(RequestOf[p]) = 200
      /\ stage = "stored" => Program[p] = <<>>
  BY <1>1 DEF Arrival
<1>3. /\ tries[p] \in Nat /\ MaxTries[p] \in Nat /\ tries[p] < MaxTries[p]
      /\ a \in Posts /\ a[1] = p
  <2>1. tries[p] \in Nat /\ MaxTries[p] \in Nat /\ tries[p] < MaxTries[p]
    BY IngestAssumption DEF Send, DeliveryInv, CollectorTypes
  <2> QED
    BY <2>1 DEF Posts
<1>4. post' = [post EXCEPT ![a] = Idle(stage)] /\ UNCHANGED <<logs, spans, map>>
  BY DEF Send, tables
<1> HIDE DEF a, stage
<1>5. stage = "stored" => Holding(logs, spans, map, p)
  BY <1>1, <1>2, NothingToStore DEF DeliveryInv, StoreInv
<1>6. StoreInv'
  <2>1. stage \in Stages /\ stage # "open" /\ StoreInv
    BY <1>2 DEF DeliveryInv, Stages
  <2>2. stage \in {"queued", "stored"} => WellFormed(RequestOf[a[1]])
    BY <1>1, <1>2, <1>3
  <2>3. stage = "stored" => Holding(logs, spans, map, a[1])
    BY <1>3, <1>5
  <2>4. a \in Posts
    BY <1>3
  <2> QED
    BY <1>4, <2>1, <2>2, <2>3, <2>4, RestKeeps
<1>7. CollectorTypes'
  BY <1>3 DEF Send, DeliveryInv, CollectorTypes
<1> QED
  BY <1>6, <1>7 DEF DeliveryInv

(* A post that is answered.                                                *)
LEMMA ReplyStep ==
    ASSUME DeliveryInv, NEW a \in Posts, Reply(a)
    PROVE  DeliveryInv'
<1>1. StoreInv'
  <2>1. post' = [post EXCEPT ![a] = Idle("over")] /\ UNCHANGED <<logs, spans, map>> /\ StoreInv
    BY DEF Reply, tables, DeliveryInv
  <2> QED
    BY <2>1, RestKeeps DEF Stages
<1>2. a[1] \in Payload
  BY PostFacts
<1>3. CollectorTypes'
  BY <1>2 DEF Reply, DeliveryInv, CollectorTypes
<1> QED
  BY <1>1, <1>3 DEF DeliveryInv

(* A roll-back leaves no trace but the answer that is due.                *)
LEMMA RollBackStep ==
    ASSUME DeliveryInv, NEW a \in Posts, Refused(a) \/ KillForDeadlock(a) \/ Fail(a)
    PROVE  DeliveryInv'
<1>1. /\ RollBack(a) /\ UNCHANGED <<logs, spans, map, acked, dropped, tries, waiting>>
      /\ faults' = faults \/ (faults < MaxFaults /\ faults' = faults + 1)
  BY DEF Refused, KillForDeadlock, Fail, tables
<1>2. StoreInv'
  BY <1>1, RestKeeps DEF RollBack, DeliveryInv, Stages
<1>3. CollectorTypes'
  BY <1>1, IngestAssumption DEF DeliveryInv, CollectorTypes
<1> QED
  BY <1>2, <1>3 DEF DeliveryInv

(* A collector that gives up waiting changes nothing here.                *)
LEMMA TimeOutStep ==
    ASSUME DeliveryInv, NEW p \in Payload, TimeOut(p)
    PROVE  DeliveryInv'
<1>1. StoreInv'
  BY DEF TimeOut, tables, DeliveryInv, StoreInv
<1>2. CollectorTypes'
  BY IngestAssumption DEF TimeOut, DeliveryInv, CollectorTypes
<1> QED
  BY <1>1, <1>2 DEF DeliveryInv

(* A crash lays every post to rest, but those that were never sent.        *)
LEMMA CrashStep ==
    ASSUME DeliveryInv, Crash
    PROVE  DeliveryInv'
<1>1. ASSUME NEW a \in Posts
      PROVE  /\ PostInv(logs, spans, map, a[1], post'[a])
             /\ \A q : Disjoint(post'[a], q)
  <2>1. PostInv(logs, spans, map, a[1], post[a])
    BY DEF DeliveryInv, StoreInv
  <2>2. post'[a] = Idle("over") \/ (post'[a] = post[a] /\ post[a].stage = "unsent")
    BY DEF Crash
  <2>3. PICK stage \in Stages : post'[a] = Idle(stage) /\ stage \in {"over", "unsent"}
    BY <2>1, <2>2 DEF PostInv, Stages
  <2>4. post'[a] \in PostRecord /\ post'[a].stage = stage /\ \A q : Disjoint(post'[a], q)
    BY <2>3, IdleFacts
  <2> QED
    BY <2>3, <2>4 DEF PostInv
<1>2. StoreInv'
  BY <1>1 DEF Crash, tables, DeliveryInv, StoreInv
<1>3. CollectorTypes'
  BY IngestAssumption DEF Crash, DeliveryInv, CollectorTypes
<1> QED
  BY <1>2, <1>3 DEF DeliveryInv

(* A post that gets its connection.                                        *)
LEMMA AcquireStep ==
    ASSUME DeliveryInv, NEW a \in Posts, Acquire(a)
    PROVE  DeliveryInv'
<1>1. PostInv(logs, spans, map, a[1], post[a]) /\ a[1] \in Payload
  BY PostFacts DEF DeliveryInv, StoreInv
<1>2. post[a] = Idle("queued") /\ WellFormed(RequestOf[a[1]])
  BY <1>1 DEF Acquire, PostInv
<1>3. [post[a] EXCEPT !.stage = "open"] = Idle("open")
  <2>1. \A r : IsPost(r) => [r EXCEPT !.stage = "open"] =
          [stage |-> "open", done |-> r.done, waits |-> r.waits, rows |-> r.rows, marks |-> r.marks]
    BY DEF IsPost
  <2>2. IsPost(Idle("queued"))
    BY IdleIsPost
  <2>3. [Idle("queued") EXCEPT !.stage = "open"] = Idle("open")
    BY <2>1, <2>2 DEF Idle
  <2> QED
    BY <1>2, <2>3
<1>4. post' = [post EXCEPT ![a] = Idle("open")] /\ UNCHANGED <<logs, spans, map>>
  BY <1>3 DEF Acquire, tables
<1> DEFINE r == Idle("open")
<1>5. r \in PostRecord /\ r.stage = "open" /\ InStep(spans, map, a[1], r) /\ \A q : Disjoint(r, q)
  <2>1. "open" \in Stages
    BY DEF Stages
  <2> QED
    BY <1>1, <2>1, IdleFacts
<1> HIDE DEF r
<1>6. PostInv(logs, spans, map, a[1], r)
  BY <1>2, <1>5 DEF PostInv
<1>7. StoreInv'
  BY <1>4, <1>5, <1>6, PutKeeps DEF DeliveryInv, r
<1>8. CollectorTypes'
  BY DEF Acquire, DeliveryInv, CollectorTypes
<1> QED
  BY <1>7, <1>8 DEF DeliveryInv

(* A post whose next statement finds its row locked.                       *)
LEMMA WaitStep ==
    ASSUME DeliveryInv, NEW a \in Posts, Wait(a)
    PROVE  DeliveryInv'
<1> DEFINE r == [post[a] EXCEPT !.waits = TRUE]
<1>1. PostInv(logs, spans, map, a[1], post[a]) /\ post[a].stage = "open"
  BY DEF Wait, Blockers, HasNext, DeliveryInv, StoreInv
<1>2. /\ r \in PostRecord /\ r.stage = "open" /\ r.done = post[a].done
      /\ r.rows = post[a].rows /\ r.marks = post[a].marks
  BY <1>1 DEF PostInv, PostRecord
<1>3. post' = [post EXCEPT ![a] = r] /\ UNCHANGED <<logs, spans, map>>
  BY DEF Wait, tables
<1> HIDE DEF r
<1>4. PostInv(logs, spans, map, a[1], r)
  BY <1>1, <1>2 DEF PostInv, InStep
<1>5. \A b \in Posts : b # a => Disjoint(r, post[b])
  BY <1>2 DEF DeliveryInv, StoreInv, Disjoint
<1>6. StoreInv'
  BY <1>3, <1>4, <1>5, PutKeeps DEF DeliveryInv
<1>7. CollectorTypes'
  BY DEF Wait, DeliveryInv, CollectorTypes
<1> QED
  BY <1>6, <1>7 DEF DeliveryInv

(* A statement that is not blocked has its row to itself.                  *)
LEMMA RowIsFree ==
    ASSUME StoreInv, NEW a \in Posts, HasNext(a), Blockers(a) = {}, NEW b \in Posts, b # a
    PROVE  LET s == Current(a)
           IN  /\ s.op = "link" /\ LinkKey(s.rec) \in Keys => post[b].rows[LinkKey(s.rec)] = NoRow
               /\ s.op = "span" /\ SpanKey(s.rec) \in SpanKeys => post[b].marks[SpanKey(s.rec)] = NoRow
<1> DEFINE s == Current(a)
<1>1. CASE post[b].stage # "open"
  <2>1. post[b] = Idle(post[b].stage)
    BY <1>1 DEF StoreInv, PostInv
  <2> QED
    BY <2>1 DEF Idle
<1>2. CASE post[b].stage = "open"
  <2>1. ~Holds(b, Target(s))
    BY <1>2 DEF Blockers, Running
  <2>2. /\ s.op = "link" => Target(s) = <<"map", LinkKey(s.rec)>>
        /\ s.op = "span" => Target(s) = <<"spans", SpanKey(s.rec)>>
    BY DEF Target
  <2> HIDE DEF s
  <2>3. s.op = "link" => post[b].rows[LinkKey(s.rec)] = NoRow
    BY <2>1, <2>2 DEF Holds
  <2>4. s.op = "span" => post[b].marks[SpanKey(s.rec)] = NoRow
    BY <2>1, <2>2 DEF Holds
  <2> QED
    BY <2>3, <2>4 DEF s
<1> QED
  BY <1>1, <1>2

(* The links and the spans that have run, with the next statement.         *)
LEMMA RunsOneMore ==
    ASSUME NEW p \in Payload, NEW d \in Nat, d < Len(Program[p]), NEW s, s = Program[p][d + 1]
    PROVE  /\ LinksRun(p, d) \in Seq(Link) /\ SpansRun(p, d) \in Seq(SpanRow)
           /\ s.op \in {"log", "link", "span"}
           /\ s.op = "link" => /\ s.rec \in Link
                               /\ LinksRun(p, d + 1) = Append(LinksRun(p, d), s.rec)
           /\ s.op # "link" => LinksRun(p, d + 1) = LinksRun(p, d)
           /\ s.op = "span" => /\ s.rec \in SpanRow
                               /\ SpansRun(p, d + 1) = Append(SpansRun(p, d), s.rec)
           /\ s.op # "span" => SpansRun(p, d + 1) = SpansRun(p, d)
<1> DEFINE i == LinkCount(p, d)
           j == SpanCount(p, d)
<1>1. LinksOf[p] \in Seq(Link) /\ SpansOf(p) \in Seq(SpanRow)
  BY PayloadTypes
<1>2. /\ i \in Nat /\ j \in Nat
      /\ \/ s.op = "log" /\ LinkCount(p, d + 1) = i /\ SpanCount(p, d + 1) = j
         \/ /\ s.op = "link" /\ i < Len(LinksOf[p]) /\ s.rec = LinksOf[p][i + 1]
            /\ LinkCount(p, d + 1) = i + 1 /\ SpanCount(p, d + 1) = j
         \/ /\ s.op = "span" /\ j < Len(SpansOf(p)) /\ s.rec = SpansOf(p)[j + 1]
            /\ LinkCount(p, d + 1) = i /\ SpanCount(p, d + 1) = j + 1
  BY NextStatement
<1>3. LinksRun(p, d) = SubSeq(LinksOf[p], 1, i) /\ SpansRun(p, d) = SubSeq(SpansOf(p), 1, j)
  BY DEF LinksRun, SpansRun
<1> HIDE DEF i, j
<1>5. SubSeq(LinksOf[p], 1, i) \in Seq(Link) /\ SubSeq(SpansOf(p), 1, j) \in Seq(SpanRow)
  <2>1. d <= Len(Program[p])
    BY ProgramLength
  <2> QED
    BY <1>3, <2>1, RunsType
<1>6. CASE s.op = "log"
  BY <1>2, <1>3, <1>5, <1>6 DEF LinksRun, SpansRun
<1>7. CASE s.op = "link"
  <2>1. /\ i < Len(LinksOf[p]) /\ s.rec = LinksOf[p][i + 1]
        /\ LinkCount(p, d + 1) = i + 1 /\ SpanCount(p, d + 1) = j
    BY <1>2, <1>7
  <2>2. s.rec \in Link /\ SubSeq(LinksOf[p], 1, i + 1) = Append(SubSeq(LinksOf[p], 1, i), s.rec)
    BY <1>1, <1>2, <2>1, OneMore
  <2> QED
    BY <1>3, <1>5, <1>7, <2>1, <2>2 DEF LinksRun, SpansRun
<1>8. CASE s.op = "span"
  <2>1. /\ j < Len(SpansOf(p)) /\ s.rec = SpansOf(p)[j + 1]
        /\ LinkCount(p, d + 1) = i /\ SpanCount(p, d + 1) = j + 1
    BY <1>2, <1>8
  <2>2. s.rec \in SpanRow /\ SubSeq(SpansOf(p), 1, j + 1) = Append(SubSeq(SpansOf(p), 1, j), s.rec)
    BY <1>1, <1>2, <2>1, OneMore
  <2> QED
    BY <1>3, <1>5, <1>8, <2>1, <2>2 DEF LinksRun, SpansRun
<1> QED
  BY <1>2, <1>6, <1>7, <1>8

(* A statement: what it makes of the post, and that the others do not mind.*)
LEMMA StatementStep ==
    ASSUME DeliveryInv, NEW a \in Posts, Statement(a)
    PROVE  DeliveryInv'
<1> DEFINE p == a[1]
           old == post[a]
           d == old.done
           s == Current(a)
<1>1. /\ PostInv(logs, spans, map, p, old) /\ p \in Payload /\ old.stage = "open"
      /\ old \in PostRecord /\ d \in Nat /\ d < Len(Program[p]) /\ s = Program[p][d + 1]
      /\ WellFormed(RequestOf[p]) /\ InStep(spans, map, p, old)
      /\ map \in Maps /\ spans \in SpanTables
  BY PostFacts DEF Statement, HasNext, Current, DeliveryInv, StoreInv, PostInv, PostRecord
<1>2. BadAt[p] \notin 1..(d + 1) /\ d + 1 \in Nat /\ d + 1 <= Len(Program[p])
  <2>1. BadAt[p] \in Nat /\ BadAt[p] \notin 1..d /\ d + 1 # BadAt[p] /\ Len(Program[p]) \in Nat
    BY <1>1, PayloadTypes, ProgramLength DEF Statement, Fits, InStep
  <2> QED
    BY <1>1, <2>1
<1>3. /\ LinksRun(p, d) \in Seq(Link) /\ SpansRun(p, d) \in Seq(SpanRow)
      /\ s.op \in {"log", "link", "span"}
      /\ s.op = "link" => s.rec \in Link /\ LinksRun(p, d + 1) = Append(LinksRun(p, d), s.rec)
      /\ s.op # "link" => LinksRun(p, d + 1) = LinksRun(p, d)
      /\ s.op = "span" => s.rec \in SpanRow /\ SpansRun(p, d + 1) = Append(SpansRun(p, d), s.rec)
      /\ s.op # "span" => SpansRun(p, d + 1) = SpansRun(p, d)
  BY <1>1, RunsOneMore
<1>4. /\ Ran(a) \in PostRecord /\ Ran(a).stage = "open" /\ Ran(a).done = d + 1
      /\ Ran(a).rows = old.rows /\ Ran(a).marks = old.marks
  BY <1>1, <1>2 DEF Ran, PostRecord
<1>5. UNCHANGED <<logs, spans, map>> /\ CollectorTypes'
  BY DEF Statement, tables, DeliveryInv, CollectorTypes
<1>6. /\ HasNext(a) /\ Blockers(a) = {} /\ StoreInv
      /\ \A b \in Posts : b # a => Disjoint(old, post[b])
  BY DEF Statement, DeliveryInv, StoreInv
<1>7. \/ s.op = "log" /\ RunLog(a)
      \/ s.op = "link" /\ RunLink(a, s.rec)
      \/ s.op = "span" /\ RunSpan(a, s.rec)
  BY DEF Statement
<1>8. ASSUME NEW r \in PostRecord, r.stage = "open", r.done = d + 1, post' = [post EXCEPT ![a] = r],
             \A k \in Keys : r.rows[k] = Written(map, LinksRun(p, d + 1), k),
             \A k \in SpanKeys : r.marks[k] = Marked(spans, SpansRun(p, d + 1), k),
             \A b \in Posts : b # a => Disjoint(r, post[b])
      PROVE  DeliveryInv'
  <2>1. InStep(spans, map, p, r)
    BY <1>2, <1>8 DEF InStep
  <2>2. PostInv(logs, spans, map, p, r)
    BY <1>1, <1>8, <2>1 DEF PostInv
  <2>3. StoreInv'
    BY <1>5, <1>6, <1>8, <2>2, PutKeeps
  <2> QED
    BY <1>5, <2>3 DEF DeliveryInv
<1>9. /\ \A k \in Keys : old.rows[k] = Written(map, LinksRun(p, d), k)
      /\ \A k \in SpanKeys : old.marks[k] = Marked(spans, SpansRun(p, d), k)
  BY <1>1 DEF InStep
<1> HIDE DEF p, old, d, s
<1>10. CASE s.op = "log"
  <2>1. post' = [post EXCEPT ![a] = Ran(a)]
    BY <1>7, <1>10 DEF RunLog
  <2>2. \A b \in Posts : b # a => Disjoint(Ran(a), post[b])
    BY <1>4, <1>6 DEF Disjoint
  <2> QED
    BY <1>3, <1>4, <1>8, <1>9, <1>10, <2>1, <2>2
<1>11. CASE s.op = "link"
  <2> DEFINE k0 == LinkKey(s.rec)
             rows == [old.rows EXCEPT ![k0] = Upsert(SeenRow(a, k0), s.rec)]
             r == [Ran(a) EXCEPT !.rows = rows]
  <2>1. k0 \in Keys /\ old.rows \in Maps
    BY <1>1, <1>3, <1>11, LinksAreRecords DEF PostRecord
  <2>2. post' = [post EXCEPT ![a] = r]
    BY <1>7, <1>11 DEF RunLink, old
  <2>3. SeenRow(a, k0) = IF old.rows[k0] # NoRow THEN old.rows[k0] ELSE map[k0]
    BY DEF SeenRow, old
  <2> HIDE DEF k0
  <2>4. \A k \in Keys : rows[k] = IF k = k0 THEN Upsert(SeenRow(a, k0), s.rec) ELSE old.rows[k]
    BY <2>1 DEF Maps
  <2>5. \A k \in Keys : rows[k] = Written(map, LinksRun(p, d + 1), k)
    <3> SUFFICES ASSUME NEW k \in Keys PROVE rows[k] = Written(map, LinksRun(p, d + 1), k)
      OBVIOUS
    <3>1. LinksRun(p, d + 1) = Append(LinksRun(p, d), s.rec) /\ s.rec \in Link /\ k0 = LinkKey(s.rec)
      BY <1>3, <1>11 DEF k0
    <3>2. Written(map, LinksRun(p, d + 1), k) =
            IF k = k0 THEN Upsert(IF old.rows[k] # NoRow THEN old.rows[k] ELSE map[k], s.rec)
                      ELSE old.rows[k]
      <4>1. \A ls \in Seq(Link), rec \in Link : Written(map, Append(ls, rec), k) =
              IF k = LinkKey(rec)
              THEN Upsert(IF Written(map, ls, k) # NoRow THEN Written(map, ls, k) ELSE map[k], rec)
              ELSE Written(map, ls, k)
        BY <1>1, WrittenOneMore
      <4>2. Written(map, LinksRun(p, d), k) = old.rows[k] /\ LinksRun(p, d) \in Seq(Link)
        BY <1>3, <1>9
      <4> QED
        BY <3>1, <4>1, <4>2
    <3> QED
      BY <2>3, <2>4, <3>2
  <2>6. rows = [k \in Keys |-> rows[k]]
    BY <2>1 DEF Maps
  <2> HIDE DEF rows
  <2>7. LinksRun(p, d + 1) \in Seq(Link)
    BY <1>3, <1>11
  <2>8. rows \in Maps
    BY <1>1, <2>5, <2>6, <2>7, WrittenType DEF Maps
  <2>9. r \in PostRecord /\ r.stage = "open" /\ r.done = d + 1 /\ r.rows = rows /\ r.marks = old.marks
    BY <1>4, <2>8 DEF PostRecord
  <2>10. \A b \in Posts : b # a => post[b].rows[k0] = NoRow
    BY <1>6, <1>11, <2>1, RowIsFree DEF s, k0
  <2> HIDE DEF r
  <2>11. \A b \in Posts : b # a => Disjoint(r, post[b])
    BY <1>6, <2>4, <2>9, <2>10 DEF Disjoint
  <2>12. \A k \in SpanKeys : r.marks[k] = Marked(spans, SpansRun(p, d + 1), k)
    BY <1>3, <1>9, <1>11, <2>9
  <2> QED
    BY <1>8, <2>2, <2>5, <2>9, <2>11, <2>12
<1>12. CASE s.op = "span"
  <2> DEFINE k0 == SpanKey(s.rec)
             taken == old.marks[k0] # NoRow \/ spans[k0] # NoRow
             marks == IF taken THEN old.marks ELSE [old.marks EXCEPT ![k0] = s.rec]
             r == [Ran(a) EXCEPT !.marks = marks]
  <2>1. k0 \in SpanKeys /\ old.marks \in SpanTables
    BY <1>1, <1>3, <1>12 DEF PostRecord, SpanKey, SpanKeys, SpanRow
  <2>2. post' = [post EXCEPT ![a] = r]
    BY <1>7, <1>12 DEF RunSpan, old
  <2> HIDE DEF k0
  <2>4. \A k \in SpanKeys : marks[k] = IF k = k0 /\ old.marks[k] = NoRow /\ spans[k] = NoRow
                                       THEN s.rec ELSE old.marks[k]
    BY <2>1 DEF SpanTables
  <2>5. \A k \in SpanKeys : marks[k] = Marked(spans, SpansRun(p, d + 1), k)
    <3> SUFFICES ASSUME NEW k \in SpanKeys PROVE marks[k] = Marked(spans, SpansRun(p, d + 1), k)
      OBVIOUS
    <3>1. SpansRun(p, d + 1) = Append(SpansRun(p, d), s.rec) /\ s.rec \in SpanRow /\ k0 = SpanKey(s.rec)
      BY <1>3, <1>12 DEF k0
    <3>2. Marked(spans, SpansRun(p, d + 1), k) =
            IF k = k0 /\ old.marks[k] = NoRow /\ spans[k] = NoRow THEN s.rec ELSE old.marks[k]
      <4>1. \A rs \in Seq(SpanRow), rec \in SpanRow : Marked(spans, Append(rs, rec), k) =
              IF k = SpanKey(rec) /\ Marked(spans, rs, k) = NoRow /\ spans[k] = NoRow
              THEN rec ELSE Marked(spans, rs, k)
        BY <1>1, MarkedOneMore
      <4>2. Marked(spans, SpansRun(p, d), k) = old.marks[k] /\ SpansRun(p, d) \in Seq(SpanRow)
        BY <1>3, <1>9
      <4> QED
        BY <3>1, <4>1, <4>2
    <3> QED
      BY <2>4, <3>2
  <2>6. marks = [k \in SpanKeys |-> marks[k]]
    BY <2>1 DEF SpanTables
  <2> HIDE DEF marks
  <2>7. SpansRun(p, d + 1) \in Seq(SpanRow)
    BY <1>3, <1>12
  <2>8. marks \in SpanTables
    BY <1>1, <2>5, <2>6, <2>7, MarkedType DEF SpanTables
  <2>9. r \in PostRecord /\ r.stage = "open" /\ r.done = d + 1 /\ r.rows = old.rows /\ r.marks = marks
    BY <1>4, <2>8 DEF PostRecord
  <2>10. \A b \in Posts : b # a => post[b].marks[k0] = NoRow
    BY <1>6, <1>12, <2>1, RowIsFree DEF s, k0
  <2> HIDE DEF r
  <2>11. \A b \in Posts : b # a => Disjoint(r, post[b])
    BY <1>6, <2>4, <2>9, <2>10 DEF Disjoint
  <2>12. \A k \in Keys : r.rows[k] = Written(map, LinksRun(p, d + 1), k)
    BY <1>3, <1>9, <1>12, <2>9
  <2> QED
    BY <1>8, <2>2, <2>5, <2>9, <2>11, <2>12
<1> QED
  BY <1>3, <1>10, <1>11, <1>12

----------------------------------------------------------------------------
(* The commit.                                                             *)

(* It changes the tables as the whole payload does, which they hold then.  *)
LEMMA CommitEffect ==
    ASSUME DeliveryInv, NEW a \in Posts, Commit(a)
    PROVE  /\ Acceptable(a[1])
           /\ logs' = StoreLogs(logs, a[1])
           /\ spans' = StoreSpans(spans, a[1])
           /\ map' = StoreLinks(map, a[1])
           /\ Holding(logs', spans', map', a[1])
<1> DEFINE p == a[1]
           old == post[a]
           d == old.done
<1>1. /\ PostInv(logs, spans, map, p, old) /\ p \in Payload /\ old.stage = "open"
      /\ d \in Nat /\ ~(d < Len(Program[p]))
      /\ WellFormed(RequestOf[p]) /\ InStep(spans, map, p, old)
      /\ logs \in [LogIds -> Nat] /\ map \in Maps /\ spans \in SpanTables
  BY PostFacts DEF Commit, HasNext, DeliveryInv, StoreInv, PostInv, PostRecord
<1>2. d = Len(Program[p]) /\ DOMAIN Program[p] = 1..d
  <2>1. Len(Program[p]) \in Nat /\ d <= Len(Program[p])
    BY <1>1, ProgramLength DEF InStep
  <2>2. d = Len(Program[p])
    BY <1>1, <2>1
  <2> QED
    BY <1>1, <2>2, CountsAtEnds
<1>3. Acceptable(p)
  BY <1>1, <1>2 DEF Acceptable, InStep
<1>4. LinksRun(p, d) = LinksOf[p] /\ SpansRun(p, d) = SpansOf(p) /\ LinksOf[p] \in Seq(Link)
  BY <1>1, <1>2, CountsAtEnds, PayloadTypes
<1>5. /\ \A k \in Keys : old.rows[k] = Written(map, LinksOf[p], k)
      /\ \A k \in SpanKeys : old.marks[k] = Marked(spans, SpansOf(p), k)
  BY <1>1, <1>4 DEF InStep
<1>6. /\ logs' = StoreLogs(logs, p)
      /\ map' = [k \in Keys |-> IF old.rows[k] # NoRow THEN old.rows[k] ELSE map[k]]
      /\ spans' = [k \in SpanKeys |-> IF old.marks[k] # NoRow THEN old.marks[k] ELSE spans[k]]
  BY DEF Commit, StoreLogs, SeenRow
<1> HIDE DEF p, old, d
<1>7. map' = StoreLinks(map, p)
  <2>1. map' = [k \in Keys |-> IF Written(map, LinksOf[p], k) # NoRow
                               THEN Written(map, LinksOf[p], k) ELSE map[k]]
    BY <1>5, <1>6
  <2> QED
    BY <1>1, <1>4, <2>1, WrittenCommitted DEF StoreLinks
<1>8. spans' = StoreSpans(spans, p)
  <2>1. spans' = [k \in SpanKeys |-> IF Marked(spans, SpansOf(p), k) # NoRow
                                     THEN Marked(spans, SpansOf(p), k) ELSE spans[k]]
    BY <1>5, <1>6
  <2> QED
    BY <1>1, <2>1, MarkedCommitted
<1>9. StoreSpans(spans', p) = spans' /\ StoreLinks(map', p) = map'
  BY <1>1, <1>7, <1>8, SpansStay, LinksStay
<1>10. \A i \in LogIds : i[1] = p => logs'[i] > 0
  BY <1>1, <1>6 DEF StoreLogs
<1> QED
  BY <1>3, <1>6, <1>7, <1>8, <1>9, <1>10 DEF Holding, p

(* A transaction that holds none of the rows that change is still in step. *)
LEMMA OthersInStep ==
    ASSUME NEW a \in Posts, NEW b \in Posts, Disjoint(post[a], post[b]), Commit(a),
           InStep(spans, map, b[1], post[b]), post[b].done \in Nat, post[b].done <= Len(Program[b[1]]),
           spans \in SpanTables, map \in Maps, spans' \in SpanTables, map' \in Maps
    PROVE  InStep(spans', map', b[1], post[b])
<1> DEFINE p == b[1]
           ls == LinksRun(p, post[b].done)
           rs == SpansRun(p, post[b].done)
<1>1. p \in Payload
  BY PostFacts
<1>2. ls \in Seq(Link) /\ rs \in Seq(SpanRow)
  BY <1>1, RunsType
<1>3. /\ \A k \in Keys : post[b].rows[k] = Written(map, ls, k)
      /\ \A k \in SpanKeys : post[b].marks[k] = Marked(spans, rs, k)
  BY DEF InStep
<1>4. /\ \A k \in Keys : map'[k] = IF post[a].rows[k] # NoRow THEN post[a].rows[k] ELSE map[k]
      /\ \A k \in SpanKeys : spans'[k] = IF post[a].marks[k] # NoRow THEN post[a].marks[k] ELSE spans[k]
  BY DEF Commit, SeenRow
<1> HIDE DEF ls, rs
<1>5. ASSUME NEW k \in Keys PROVE Written(map', ls, k) = Written(map, ls, k)
  <2>1. CASE Hits(ls, k) = {}
    BY <2>1 DEF Written
  <2>2. CASE Hits(ls, k) # {}
    <3>1. Written(map, ls, k) # NoRow
      BY <1>2, <2>2, WrittenType
    <3>2. map'[k] = map[k]
      BY <1>3, <1>4, <3>1 DEF Disjoint
    <3> QED
      BY <3>2 DEF Written
  <2> QED
    BY <2>1, <2>2
<1>6. ASSUME NEW k \in SpanKeys PROVE Marked(spans', rs, k) = Marked(spans, rs, k)
  <2>1. CASE SpanHits(rs, k) = {}
    BY <2>1 DEF Marked
  <2>2. CASE SpanHits(rs, k) # {} /\ spans[k] = NoRow
    <3>1. Marked(spans, rs, k) # NoRow
      BY <1>2, <2>2, MarkedType
    <3>2. spans'[k] = spans[k]
      BY <1>3, <1>4, <3>1 DEF Disjoint
    <3> QED
      BY <3>2 DEF Marked
  <2>3. CASE spans[k] # NoRow
    <3>1. spans'[k] # NoRow
      BY <1>4, <2>3
    <3> QED
      BY <2>3, <3>1 DEF Marked
  <2> QED
    BY <2>1, <2>2, <2>3
<1> QED
  BY <1>3, <1>5, <1>6 DEF InStep, ls, rs

(* The commit keeps the other posts as they are.                           *)
LEMMA CommitStep ==
    ASSUME DeliveryInv, NEW a \in Posts, Commit(a)
    PROVE  DeliveryInv'
<1>1. /\ a[1] \in Payload /\ Acceptable(a[1]) /\ Holding(logs', spans', map', a[1])
      /\ logs' = StoreLogs(logs, a[1])
      /\ spans' = StoreSpans(spans, a[1]) /\ map' = StoreLinks(map, a[1])
  BY PostFacts, CommitEffect
<1>2. logs \in [LogIds -> Nat] /\ spans \in SpanTables /\ map \in Maps
  BY DEF DeliveryInv, StoreInv
<1>3. logs' \in [LogIds -> Nat] /\ \A i \in LogIds : logs'[i] >= logs[i]
  BY <1>1, <1>2 DEF StoreLogs
<1>4. spans' \in SpanTables /\ map' \in Maps
  BY <1>1, <1>2, SpansStay, LinksStay
<1>5. /\ post' = [b \in Posts |-> post'[b]]
      /\ \A b \in Posts : post'[b] = IF b = a THEN Idle("stored") ELSE post[b]
  BY Changed, Zenon DEF Commit, DeliveryInv, StoreInv
<1> DEFINE r == Idle("stored")
<1>6. r \in PostRecord /\ r.stage = "stored" /\ \A q : Disjoint(r, q)
  <2>1. "stored" \in Stages
    BY DEF Stages
  <2> QED
    BY <2>1, IdleFacts
<1>7. r = Idle(r.stage)
  BY <1>6
<1> HIDE DEF r
<1>8. PostInv(logs', spans', map', a[1], r)
  BY <1>1, <1>6, <1>7 DEF PostInv, Acceptable
<1>9. ASSUME NEW b \in Posts, b # a
      PROVE  PostInv(logs', spans', map', b[1], post[b])
  <2>1. b[1] \in Payload /\ PostInv(logs, spans, map, b[1], post[b]) /\ Disjoint(post[a], post[b])
    BY <1>9, PostFacts DEF DeliveryInv, StoreInv
  <2>2. CASE post[b].stage = "open"
    <3>1. InStep(spans, map, b[1], post[b]) /\ post[b].done \in Nat /\ post[b].done <= Len(Program[b[1]])
      BY <2>1, <2>2 DEF PostInv, PostRecord, InStep
    <3>2. InStep(spans', map', b[1], post[b])
      BY <1>2, <1>4, <2>1, <3>1, OthersInStep
    <3> QED
      BY <2>1, <2>2, <3>2 DEF PostInv
  <2>3. CASE post[b].stage = "stored"
    <3>1. Holding(logs, spans, map, b[1])
      BY <2>1, <2>3 DEF PostInv
    <3>2. StoreSpans(spans', b[1]) = spans' /\ StoreLinks(map', b[1]) = map'
      BY <1>1, <1>2, <2>1, <3>1, SpansStay, LinksStay DEF Holding
    <3>3. \A i \in LogIds : i[1] = b[1] => logs'[i] > 0
      BY <1>2, <1>3, <3>1 DEF Holding
    <3>4. Holding(logs', spans', map', b[1])
      BY <3>1, <3>2, <3>3 DEF Holding
    <3> QED
      BY <2>1, <2>3, <3>4 DEF PostInv
  <2>4. CASE post[b].stage \notin {"open", "stored"}
    BY <2>1, <2>4 DEF PostInv
  <2> QED
    BY <2>2, <2>3, <2>4
<1>10. \A b \in Posts : PostInv(logs', spans', map', b[1], post'[b])
  BY <1>5, <1>8, <1>9 DEF r
<1>11. \A b, c \in Posts : b # c => Disjoint(post'[b], post'[c])
  BY <1>5, <1>6 DEF DeliveryInv, StoreInv, Disjoint, r
<1>12. CollectorTypes'
  BY DEF Commit, DeliveryInv, CollectorTypes
<1> QED
  BY <1>3, <1>4, <1>5, <1>10, <1>11, <1>12 DEF DeliveryInv, StoreInv

----------------------------------------------------------------------------
(* The invariant holds, and every step is one that is promised.            *)

(* Nothing has been stored or acknowledged at the start.                   *)
LEMMA InvInitially == Init => DeliveryInv
<1> SUFFICES ASSUME Init PROVE DeliveryInv
  OBVIOUS
<1>1. "unsent" \in Stages
  BY DEF Stages
<1>2. /\ logs \in [LogIds -> Nat] /\ spans \in SpanTables /\ map \in Maps
      /\ post = [a \in Posts |-> Idle("unsent")]
  BY DEF Init, SpanTables, Maps
<1> DEFINE r == Idle("unsent")
<1>3. r \in PostRecord /\ r.stage = "unsent" /\ \A q : Disjoint(r, q)
  BY <1>1, IdleFacts
<1>4. r = Idle(r.stage)
  BY <1>3
<1> HIDE DEF r
<1>5. \A p : PostInv(logs, spans, map, p, r)
  BY <1>3, <1>4 DEF PostInv
<1>6. \A a \in Posts : post[a] = r
  BY <1>2 DEF r
<1>7. StoreInv
  BY <1>2, <1>3, <1>5, <1>6 DEF StoreInv, r
<1>8. CollectorTypes
  BY IngestAssumption DEF Init, CollectorTypes
<1> QED
  BY <1>7, <1>8 DEF DeliveryInv

(* Every step keeps the invariant.                                        *)
LEMMA InvKept == DeliveryInv /\ [Next]_vars => DeliveryInv'
<1> SUFFICES ASSUME DeliveryInv, [Next]_vars PROVE DeliveryInv'
  OBVIOUS
<1>1. CASE UNCHANGED vars
  <2>1. StoreInv'
    BY <1>1 DEF vars, DeliveryInv, StoreInv
  <2>2. CollectorTypes'
    BY <1>1 DEF vars, DeliveryInv, CollectorTypes
  <2> QED
    BY <2>1, <2>2 DEF DeliveryInv
<1>2. ASSUME NEW p \in Payload, Send(p) \/ TimeOut(p) PROVE DeliveryInv'
  BY <1>2, SendStep, TimeOutStep
<1>3. ASSUME NEW a \in Posts, Serve(a) \/ Fail(a) PROVE DeliveryInv'
  BY <1>3, AcquireStep, StatementStep, WaitStep, CommitStep, ReplyStep, RollBackStep DEF Serve
<1>4. CASE Crash
  BY <1>4, CrashStep
<1> QED
  BY <1>1, <1>2, <1>3, <1>4 DEF Next

(* The promise speaks of the tables with operators of the same meaning.    *)
LEMMA SameLinks == \A m, p : Delivery!StoreLinks(m, p) = StoreLinks(m, p)
<1>1. \A ls, k : Delivery!Hits(ls, k) = Hits(ls, k)
  BY DEF Hits, Delivery!Hits
<1>2. \A ls, k : Delivery!HitTimes(ls, k) = HitTimes(ls, k)
  BY <1>1, Zenon DEF HitTimes, Delivery!HitTimes
<1>3. \A ls, k : Delivery!NamedHits(ls, k) = NamedHits(ls, k)
  BY <1>1, Zenon DEF NamedHits, Delivery!NamedHits
<1>4. \A S : Delivery!Min(S) = Min(S) /\ Delivery!Max(S) = Max(S)
  BY Zenon DEF Min, Delivery!Min, Max, Delivery!Max
<1>5. \A ls, k : Delivery!FirstUser(ls, k) = FirstUser(ls, k)
  BY <1>3, <1>4 DEF FirstUser, Delivery!FirstUser
<1>6. \A row, ls, k : Delivery!UpsertRow(row, ls, k) = UpsertRow(row, ls, k)
  BY <1>2, <1>4, <1>5
     DEF UpsertRow, Delivery!UpsertRow, LastActivity, Delivery!LastActivity, Coalesce, Delivery!Coalesce
<1>7. \A m, ls : Delivery!UpsertAll(m, ls) = UpsertAll(m, ls)
  BY <1>1, <1>6 DEF UpsertAll, Delivery!UpsertAll, Keys, Delivery!Keys
<1> QED
  BY <1>7 DEF StoreLinks, Delivery!StoreLinks

(* Of log rows and spans too,                                             *)
LEMMA SameRows ==
    /\ Delivery!LogIds = LogIds /\ Delivery!SpanKeys = SpanKeys /\ Delivery!Keys = Keys
    /\ \A l, p : Delivery!StoreLogs(l, p) = StoreLogs(l, p)
    /\ \A t, p : Delivery!StoreSpans(t, p) = StoreSpans(t, p)
<1>1. Delivery!LogIds = LogIds /\ Delivery!SpanKeys = SpanKeys /\ Delivery!Keys = Keys
  BY DEF LogIds, Delivery!LogIds, SpanKeys, Delivery!SpanKeys, Keys, Delivery!Keys
<1>2. \A l, p : Delivery!StoreLogs(l, p) = StoreLogs(l, p)
  BY <1>1 DEF StoreLogs, Delivery!StoreLogs
<1>3. \A rs, k : Delivery!SpanHits(rs, k) = SpanHits(rs, k)
  BY DEF SpanHits, Delivery!SpanHits
<1>4. \A S : Delivery!Min(S) = Min(S)
  BY Zenon DEF Min, Delivery!Min
<1>5. \A p : Delivery!SpansOf(p) = SpansOf(p)
  BY DEF SpansOf, Delivery!SpansOf
<1>6. \A t, p : Delivery!StoreSpans(t, p) = StoreSpans(t, p)
  BY <1>1, <1>3, <1>4, <1>5 DEF StoreSpans, Delivery!StoreSpans
<1> QED
  BY <1>1, <1>2, <1>6

(* and it demands the same payloads.                                      *)
LEMMA SameDemand == \A p \in Payload : Delivery!Acceptable(p) <=> Acceptable(p)
<1>1. \A op, s : Delivery!Statements(op, s) = Statements(op, s)
  BY DEF Statements, Delivery!Statements
<1>2. Delivery!Program = Program
  BY <1>1 DEF Program, Delivery!Program
<1>3. \A req : Delivery!WellFormed(req) <=> WellFormed(req)
  BY DEF WellFormed, Delivery!WellFormed
<1> QED
  BY <1>2, <1>3 DEF Acceptable, Delivery!Acceptable

(* A commit applies its payload, a 200 that is heard acknowledges one that *)
(* the tables hold, and nothing else shows.                                *)
LEMMA StepsPromised == DeliveryInv /\ [Next]_vars => [Delivery!Next]_(Delivery!vars)
<1> SUFFICES ASSUME DeliveryInv, [Next]_vars PROVE [Delivery!Next]_(Delivery!vars)
  OBVIOUS
<1> DEFINE Stutter == UNCHANGED <<logs, spans, map, acked>>
<1>1. ASSUME NEW a \in Posts, Commit(a) PROVE Delivery!Next
  <2>1. /\ a[1] \in Payload /\ Acceptable(a[1]) /\ logs' = StoreLogs(logs, a[1])
        /\ spans' = StoreSpans(spans, a[1]) /\ map' = StoreLinks(map, a[1])
    BY <1>1, CommitEffect, PostFacts
  <2>2. acked' = acked
    BY <1>1 DEF Commit
  <2>3. Delivery!Apply(a[1])
    BY <2>1, <2>2, SameRows, SameLinks DEF Delivery!Apply
  <2> QED
    BY <2>1, <2>3, SameDemand DEF Delivery!Next
<1>2. ASSUME NEW a \in Posts, Reply(a) PROVE Delivery!Next \/ Stutter
  <2>1. CASE post[a].stage = "stored"
    <3>1. a[1] \in Payload /\ Holding(logs, spans, map, a[1])
      BY <2>1, PostFacts DEF DeliveryInv, StoreInv, PostInv
    <3>2. Delivery!Applied(a[1])
      BY <3>1, SameRows, SameLinks DEF Holding, Delivery!Applied
    <3>3. UNCHANGED <<logs, spans, map>> /\ acked' \in {acked, acked \cup {a[1]}}
      BY <1>2 DEF Reply, tables
    <3>4. acked' = acked \cup {a[1]} => Delivery!Acknowledge(a[1])
      BY <3>2, <3>3 DEF Delivery!Acknowledge
    <3>5. Delivery!Acceptable(a[1])
      BY <3>1, SameDemand DEF Holding
    <3> QED
      BY <3>1, <3>3, <3>4, <3>5 DEF Delivery!Next
  <2>2. CASE post[a].stage # "stored"
    BY <1>2, <2>2 DEF Reply, tables
  <2> QED
    BY <2>1, <2>2
<1>3. ASSUME NEW a \in Posts, Acquire(a) \/ Statement(a) \/ Wait(a) \/ Refused(a)
                              \/ KillForDeadlock(a) \/ Fail(a)
      PROVE  Stutter
  BY <1>3 DEF Acquire, Statement, Wait, Refused, KillForDeadlock, Fail, tables
<1>4. ASSUME NEW p \in Payload, Send(p) \/ TimeOut(p) PROVE Stutter
  BY <1>4 DEF Send, TimeOut, tables
<1>5. ASSUME Crash PROVE Stutter
  BY <1>5 DEF Crash, tables
<1>6. ASSUME UNCHANGED vars PROVE Stutter
  BY <1>6 DEF vars
<1>7. Delivery!Next \/ Stutter
  BY <1>1, <1>2, <1>3, <1>4, <1>5, <1>6 DEF Next, Serve
<1> QED
  BY <1>7 DEF Delivery!vars

----------------------------------------------------------------------------
(* The collector can rely on its answers.                                  *)

(* What was acknowledged is held; what is denied, or was, had to be; and   *)
(* no row is stored of a payload that had to be denied.                    *)
AnswersInv ==
    /\ DeliveryInv
    /\ \A p \in acked : Holding(logs, spans, map, p)
    /\ \A p \in dropped : ~WellFormed(RequestOf[p])
    /\ \A l \in LogIds : logs[l] > 0 => WellFormed(RequestOf[l[1]])
    /\ \A a \in Posts : post[a].stage = "denied" => ~WellFormed(RequestOf[a[1]])

(* A payload that the tables hold is held after any other is stored.       *)
LEMMA HoldingStays ==
    ASSUME DeliveryInv, NEW a \in Posts, Commit(a), NEW p \in Payload, Holding(logs, spans, map, p)
    PROVE  Holding(logs', spans', map', p)
<1>1. /\ a[1] \in Payload /\ logs' = StoreLogs(logs, a[1])
      /\ spans' = StoreSpans(spans, a[1]) /\ map' = StoreLinks(map, a[1])
  BY PostFacts, CommitEffect
<1>2. logs \in [LogIds -> Nat] /\ spans \in SpanTables /\ map \in Maps
  BY DEF DeliveryInv, StoreInv
<1>3. StoreSpans(spans', p) = spans' /\ StoreLinks(map', p) = map'
  BY <1>1, <1>2, SpansStay, LinksStay DEF Holding
<1>4. \A i \in LogIds : i[1] = p => logs'[i] > 0
  BY <1>1, <1>2 DEF StoreLogs, Holding
<1> QED
  BY <1>3, <1>4 DEF Holding

(* A post is answered with a 4xx because of its request alone.             *)
LEMMA DeniedForGood ==
    ASSUME AnswersInv, [Next]_vars, NEW a \in Posts, post'[a].stage = "denied"
    PROVE  ~WellFormed(RequestOf[a[1]])
<1>1. CASE post'[a] = post[a]
  BY <1>1 DEF AnswersInv
<1>2. CASE post'[a] # post[a]
  <2>1. post = [b \in Posts |-> post[b]] /\ \A b \in Posts : IsPost(post[b])
    BY DEF AnswersInv, DeliveryInv, StoreInv, PostInv, PostRecord, IsPost
  <2>2. PICK p \in Payload : Send(p) /\ a = <<p, tries[p] + 1>>
    <3>1. ASSUME NEW p \in Payload, Send(p) PROVE a = <<p, tries[p] + 1>>
      BY <1>2, <2>1, <3>1 DEF Send
    <3>2. ASSUME NEW b \in Posts, Serve(b) \/ Fail(b) PROVE FALSE
      <4>1. b = a
        BY <1>2, <2>1, <3>2 DEF Serve, Fail, Acquire, Statement, RunLog, RunLink, RunSpan,
             Wait, Refused, Commit, Reply, KillForDeadlock, RollBack
      <4>2. ASSUME NEW stage, post' = [post EXCEPT ![a] = Idle(stage)] PROVE post'[a].stage = stage
        BY <2>1, <4>2 DEF Idle
      <4>3. \A r : IsPost(r) => /\ [r EXCEPT !.waits = TRUE].stage = r.stage
                                /\ [r EXCEPT !.stage = "open"].stage = "open"
        BY DEF IsPost
      <4>4. CASE Acquire(a)
        BY <2>1, <4>3, <4>4 DEF Acquire
      <4>5. CASE Wait(a)
        BY <2>1, <4>3, <4>5 DEF Wait, Blockers, HasNext
      <4>6. CASE Statement(a)
        <5>1. post[a].stage = "open"
          BY <4>6 DEF Statement, HasNext
        <5>2. Ran(a).stage = "open" /\ IsPost(Ran(a))
          <6>1. post[a] \in PostRecord /\ post[a].done + 1 \in Nat
            BY DEF AnswersInv, DeliveryInv, StoreInv, PostInv, PostRecord
          <6>2. Ran(a) \in PostRecord /\ Ran(a).stage = "open"
            BY <5>1, <6>1 DEF Ran, PostRecord
          <6> QED
            BY <6>2 DEF PostRecord, IsPost
        <5>3. \A rows, marks : /\ [Ran(a) EXCEPT !.rows = rows].stage = "open"
                               /\ [Ran(a) EXCEPT !.marks = marks].stage = "open"
          BY <5>2 DEF IsPost
        <5> HIDE DEF IsPost
        <5> QED
          BY <2>1, <4>6, <5>2, <5>3 DEF Statement, RunLog, RunLink, RunSpan
      <4>7. CASE Commit(a)
        BY <4>2, <4>7 DEF Commit
      <4>8. CASE Reply(a)
        BY <4>2, <4>8 DEF Reply
      <4>9. CASE Refused(a) \/ KillForDeadlock(a) \/ Fail(a)
        BY <4>2, <4>9 DEF Refused, KillForDeadlock, Fail, RollBack
      <4> QED
        BY <3>2, <4>1, <4>4, <4>5, <4>6, <4>7, <4>8, <4>9 DEF Serve
    <3>3. ~Crash
      BY <1>2, <2>1 DEF Crash, Idle
    <3>4. \A p \in Payload : ~TimeOut(p)
      BY <1>2 DEF TimeOut
    <3>5. ~UNCHANGED vars
      BY <1>2 DEF vars
    <3> QED
      BY <3>1, <3>2, <3>3, <3>4, <3>5 DEF Next
  <2>3. post'[a] = Idle(Arrival(p)) /\ a[1] = p
    BY <2>1, <2>2 DEF Send
  <2>4. Arrival(p) = "denied"
    BY <2>3 DEF Idle
  <2>5. Status(RequestOf[p]) # 200
    BY <2>4 DEF Arrival
  <2> QED
    BY <2>3, <2>5, PayloadAssumption, StatusFacts
<1> QED
  BY <1>1, <1>2

(* Every step keeps what the answers rest on.                              *)
LEMMA AnswersKept == AnswersInv /\ [Next]_vars => AnswersInv'
<1> SUFFICES ASSUME AnswersInv, [Next]_vars PROVE AnswersInv'
  OBVIOUS
<1>1. DeliveryInv /\ DeliveryInv'
  BY InvKept DEF AnswersInv
<1>2. \A a \in Posts : post'[a].stage = "denied" => ~WellFormed(RequestOf[a[1]])
  BY DeniedForGood
<1>3. CASE \E a \in Posts : Commit(a)
  <2> PICK a \in Posts : Commit(a)
    BY <1>3
  <2>1. acked' = acked /\ dropped' = dropped
    BY DEF Commit
  <2>2. \A p \in acked' : Holding(logs', spans', map', p)
    BY <1>1, <2>1, HoldingStays DEF AnswersInv, DeliveryInv, CollectorTypes
  <2>3. WellFormed(RequestOf[a[1]])
    BY <1>1, CommitEffect DEF Acceptable
  <2>4. \A l \in LogIds : logs'[l] > 0 => WellFormed(RequestOf[l[1]])
    BY <2>3 DEF Commit, AnswersInv
  <2> QED
    BY <1>1, <1>2, <2>1, <2>2, <2>4 DEF AnswersInv
<1>4. CASE ~\E a \in Posts : Commit(a)
  <2>1. UNCHANGED <<logs, spans, map>>
    BY <1>4 DEF Next, Serve, Send, TimeOut, Acquire, Statement, Wait, Refused, Reply,
                KillForDeadlock, Fail, Crash, tables, vars
  <2>2. \/ UNCHANGED <<acked, dropped>>
        \/ \E a \in Posts : Reply(a)
    BY <1>4 DEF Next, Serve, Send, TimeOut, Acquire, Statement, Wait, Refused,
                KillForDeadlock, Fail, Crash, vars
  <2>3. ASSUME NEW a \in Posts, Reply(a)
        PROVE  /\ \A p \in acked' : Holding(logs, spans, map, p)
               /\ \A p \in dropped' : ~WellFormed(RequestOf[p])
    <3>1. /\ acked' \in {acked, acked \cup {a[1]}} /\ dropped' \in {dropped, dropped \cup {a[1]}}
          /\ acked' # acked => post[a].stage = "stored"
          /\ dropped' # dropped => post[a].stage = "denied"
      BY <2>3 DEF Reply
    <3>2. /\ post[a].stage = "stored" => Holding(logs, spans, map, a[1])
          /\ post[a].stage = "denied" => ~WellFormed(RequestOf[a[1]])
      BY <1>1 DEF AnswersInv, DeliveryInv, StoreInv, PostInv
    <3> QED
      BY <3>1, <3>2 DEF AnswersInv
  <2> QED
    BY <1>1, <1>2, <2>1, <2>2, <2>3 DEF AnswersInv
<1> QED
  BY <1>3, <1>4

(* What the collector was told is true, and stays so: of a payload that is *)
(* answered with 200 everything is in the tables from then on, and one     *)
(* answered with a 4xx had to be, and has left no row.                     *)
THEOREM AnswersHold == Spec => []AnswersAreTrue
<1>1. Init => AnswersInv
  <2> SUFFICES ASSUME Init PROVE AnswersInv
    OBVIOUS
  <2>1. acked = {} /\ dropped = {} /\ \A l \in LogIds : ~(logs[l] > 0)
    BY DEF Init
  <2>2. \A a \in Posts : post[a].stage # "denied"
    BY DEF Init, Idle
  <2> QED
    BY <2>1, <2>2, InvInitially DEF AnswersInv
<1>2. AnswersInv => AnswersAreTrue
  <2> SUFFICES ASSUME AnswersInv PROVE AnswersAreTrue
    OBVIOUS
  <2>1. ASSUME NEW p \in acked PROVE Delivery!Applied(p)
    BY SameRows, SameLinks DEF AnswersInv, Holding, Delivery!Applied
  <2>2. ASSUME NEW p \in dropped, NEW l \in LogIds, l[1] = p PROVE logs[l] = 0
    <3>1. ~(logs[l] > 0) /\ logs[l] \in Nat
      BY <2>2 DEF AnswersInv, DeliveryInv, StoreInv
    <3> QED
      BY <3>1
  <2> QED
    BY <2>1, <2>2 DEF AnswersInv, AnswersAreTrue
<1> QED
  BY <1>1, <1>2, AnswersKept, PTL DEF Spec

----------------------------------------------------------------------------
(* Types, and the promise.                                                 *)

(* Posts, connections, statements and tables are always of their types.    *)
THEOREM TypeCorrect == Spec => []TypeOK
BY InvInitially, InvKept, InvIsTyped, PTL DEF Spec

(* Whatever the interleaving, the lock waits, the deadlocks, the faults    *)
(* and the retries, the tables change only by whole payloads that had to   *)
(* be taken, and a payload is acknowledged only when the tables hold it.   *)
THEOREM AppliesAtomically == Spec => AppliedAtomically
<1>1. Init => Delivery!Init
  BY SameRows DEF Init, Delivery!Init
<1> QED
  BY <1>1, InvInitially, InvKept, StepsPromised, PTL DEF Spec, AppliedAtomically, Delivery!Spec
=============================================================================
