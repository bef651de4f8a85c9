------------------------- MODULE Journey_proofs ----------------------------
(***************************************************************************)
(* A record's way from the line that logs it to the page that shows it,    *)
(* for any number of threads, calls, names and traces, any records of      *)
(* other services that say what they are in the protocol's forms, however  *)
(* deep their values nest, and any order of delivery.                      *)
(*                                                                         *)
(* The claims about the answers follow from JourneyInv: the tables hold    *)
(* what was delivered (TablesInv), and what is delivered says what it is,  *)
(* because the baggage of a thread is that of the blocks it is in          *)
(* (ContextInv) and the parser reads every form of the protocol.           *)
(***************************************************************************)
EXTENDS Journey, ConversationMap_proofs, SequenceTheorems, FiniteSetTheorems, TLAPS

----------------------------------------------------------------------------
(* The client: what holds of the library in an application of any number   *)
(* of threads, whatever their calls ask for and however often they are     *)
(* made.                                                                   *)

(* A step that does nothing, or is one of these.                           *)
LEMMA ClientSteps ==
    ASSUME ClientTypeOK, [ClientNext]_clientVars,
           NEW P,
           UNCHANGED clientVars => P,
           AdkInstalls => P,
           ASSUME NEW t \in Thread, t \in DOMAIN left.ask, InitStep(t) \/ WorkStep(t) PROVE P
    PROVE  P
<1>1. DOMAIN left.ask \subseteq Thread
  BY DEF ClientTypeOK, Plan
<1> QED
  BY <1>1 DEF ClientNext

(* The counts of a plan may be spent; what it asks for stays.              *)
LEMMA SpendFacts ==
    ASSUME left \in Plan,
           NEW k \in {"adk", "enters", "spans", "logs", "faults"}, left[k] > 0
    PROVE  /\ Spend(k) \in Plan
           /\ Spend(k).ask = left.ask
           /\ Spend(k).env = left.env
           /\ Spend(k).logs = IF k = "logs" THEN left.logs - 1 ELSE left.logs
  BY DEF Spend, Plan

(* The client starts in a state of its types.                              *)
LEMMA ClientTypeInit == ASSUME ClientInit PROVE ClientTypeOK
<1>1. left \in Plan /\ env \in Endpoints \cup {Unset}
  BY ObservabilityAssumption DEF ClientInit, Plan
<1>2. /\ call \in [Thread -> Calls] /\ mine \in [Thread -> Provider \cup {Unset}]
      /\ target \in [Provider -> Endpoints \cup {Unset}]
      /\ \A t \in Thread : call[t] = "before"
  BY DEF ClientInit, Calls
<1>3. /\ handlers \in Seq(Handler)
      /\ tokens \in [Thread -> Seq(Context)] /\ frames \in [Thread -> Seq(Context)]
      /\ \A t \in Thread : Len(tokens[t]) = Len(frames[t])
  BY DEF ClientInit
<1>4. baggage \in [Thread -> Context] /\ span \in [Thread -> WorkSpan]
  <2>1. NoContext \in Context
    BY DEF NoContext, Context
  <2>2. NoWork \in WorkSpan
    BY <2>1 DEF NoWork, Started, WorkSpan
  <2> QED
    BY <2>1, <2>2 DEF ClientInit
<1> QED
  BY <1>1, <1>2, <1>3, <1>4 DEF ClientInit, ClientTypeOK

(* The blocks a thread is in say a conversation and a user, or none.       *)
LEMMA TruthType ==
    ASSUME ClientTypeOK, NEW t \in Thread
    PROVE  Truth(t) \in Context
<1>1. frames[t] \in Seq(Context)
  BY DEF ClientTypeOK
<1>2. \A i \in DOMAIN frames[t] : frames[t][i] \in Context
  BY <1>1
<1>3. UserOf(frames[t]) \in People \cup {Unset}
  <2> DEFINE naming == {i \in DOMAIN frames[t] : frames[t][i].user # Unset}
  <2> DEFINE n == CHOOSE i \in naming : \A j \in naming : j <= i
  <2>1. UserOf(frames[t]) = IF naming = {} THEN Unset ELSE frames[t][n].user
    BY DEF UserOf
  <2>2. CASE naming = {}
    BY <2>1, <2>2
  <2>3. CASE naming # {}
    <3>1. Len(frames[t]) \in Nat /\ naming \subseteq 0..Len(frames[t])
      BY <1>1
    <3>2. \E m \in naming : \A j \in naming : j <= m
      <4> HIDE DEF naming
      <4>1. PICK m \in naming : \A j \in naming : m >= j
        BY <2>3, <3>1, GreatestExists
      <4> QED
        BY <3>1, <4>1
    <3>3. n \in naming
      BY <3>2
    <3>4. frames[t][n] \in Context
      BY <1>2, <3>3
    <3> HIDE DEF n, naming
    <3> QED
      BY <2>1, <2>3, <3>4 DEF Context
  <2> QED
    BY <2>2, <2>3
<1>4. CASE frames[t] = <<>>
  BY <1>3, <1>4 DEF Truth, Context
<1>5. CASE frames[t] # <<>>
  <2>1. Last(frames[t]) \in Context
    BY <1>1, <1>5 DEF Last
  <2> QED
    BY <1>3, <1>5, <2>1 DEF Truth, Context
<1> QED
  BY <1>4, <1>5

(* Every kind of step keeps the types of the client's state.               *)
LEMMA ClientTypeInductive ==
    ASSUME ClientTypeOK, [ClientNext]_clientVars
    PROVE  ClientTypeOK'
<1>1. CASE UNCHANGED clientVars
  BY <1>1 DEF ClientTypeOK, clientVars, initVars, contextVars, outVars
<1>2. CASE AdkInstalls
  <2>1. left.adk > 0 /\ left' \in Plan
    BY <1>2, SpendFacts DEF AdkInstalls, ClientTypeOK
  <2> QED
    BY <1>2, <2>1 DEF AdkInstalls, ClientTypeOK, Provider, contextVars, outVars
<1>3. ASSUME NEW t \in Thread, t \in DOMAIN left.ask, InitStep(t) \/ WorkStep(t)
      PROVE  ClientTypeOK'
  <2>1. Unset \notin Provider /\ t \in Provider
    BY ObservabilityAssumption DEF Provider
  <2>2. CASE Configure(t)
    BY <2>2 DEF Configure, ClientTypeOK, Goto, Calls, contextVars, outVars
  <2>15. CASE SetDefault(t)
    <3>1. Endpoint(t) \in Endpoints \cup {Unset}
      BY <1>3 DEF ClientTypeOK, Plan, Endpoint, Asking
    <3> QED
      BY <2>15, <3>1 DEF SetDefault, ClientTypeOK, Goto, Calls, contextVars, outVars
  <2>3. CASE Check(t)
    BY <2>3 DEF Check, ClientTypeOK, Goto, Calls, contextVars, outVars
  <2>4. CASE FindProvider(t)
    <3>1. CASE provider # Unset
      <4>1. mine' = [mine EXCEPT ![t] = provider] /\ call' = [call EXCEPT ![t] = "attach"]
        BY <2>4, <3>1 DEF FindProvider, Goto
      <4>2. mine' \in [Thread -> Provider \cup {Unset}] /\ mine'[t] # Unset
        BY <3>1, <4>1 DEF ClientTypeOK
      <4>3. /\ call' \in [Thread -> Calls]
            /\ \A s \in Thread \ {t} : call'[s] = call[s] /\ mine'[s] = mine[s]
        BY <4>1 DEF ClientTypeOK, Calls
      <4> QED
        BY <2>4, <3>1, <4>2, <4>3 DEF FindProvider, ClientTypeOK, contextVars, outVars
    <3>2. CASE provider = Unset
      <4>1. target' \in [Provider -> Endpoints \cup {Unset}]
        BY <2>4, <2>1, <3>2 DEF FindProvider, ClientTypeOK
      <4>2. mine' = [mine EXCEPT ![t] = t] /\ call' = [call EXCEPT ![t] = "install"]
        BY <2>4, <3>2 DEF FindProvider, Goto
      <4>3. mine' \in [Thread -> Provider \cup {Unset}] /\ mine'[t] # Unset
        BY <2>1, <4>2 DEF ClientTypeOK
      <4>4. call' \in [Thread -> Calls] /\ \A s \in Thread \ {t} : call'[s] = call[s]
        BY <4>2 DEF ClientTypeOK, Calls
      <4>5. \A s \in Thread \ {t} : mine'[s] = mine[s]
        BY <4>2 DEF ClientTypeOK
      <4> QED
        BY <2>4, <3>2, <4>1, <4>3, <4>4, <4>5 DEF FindProvider, ClientTypeOK, Goto, Calls, contextVars, outVars
    <3> QED
      BY <3>1, <3>2
  <2>5. CASE InstallProvider(t)
    BY <2>5, <2>1 DEF InstallProvider, ClientTypeOK, Goto, Calls, contextVars, outVars
  <2>6. CASE Attach(t)
    <3>1. mine[t] \in Provider
      BY <2>6 DEF Attach, ClientTypeOK
    <3> QED
      BY <2>6, <3>1 DEF Attach, ClientTypeOK, Handler, Goto, Calls, contextVars, outVars
  <2>7. CASE Remember(t)
    BY <2>7 DEF Remember, ClientTypeOK, Goto, Calls, contextVars, outVars
  <2>8. CASE GiveUp(t)
    <3>1. left' \in Plan
      BY <2>8, SpendFacts DEF GiveUp, ClientTypeOK
    <3> QED
      BY <2>8, <3>1 DEF GiveUp, ClientTypeOK, Goto, Calls, contextVars, outVars
  <2>9. CASE CallAgain(t)
    BY <2>9 DEF CallAgain, ClientTypeOK, Goto, Calls, contextVars, outVars
  <2>10. ASSUME NEW c \in Names, NEW u \in People \cup {Unset}, Enter(t, c, u)
        PROVE  ClientTypeOK'
    <3>1. left' \in Plan
      BY <2>10, SpendFacts DEF Enter, ClientTypeOK
    <3>2. baggage' \in [Thread -> Context]
      BY <2>10 DEF Enter, ClientTypeOK, Context, Named
    <3>3. span' \in [Thread -> WorkSpan]
      <4>1. [conv |-> c, user |-> u] \in Context
        BY DEF Context
      <4> DEFINE w == span[t]
                 v == TagSpan(span[t], c, u)
      <4>2. w \in WorkSpan
        BY DEF ClientTypeOK
      <4>3. Append(w.entered, [conv |-> c, user |-> u]) \in Seq(Context)
        BY <4>1, <4>2 DEF WorkSpan
      <4>4. Named(u, w.user) \in People \cup {Unset}
        BY <4>2 DEF WorkSpan, Named
      <4>5. v \in WorkSpan
        BY <4>2, <4>3, <4>4 DEF WorkSpan, TagSpan
      <4>6. span' = [span EXCEPT ![t] = IF w.trace = Unset THEN w ELSE v]
        BY <2>10 DEF Enter
      <4> HIDE DEF w, v
      <4> QED
        BY <4>2, <4>5, <4>6 DEF ClientTypeOK
    <3>4. /\ tokens' \in [Thread -> Seq(Context)] /\ frames' \in [Thread -> Seq(Context)]
          /\ \A s \in Thread : Len(tokens'[s]) = Len(frames'[s])
      <4>1. baggage[t] \in Context /\ [conv |-> c, user |-> u] \in Context
        BY DEF ClientTypeOK, Context
      <4>2. /\ Append(tokens[t], baggage[t]) \in Seq(Context)
            /\ Len(Append(tokens[t], baggage[t])) = Len(tokens[t]) + 1
            /\ Append(frames[t], [conv |-> c, user |-> u]) \in Seq(Context)
            /\ Len(Append(frames[t], [conv |-> c, user |-> u])) = Len(frames[t]) + 1
        BY <4>1 DEF ClientTypeOK
      <4> QED
        BY <2>10, <4>2 DEF Enter, ClientTypeOK
    <3> QED
      BY <2>10, <3>1, <3>2, <3>3, <3>4 DEF Enter, ClientTypeOK, initVars, outVars
  <2>11. CASE Leave(t)
    <3>1. tokens[t] \in Seq(Context) /\ frames[t] \in Seq(Context)
          /\ Len(tokens[t]) = Len(frames[t]) /\ Len(frames[t]) > 0
      BY <2>11 DEF Leave, ClientTypeOK
    <3>2. /\ Last(tokens[t]) \in Context
          /\ Front(tokens[t]) \in Seq(Context) /\ Len(Front(tokens[t])) = Len(tokens[t]) - 1
          /\ Front(frames[t]) \in Seq(Context) /\ Len(Front(frames[t])) = Len(frames[t]) - 1
      BY <3>1 DEF Last, Front
    <3>3. /\ tokens' \in [Thread -> Seq(Context)] /\ frames' \in [Thread -> Seq(Context)]
          /\ \A s \in Thread : Len(tokens'[s]) = Len(frames'[s])
      BY <2>11, <3>1, <3>2 DEF Leave, ClientTypeOK
    <3> QED
      BY <2>11, <3>2, <3>3 DEF Leave, ClientTypeOK, initVars, outVars
  <2>12. ASSUME NEW x \in Work, StartSpan(t, x)
         PROVE  ClientTypeOK'
    <3>1. left' \in Plan
      BY <2>12, SpendFacts DEF StartSpan, ClientTypeOK
    <3>2. Started(x, Truth(t)) \in WorkSpan
      BY TruthType DEF Started, WorkSpan
    <3> QED
      BY <2>12, <3>1, <3>2 DEF StartSpan, ClientTypeOK, initVars, outVars
  <2>13. CASE EndSpan(t)
    <3>1. NoContext \in Context
      BY DEF NoContext, Context
    <3>2. NoWork \in WorkSpan
      BY <3>1 DEF NoWork, Started, WorkSpan
    <3>3. SpanExport(span[t]).kind = "span"
      BY DEF SpanExport
    <3> QED
      BY <2>13, <3>2, <3>3 DEF EndSpan, ClientTypeOK, initVars
  <2>14. CASE LogRecord(t)
    <3>1. left.logs \in Nat /\ left' \in Plan
      BY <2>14, SpendFacts DEF LogRecord, ClientTypeOK, Plan
    <3>2. \A e \in Copies(t) : e.id = left.logs
      BY DEF Copies, Copy
    <3>3. \A e \in exported' : e.kind = "log" => e.id \in Nat
      BY <2>14, <3>1, <3>2 DEF LogRecord, ClientTypeOK
    <3>4. \A p \in printed' : p.id \in Nat
      BY <2>14, <3>1 DEF LogRecord, ClientTypeOK
    <3> QED
      BY <2>14, <3>1, <3>3, <3>4 DEF LogRecord, ClientTypeOK, initVars, contextVars
  <2> QED
    BY <1>3, <2>2, <2>3, <2>4, <2>5, <2>6, <2>7, <2>8, <2>9, <2>10, <2>11, <2>12, <2>13, <2>14, <2>15
       DEF InitStep, WorkStep
<1> QED
  BY <1>1, <1>2, <1>3, ClientSteps

(* The types of the client's state hold throughout.                        *)
THEOREM ClientTypeCorrect == ClientSpec => []ClientTypeOK
<1>1. ClientInit => ClientTypeOK
  BY ClientTypeInit
<1>2. ClientTypeOK /\ [ClientNext]_clientVars => ClientTypeOK'
  BY ClientTypeInductive
<1> QED
  BY <1>1, <1>2, PTL DEF ClientSpec

----------------------------------------------------------------------------
(* The steps, by what they do to what is exported.                         *)

(* Nothing but a log record comes among the exported logs.                 *)
LEMMA WorkFacts ==
    ASSUME ClientTypeOK, NEW t \in Thread, WorkStep(t)
    PROVE  /\ UNCHANGED initVars
           /\ left'.ask = left.ask /\ left'.env = left.env /\ left'.logs <= left.logs
           /\ \/ ExportedLogs' = ExportedLogs /\ printed' = printed
              \/ LogRecord(t)
<1>1. left \in Plan /\ left.logs \in Nat
  BY DEF ClientTypeOK, Plan
<1>2. ASSUME NEW c \in Names, NEW u \in People \cup {Unset}, Enter(t, c, u)
      PROVE  /\ UNCHANGED <<initVars, exported, printed>>
             /\ left'.ask = left.ask /\ left'.env = left.env /\ left'.logs = left.logs
  BY <1>1, <1>2, SpendFacts DEF Enter, outVars
<1>3. ASSUME NEW x \in Work, StartSpan(t, x)
      PROVE  /\ UNCHANGED <<initVars, exported, printed>>
             /\ left'.ask = left.ask /\ left'.env = left.env /\ left'.logs = left.logs
  BY <1>1, <1>3, SpendFacts DEF StartSpan, outVars
<1>4. CASE Leave(t)
  BY <1>1, <1>4 DEF Leave, outVars, ExportedLogs
<1>5. CASE EndSpan(t)
  <2>1. SpanExport(span[t]).kind = "span"
    BY DEF SpanExport
  <2>2. ExportedLogs' = ExportedLogs
    BY <1>5, <2>1 DEF EndSpan, ExportedLogs
  <2> QED
    BY <1>1, <1>5, <2>2 DEF EndSpan
<1>6. CASE LogRecord(t)
  BY <1>1, <1>6, SpendFacts DEF LogRecord
<1> QED
  BY <1>1, <1>2, <1>3, <1>4, <1>5, <1>6 DEF WorkStep, ExportedLogs

(* A record is exported under an id that no record had before.             *)
LEMMA RecordFacts ==
    ASSUME ClientTypeOK, NEW t \in Thread, LogRecord(t)
    PROVE  /\ left.logs \in Nat /\ left'.logs = left.logs - 1
           /\ ExportedLogs' = ExportedLogs \cup Copies(t)
           /\ \A e \in Copies(t) : e.kind = "log" /\ e.id = left.logs
           /\ printed' = printed \cup {[id |-> left.logs, active |-> call[t] = "true"]}
<1>1. \A e \in Copies(t) : e.kind = "log" /\ e.id = left.logs
  BY DEF Copies, Copy
<1>2. left.logs \in Nat /\ left'.logs = left.logs - 1
  BY SpendFacts DEF LogRecord, ClientTypeOK, Plan
<1> QED
  BY <1>1, <1>2 DEF LogRecord, ExportedLogs

(* Setting up exports nothing.                                             *)
LEMMA SetUpFacts ==
    ASSUME ClientTypeOK, NEW t \in Thread, InitStep(t)
    PROVE  /\ ExportedLogs' = ExportedLogs /\ printed' = printed
           /\ left'.ask = left.ask /\ left'.env = left.env /\ left'.logs = left.logs
<1>1. CASE GiveUp(t)
  BY <1>1, SpendFacts DEF GiveUp, ClientTypeOK, outVars, ExportedLogs
<1> QED
  BY <1>1 DEF InitStep, Configure, SetDefault, Check, FindProvider, InstallProvider, Attach, Remember,
              CallAgain, outVars, ExportedLogs

(* The agent framework's provider exports nothing by itself.               *)
LEMMA AdkFacts ==
    ASSUME ClientTypeOK, AdkInstalls
    PROVE  /\ ExportedLogs' = ExportedLogs /\ printed' = printed
           /\ left'.ask = left.ask /\ left'.env = left.env /\ left'.logs = left.logs
  BY SpendFacts DEF AdkInstalls, ClientTypeOK, outVars, ExportedLogs

(* One handler more, behind the others, which scrubs if patterns are given.*)
LEMMA AttachFacts ==
    ASSUME ClientTypeOK, NEW t \in Thread, Attach(t)
    PROVE  \E h \in Handler :
              /\ h.provider = mine[t] /\ (h.scrubs <=> Patterns(t) = "good")
              /\ Len(handlers') = Len(handlers) + 1
              /\ handlers'[Len(handlers) + 1] = h
              /\ \A i \in 1..Len(handlers) : handlers'[i] = handlers[i]
<1> DEFINE h == [provider |-> mine[t], scrubs |-> Patterns(t) = "good"]
<1>1. mine[t] \in Provider
  BY DEF Attach, ClientTypeOK
<1>2. (Patterns(t) = "good") \in BOOLEAN
  BY Zenon
<1>3. h \in Handler
  BY <1>1, <1>2, Zenon DEF Handler
<1>4. h.provider = mine[t] /\ (h.scrubs <=> Patterns(t) = "good")
  BY Zenon
<1>5. handlers' = Append(handlers, h)
  BY Zenon DEF Attach
<1> HIDE DEF h
<1>6. /\ Len(handlers') = Len(handlers) + 1
      /\ handlers'[Len(handlers) + 1] = h
      /\ \A i \in 1..Len(handlers) : handlers'[i] = handlers[i]
  BY <1>3, <1>5 DEF ClientTypeOK
<1> QED
  BY <1>3, <1>4, <1>6

----------------------------------------------------------------------------
(* Every record of a thread whose call returned True is exported: the      *)
(* handler is attached before anything can say that it is.                 *)

BridgeInv ==
    /\ state # Unset => handlers # <<>>
    /\ \A t \in Thread : call[t] \in {"remember", "true"} => handlers # <<>>
    /\ ActiveBridgeExports

(* Every step of the client keeps BridgeInv.                               *)
LEMMA BridgeInductive ==
    ASSUME ClientTypeOK, BridgeInv, [ClientNext]_clientVars
    PROVE  BridgeInv'
<1>1. CASE UNCHANGED clientVars
  BY <1>1 DEF BridgeInv, ActiveBridgeExports, CopiesOf, ExportedLogs,
              clientVars, initVars, contextVars, outVars
<1>2. CASE AdkInstalls
  BY <1>2, AdkFacts DEF AdkInstalls, BridgeInv, ActiveBridgeExports, CopiesOf
<1>3. ASSUME NEW t \in Thread, t \in DOMAIN left.ask, InitStep(t) \/ WorkStep(t)
      PROVE  BridgeInv'
  <2>1. CASE InitStep(t)
    <3>1. ActiveBridgeExports'
      BY <2>1, SetUpFacts DEF BridgeInv, ActiveBridgeExports, CopiesOf
    <3>2. CASE Attach(t)
      <4>1. handlers' # <<>>
        BY <3>2, AttachFacts DEF ClientTypeOK
      <4> QED
        BY <3>1, <4>1 DEF BridgeInv
    <3>3. CASE ~Attach(t)
      <4>1. \A s \in Thread : call'[s] \in {"remember", "true"} =>
                handlers' = handlers /\ (call[s] \in {"remember", "true"} \/ state # Unset)
        BY <2>1, <3>3
           DEF InitStep, Configure, SetDefault, Check, FindProvider, InstallProvider, Remember, GiveUp,
               CallAgain, Goto, ClientTypeOK
      <4>2. handlers' = handlers /\ (state' = state \/ call[t] = "remember")
        BY <2>1, <3>3
           DEF InitStep, Configure, SetDefault, Check, FindProvider, InstallProvider, Remember, GiveUp, CallAgain
      <4> QED
        BY <3>1, <4>1, <4>2 DEF BridgeInv
    <3> QED
      BY <3>2, <3>3
  <2>2. CASE WorkStep(t)
    <3>1. UNCHANGED initVars
      BY <2>2, WorkFacts
    <3>2. CASE ExportedLogs' = ExportedLogs /\ printed' = printed
      BY <3>1, <3>2 DEF BridgeInv, ActiveBridgeExports, CopiesOf, initVars
    <3>3. CASE LogRecord(t)
      <4>1. \A id : CopiesOf(id) \subseteq CopiesOf(id)'
        BY <3>3, RecordFacts DEF CopiesOf
      <4>2. call[t] = "true" => \E e \in ExportedLogs' : e.id = left.logs
        <5> SUFFICES ASSUME call[t] = "true" PROVE \E e \in ExportedLogs' : e.id = left.logs
          OBVIOUS
        <5>1. 1 \in DOMAIN handlers
          BY DEF BridgeInv, ClientTypeOK
        <5>2. PICK e : e \in Copies(t)
          BY <5>1, Zenon DEF Copies
        <5> QED
          BY <3>3, <5>2, RecordFacts
      <4>3. ASSUME NEW p \in printed', p.active PROVE CopiesOf(p.id)' # {}
        <5>1. CASE p \in printed
          BY <4>1, <4>3, <5>1 DEF BridgeInv, ActiveBridgeExports
        <5>2. CASE p = [id |-> left.logs, active |-> call[t] = "true"]
          <6>1. p.id = left.logs /\ (p.active <=> call[t] = "true")
            BY <5>2, Zenon
          <6> QED
            BY <4>2, <4>3, <6>1 DEF CopiesOf
        <5> QED
          BY <3>3, <4>3, <5>1, <5>2, RecordFacts
      <4> QED
        BY <3>1, <4>3 DEF BridgeInv, ActiveBridgeExports, initVars
    <3> QED
      BY <2>2, <3>2, <3>3, WorkFacts
  <2> QED
    BY <1>3, <2>1, <2>2
<1> QED
  BY <1>1, <1>2, <1>3, ClientSteps

(* Once a call has returned True in a thread, every record the thread logs *)
(* is exported.                                                            *)
THEOREM BridgeExports == ClientSpec => []ActiveBridgeExports
<1>1. ClientInit => BridgeInv
  BY DEF ClientInit, BridgeInv, ActiveBridgeExports
<1>2. ClientTypeOK /\ BridgeInv /\ [ClientNext]_clientVars => BridgeInv'
  BY BridgeInductive
<1>3. BridgeInv => ActiveBridgeExports
  BY DEF BridgeInv
<1> QED
  BY <1>1, <1>2, <1>3, ClientTypeCorrect, PTL DEF ClientSpec

----------------------------------------------------------------------------
(* The records of a process go to one collector: whatever provider a       *)
(* thread, a handler or the SDK holds, it was made when the endpoint of    *)
(* the environment had been settled.  It is settled from the start, or     *)
(* once the first call has written its own, unless another call that had   *)
(* found none writes a different one over it.                              *)

Settled ==
    /\ \A t \in Thread : call[t] \notin {"before", "default", "false"} => env # Unset
    /\ provider # Unset => env # Unset /\ target[provider] = env
    /\ \A t \in Thread : mine[t] # Unset => env # Unset /\ target[mine[t]] = env
    /\ \A t \in Thread : call[t] = "install" => mine[t] = t
    /\ \A i \in 1..Len(handlers) : env # Unset /\ target[handlers[i].provider] = env
    /\ \A e \in ExportedLogs : env # Unset /\ e.to = env

DestinationInv ==
    /\ left.env # Unset => env = left.env /\ "endpoint" \notin overlap
    /\ \A t \in Thread : call[t] = "default" => Endpoint(t) # Unset /\ left.env = Unset
    /\ "endpoint" \notin overlap => Settled

(* Every step of the client keeps Settled, if it is not one of two calls   *)
(* that settle the endpoint differently.                                   *)
LEMMA SettledKept ==
    ASSUME ClientTypeOK, Settled, [ClientNext]_clientVars, "endpoint" \notin overlap',
           \A t \in Thread : call[t] = "default" => Endpoint(t) # Unset
    PROVE  Settled'
<1>1. Unset \notin Provider /\ Unset \notin Endpoints /\ Thread \subseteq Provider
  BY ObservabilityAssumption DEF Provider
<1>2. CASE UNCHANGED clientVars
  BY <1>2 DEF Settled, ExportedLogs, clientVars, initVars, contextVars, outVars
<1>3. CASE AdkInstalls
  BY <1>1, <1>3, AdkFacts DEF AdkInstalls, Settled, ClientTypeOK, Provider, Handler
<1>4. ASSUME NEW t \in Thread, t \in DOMAIN left.ask, InitStep(t) \/ WorkStep(t)
      PROVE  Settled'
  <2>1. CASE SetDefault(t)
    <3>1. ExportedLogs' = ExportedLogs
      BY <2>1, SetUpFacts DEF InitStep
    <3>2. env' = Endpoint(t) /\ env' # Unset /\ env \in {Unset, env'}
      BY <2>1 DEF SetDefault
    <3>3. /\ \A s \in Thread : call'[s] = IF s = t THEN "check" ELSE call[s]
          /\ UNCHANGED <<provider, target, handlers, mine>>
      BY <2>1 DEF SetDefault, Goto, ClientTypeOK
    <3>4. CASE env = Unset
      BY <3>1, <3>2, <3>3, <3>4 DEF Settled
    <3>5. CASE env = env'
      BY <3>1, <3>2, <3>3, <3>5 DEF Settled
    <3> QED
      BY <3>2, <3>4, <3>5
  <2>2. CASE FindProvider(t)
    <3>1. ExportedLogs' = ExportedLogs
      BY <2>2, SetUpFacts DEF InitStep
    <3>2. env # Unset
      BY <2>2 DEF FindProvider, Settled
    <3>3. CASE provider # Unset
      BY <2>2, <3>1, <3>2, <3>3 DEF FindProvider, Goto, Settled, ClientTypeOK
    <3>4. CASE provider = Unset
      <4>1. \A p \in Provider : target'[p] = IF p = t THEN env ELSE target[p]
        BY <1>1, <2>2, <3>4 DEF FindProvider, ClientTypeOK
      <4>2. /\ \A s \in Thread : mine'[s] = IF s = t THEN t ELSE mine[s]
            /\ \A s \in Thread : call'[s] = IF s = t THEN "install" ELSE call[s]
            /\ UNCHANGED <<env, provider, handlers>>
        BY <2>2, <3>4 DEF FindProvider, Goto, ClientTypeOK
      <4>3. \A i \in 1..Len(handlers) : handlers[i].provider \in Provider
        <5>1. \A h \in Handler : h.provider \in Provider
          BY DEF Handler
        <5>2. \A i \in 1..Len(handlers) : handlers[i] \in Handler
          BY DEF ClientTypeOK
        <5> QED
          BY <5>1, <5>2
      <4>4. \A s \in Thread : mine[s] # Unset => mine[s] \in Provider
        BY DEF ClientTypeOK
      <4>5. ASSUME NEW s \in Thread, mine'[s] # Unset
            PROVE  target'[mine'[s]] = env
        <5>1. CASE s = t
          BY <1>1, <4>1, <4>2, <5>1
        <5>2. CASE s # t
          <6>1. mine'[s] = mine[s] /\ mine[s] \in Provider /\ target[mine[s]] = env
            BY <4>2, <4>4, <4>5, <5>2 DEF Settled
          <6> QED
            BY <4>1, <6>1
        <5> QED
          BY <5>1, <5>2
      <4>6. \A i \in 1..Len(handlers) : target'[handlers[i].provider] = env
        BY <4>1, <4>3 DEF Settled
      <4> QED
        BY <3>1, <3>2, <3>4, <4>2, <4>5, <4>6 DEF Settled
    <3> QED
      BY <3>3, <3>4
  <2>3. CASE InstallProvider(t)
    <3>1. ExportedLogs' = ExportedLogs
      BY <2>3, SetUpFacts DEF InitStep
    <3>2. /\ \A s \in Thread : call'[s] = IF s = t THEN "attach" ELSE call[s]
          /\ UNCHANGED <<env, target, handlers, mine>>
      BY <2>3 DEF InstallProvider, Goto, ClientTypeOK
    <3>3. mine[t] = t /\ t # Unset /\ env # Unset /\ target[t] = env
      BY <1>1, <2>3 DEF InstallProvider, Settled
    <3>4. provider' \in {provider, t} /\ provider' # Unset /\ target[provider'] = env
      BY <2>3, <3>3 DEF InstallProvider, Settled
    <3> QED
      BY <3>1, <3>2, <3>3, <3>4 DEF Settled
  <2>4. CASE Attach(t)
    <3>1. PICK h \in Handler :
              /\ h.provider = mine[t]
              /\ Len(handlers') = Len(handlers) + 1
              /\ handlers'[Len(handlers) + 1] = h
              /\ \A i \in 1..Len(handlers) : handlers'[i] = handlers[i]
      BY <2>4, AttachFacts
    <3>2. mine[t] # Unset
      BY <2>4 DEF Attach, ClientTypeOK
    <3>3. \A i \in 1..Len(handlers') : i \in 1..Len(handlers) \/ i = Len(handlers) + 1
      BY <3>1 DEF ClientTypeOK
    <3>4. ExportedLogs' = ExportedLogs
      BY <2>4, SetUpFacts DEF InitStep
    <3>5. /\ \A s \in Thread : call'[s] = IF s = t THEN "remember" ELSE call[s]
          /\ UNCHANGED <<env, provider, target, mine>>
      BY <2>4 DEF Attach, Goto, ClientTypeOK
    <3>6. env # Unset /\ target[mine[t]] = env
      BY <3>2 DEF Settled
    <3>7. \A i \in 1..Len(handlers') : target[handlers'[i].provider] = env
      BY <3>1, <3>3, <3>6 DEF Settled
    <3> QED
      BY <3>4, <3>5, <3>6, <3>7 DEF Settled
  <2>7. CASE Configure(t)
    <3>1. ExportedLogs' = ExportedLogs
      BY <2>7, SetUpFacts DEF InitStep
    <3>2. /\ \A s \in Thread : s # t => call'[s] = call[s]
          /\ call'[t] = "check" => env # Unset
          /\ call'[t] \in {"check", "default", "false"}
          /\ UNCHANGED <<env, provider, target, handlers, mine>>
      BY <2>7 DEF Configure, Goto, ClientTypeOK
    <3>3. \A s \in Thread : /\ call'[s] \notin {"before", "default", "false"} => env # Unset
                            /\ call'[s] = "install" => mine[s] = s
      BY <3>2 DEF Settled
    <3> QED
      BY <3>1, <3>2, <3>3 DEF Settled
  <2>5. CASE Check(t) \/ Remember(t) \/ GiveUp(t) \/ CallAgain(t)
    BY <2>5, SetUpFacts
       DEF InitStep, Check, Remember, GiveUp, CallAgain, Goto, Settled, ClientTypeOK
  <2>6. CASE WorkStep(t)
    <3>1. UNCHANGED initVars
      BY <2>6, WorkFacts
    <3>2. CASE ExportedLogs' = ExportedLogs
      BY <3>1, <3>2 DEF Settled, initVars
    <3>3. CASE LogRecord(t)
      <4>1. \A e \in Copies(t) : env # Unset /\ e.to = env
        BY DEF Copies, Copy, Settled, ClientTypeOK
      <4> QED
        BY <3>1, <3>3, <4>1, RecordFacts DEF Settled, initVars
    <3> QED
      BY <2>6, <3>2, <3>3, WorkFacts
  <2> QED
    BY <1>4, <2>1, <2>2, <2>3, <2>4, <2>5, <2>6, <2>7 DEF InitStep
<1> QED
  BY <1>2, <1>3, <1>4, ClientSteps

(* Every step of the client keeps DestinationInv.                          *)
LEMMA DestinationInductive ==
    ASSUME ClientTypeOK, DestinationInv, [ClientNext]_clientVars
    PROVE  DestinationInv'
<1> DEFINE Kept ==
      /\ left'.ask = left.ask /\ left'.env = left.env
      /\ "endpoint" \notin overlap' => "endpoint" \notin overlap
      /\ left.env # Unset => UNCHANGED env /\ "endpoint" \notin overlap'
      /\ \A t \in Thread : call'[t] = "default" =>
             call[t] = "default" \/ (Endpoint(t) # Unset /\ env = Unset)
<1>1. Kept
  <2>1. CASE UNCHANGED clientVars
    BY <2>1 DEF DestinationInv, clientVars, initVars
  <2>2. CASE AdkInstalls
    BY <2>2, AdkFacts DEF AdkInstalls, DestinationInv
  <2>3. ASSUME NEW t \in Thread, t \in DOMAIN left.ask, InitStep(t) \/ WorkStep(t)
        PROVE  Kept
    <3>1. left'.ask = left.ask /\ left'.env = left.env
      BY <2>3, SetUpFacts, WorkFacts
    <3>2. CASE WorkStep(t)
      BY <3>1, <3>2, WorkFacts DEF DestinationInv, initVars
    <3>3. CASE SetDefault(t)
      BY <3>1, <3>3 DEF SetDefault, Goto, DestinationInv, ClientTypeOK
    <3>4. CASE InitStep(t) /\ ~SetDefault(t)
      <4>1. UNCHANGED env /\ ("endpoint" \in overlap' <=> "endpoint" \in overlap)
        BY <3>4 DEF InitStep, Configure, Check, FindProvider, InstallProvider, Attach, Remember,
                    GiveUp, CallAgain
      <4>2. \A s \in Thread : call'[s] = "default" =>
                call[s] = "default" \/ (Endpoint(s) # Unset /\ env = Unset)
        BY <3>4 DEF InitStep, Configure, Check, FindProvider, InstallProvider, Attach, Remember,
                    GiveUp, CallAgain, Goto, ClientTypeOK
      <4> QED
        BY <3>1, <4>1, <4>2 DEF DestinationInv
    <3> QED
      BY <2>3, <3>2, <3>3, <3>4
  <2> HIDE DEF Kept
  <2> QED
    BY <2>1, <2>2, <2>3, ClientSteps
<1>2. \A t \in Thread : Endpoint(t)' = Endpoint(t)
  BY <1>1 DEF Endpoint
<1>3. "endpoint" \notin overlap' => Settled'
  BY <1>1, SettledKept DEF DestinationInv
<1> QED
  BY <1>1, <1>2, <1>3 DEF DestinationInv

(* Every record a process exports goes to the collector that the           *)
(* environment named from the start; if it named none, to one collector,   *)
(* unless two calls that name different ones found none there at once.     *)
THEOREM Destination == ClientSpec => []OneDestination
<1>1. ClientInit => DestinationInv
  BY DEF ClientInit, DestinationInv, Settled, ExportedLogs
<1>2. ClientTypeOK /\ DestinationInv /\ [ClientNext]_clientVars => DestinationInv'
  BY DestinationInductive
<1>3. DestinationInv => OneDestination
  BY DEF DestinationInv, Settled, OneDestination
<1> QED
  BY <1>1, <1>2, <1>3, ClientTypeCorrect, PTL DEF ClientSpec
----------------------------------------------------------------------------
(* No message leaves with its secret where all calls ask for patterns: a   *)
(* handler is never attached without them.                                 *)

ScrubInv ==
    AllAskForPatterns =>
        /\ \A i \in 1..Len(handlers) : handlers[i].scrubs
        /\ \A e \in ExportedLogs : "message" \notin e.secret

(* Every step of the client keeps ScrubInv.                                *)
LEMMA ScrubInductive ==
    ASSUME ClientTypeOK, ScrubInv, [ClientNext]_clientVars
    PROVE  ScrubInv'
<1>1. CASE UNCHANGED clientVars
  BY <1>1 DEF ScrubInv, AllAskForPatterns, Patterns, ExportedLogs, clientVars, initVars, contextVars, outVars
<1>2. CASE AdkInstalls
  BY <1>2, AdkFacts DEF AdkInstalls, ScrubInv, AllAskForPatterns, Patterns
<1>3. ASSUME NEW t \in Thread, t \in DOMAIN left.ask, InitStep(t) \/ WorkStep(t)
      PROVE  ScrubInv'
  <2>1. CASE Attach(t)
    <3>1. ExportedLogs' = ExportedLogs /\ (AllAskForPatterns' <=> AllAskForPatterns)
      BY <2>1, SetUpFacts DEF InitStep, AllAskForPatterns, Patterns
    <3>2. AllAskForPatterns => Patterns(t) = "good"
      BY <1>3, <2>1 DEF AllAskForPatterns, Attach, Patterns, ClientTypeOK, Plan, Asking
    <3>3. PICK h \in Handler :
              /\ h.scrubs <=> Patterns(t) = "good"
              /\ Len(handlers') = Len(handlers) + 1
              /\ handlers'[Len(handlers) + 1] = h
              /\ \A i \in 1..Len(handlers) : handlers'[i] = handlers[i]
      BY <2>1, AttachFacts
    <3>4. \A i \in 1..Len(handlers') : i \in 1..Len(handlers) \/ i = Len(handlers) + 1
      BY <3>3 DEF ClientTypeOK
    <3>5. AllAskForPatterns => \A i \in 1..Len(handlers') : handlers'[i].scrubs
      BY <3>2, <3>3, <3>4 DEF ScrubInv
    <3> QED
      BY <3>1, <3>5 DEF ScrubInv
  <2>2. CASE InitStep(t) /\ ~Attach(t)
    <3>1. handlers' = handlers
      BY <2>2 DEF InitStep, Configure, SetDefault, Check, FindProvider, InstallProvider, Remember, GiveUp, CallAgain
    <3> QED
      BY <2>2, <3>1, SetUpFacts DEF ScrubInv, AllAskForPatterns, Patterns
  <2>3. CASE WorkStep(t)
    <3>1. handlers' = handlers /\ (AllAskForPatterns' <=> AllAskForPatterns)
      BY <2>3, WorkFacts DEF initVars, AllAskForPatterns, Patterns
    <3>2. CASE ExportedLogs' = ExportedLogs
      BY <3>1, <3>2 DEF ScrubInv
    <3>3. CASE LogRecord(t)
      <4>1. ASSUME AllAskForPatterns, NEW e \in Copies(t) PROVE "message" \notin e.secret
        <5>1. PICK i \in DOMAIN handlers : e = Copy(t, i)
          BY Zenon DEF Copies
        <5>2. e.secret = {"extra"} \cup
                    (IF \E j \in 1..i : handlers[j].scrubs THEN {} ELSE {"message"})
          BY <5>1, Zenon DEF Copy
        <5>3. i \in 1..Len(handlers) /\ i \in 1..i
          BY DEF ClientTypeOK
        <5> QED
          BY <4>1, <5>2, <5>3 DEF ScrubInv
      <4> QED
        BY <3>1, <3>3, <4>1, RecordFacts DEF ScrubInv
    <3> QED
      BY <2>3, <3>2, <3>3, WorkFacts
  <2> QED
    BY <1>3, <2>1, <2>2, <2>3
<1> QED
  BY <1>1, <1>2, <1>3, ClientSteps

(* If every call asks for patterns, no record leaves with its secret in    *)
(* the message, whatever fails and however many handlers are attached.     *)
(* What else a record is given is not scrubbed.                            *)
THEOREM Scrubbed == ClientSpec => []MessagesLeaveScrubbed
<1>1. ClientInit => ScrubInv
  BY DEF ClientInit, ScrubInv, ExportedLogs
<1>2. ClientTypeOK /\ ScrubInv /\ [ClientNext]_clientVars => ScrubInv'
  BY ScrubInductive
<1>3. ScrubInv => MessagesLeaveScrubbed
  BY DEF ScrubInv, MessagesLeaveScrubbed
<1> QED
  BY <1>1, <1>2, <1>3, ClientTypeCorrect, PTL DEF ClientSpec

----------------------------------------------------------------------------
(* One copy of a record, as long as no two calls set the bridge up at      *)
(* once: a handler is attached only where there is none, and the one that  *)
(* is there is remembered or about to be.                                  *)

SettingUp == {"find", "install", "attach", "remember"}

Alone ==
    /\ \A t, u \in Thread : call[t] \in SettingUp /\ call[u] \in SettingUp => t = u
    /\ \A t \in Thread : call[t] \in {"find", "install", "attach"} => handlers = <<>>
    /\ Len(handlers) <= 1
    /\ handlers # <<>> => state # Unset \/ \E t \in Thread : call[t] = "remember"

OneCopyInv ==
    /\ \A e \in ExportedLogs : e.id \in Nat /\ e.id > left.logs
    /\ "handler" \notin overlap => Alone /\ \A d, e \in ExportedLogs : d.id = e.id => d = e

(* A thread sets up alone: of the threads that do, there was none when it  *)
(* passed the test, and none passes the test meanwhile.                    *)
LEMMA AloneKept ==
    ASSUME ClientTypeOK, NEW t \in Thread, InitStep(t), "handler" \notin overlap', "handler" \notin overlap => Alone
    PROVE  "handler" \notin overlap /\ Alone'
<1>1. CASE Check(t)
  <2>1. "handler" \notin overlap /\ (state = Unset => \A u \in Thread : u # t => call[u] \notin SettingUp)
    BY <1>1 DEF Check, ClientTypeOK, SettingUp
  <2>2. /\ UNCHANGED <<handlers, state>> /\ call[t] = "check"
        /\ \A s \in Thread : call'[s] =
              IF s = t THEN (IF state # Unset THEN "true" ELSE "find") ELSE call[s]
    BY <1>1 DEF Check, Goto, ClientTypeOK
  <2>3. state = Unset => handlers = <<>>
    <3> SUFFICES ASSUME state = Unset, handlers # <<>> PROVE FALSE
      OBVIOUS
    <3>1. PICK u \in Thread : call[u] = "remember"
      BY <2>1 DEF Alone
    <3> QED
      BY <2>1, <2>2, <3>1 DEF SettingUp
  <2> QED
    BY <2>1, <2>2, <2>3 DEF Alone, SettingUp
<1>2. CASE Attach(t)
  <2>1. /\ "handler" \notin overlap /\ handlers = <<>> /\ call[t] \in SettingUp
        /\ \A s \in Thread : call'[s] = IF s = t THEN "remember" ELSE call[s]
    BY <1>2 DEF Attach, Goto, Alone, ClientTypeOK, SettingUp
  <2>2. Len(handlers') = 1
    BY <1>2, <2>1, AttachFacts
  <2> QED
    BY <2>1, <2>2 DEF Alone, SettingUp
<1>3. CASE Remember(t)
  <2>1. /\ "handler" \notin overlap /\ call[t] \in SettingUp /\ handlers' = handlers /\ state' # Unset
        /\ \A s \in Thread : call'[s] = IF s = t THEN "true" ELSE call[s]
    BY <1>3, ObservabilityAssumption DEF Remember, Goto, ClientTypeOK, SettingUp
  <2> QED
    BY <2>1 DEF Alone, SettingUp
<1>4. CASE Configure(t) \/ SetDefault(t) \/ FindProvider(t) \/ InstallProvider(t) \/ GiveUp(t) \/ CallAgain(t)
  <2>1. /\ "handler" \notin overlap /\ UNCHANGED <<handlers, state>> /\ call[t] # "remember"
        /\ \A s \in Thread : s # t => call'[s] = call[s]
        /\ call'[t] # "remember"
        /\ call'[t] \in SettingUp => call[t] \in {"find", "install", "attach"}
    BY <1>4 DEF Configure, SetDefault, FindProvider, InstallProvider, GiveUp, CallAgain, Goto, ClientTypeOK, SettingUp
  <2>2. \A s \in Thread : call'[s] \in SettingUp => call[s] \in SettingUp
    BY <2>1 DEF SettingUp
  <2>3. \A s \in Thread : call'[s] \in {"find", "install", "attach"} =>
            call[s] \in {"find", "install", "attach"}
    BY <2>1 DEF SettingUp
  <2>4. \A s \in Thread : call[s] = "remember" => call'[s] = "remember"
    BY <2>1
  <2> QED
    BY <2>1, <2>2, <2>3, <2>4 DEF Alone
<1> QED
  BY <1>1, <1>2, <1>3, <1>4 DEF InitStep

(* Every step of the client keeps OneCopyInv.                              *)
LEMMA OneCopyInductive ==
    ASSUME ClientTypeOK, OneCopyInv, [ClientNext]_clientVars
    PROVE  OneCopyInv'
<1>1. CASE UNCHANGED clientVars
  BY <1>1 DEF OneCopyInv, Alone, ExportedLogs, clientVars, initVars, contextVars, outVars
<1>2. CASE AdkInstalls
  BY <1>2, AdkFacts DEF AdkInstalls, OneCopyInv, Alone
<1>3. ASSUME NEW t \in Thread, t \in DOMAIN left.ask, InitStep(t) \/ WorkStep(t)
      PROVE  OneCopyInv'
  <2>1. CASE InitStep(t)
    BY <2>1, AloneKept, SetUpFacts DEF OneCopyInv
  <2>2. CASE WorkStep(t)
    <3>1. UNCHANGED initVars /\ left'.logs <= left.logs /\ left.logs \in Nat /\ left'.logs \in Nat
      <4>1. left'.logs \in Nat
        BY <2>2, SpendFacts DEF WorkStep, Enter, Leave, StartSpan, EndSpan, LogRecord, ClientTypeOK, Plan
      <4> QED
        BY <2>2, <4>1, WorkFacts DEF ClientTypeOK, Plan
    <3>2. Alone => Alone'
      BY <3>1 DEF Alone, initVars
    <3>3. CASE ExportedLogs' = ExportedLogs
      BY <3>1, <3>2, <3>3 DEF OneCopyInv, initVars
    <3>4. CASE LogRecord(t)
      <4>1. \A e \in ExportedLogs' : e.id \in Nat /\ e.id > left'.logs
        BY <3>1, <3>4, RecordFacts DEF OneCopyInv
      <4>2. ASSUME Alone, NEW d \in Copies(t), NEW e \in Copies(t) PROVE d = e
        <5>1. \A i \in DOMAIN handlers : i = 1
          BY <4>2 DEF Alone, ClientTypeOK
        <5> QED
          BY <5>1, Zenon DEF Copies
      <4>3. \A d \in ExportedLogs, e \in Copies(t) : d.id # e.id
        BY <3>1, <3>4, RecordFacts DEF OneCopyInv
      <4>4. "handler" \notin overlap => \A d, e \in ExportedLogs' : d.id = e.id => d = e
        BY <3>4, <4>2, <4>3, RecordFacts DEF OneCopyInv
      <4> QED
        BY <3>1, <3>2, <4>1, <4>4 DEF OneCopyInv, initVars
    <3> QED
      BY <2>2, <3>3, <3>4, WorkFacts
  <2> QED
    BY <1>3, <2>1, <2>2
<1> QED
  BY <1>1, <1>2, <1>3, ClientSteps

(* At most one copy, while nobody overlapped.                              *)
LEMMA OneCopyFollows ==
    ASSUME OneCopyInv
    PROVE  OneCopyWithoutOverlap
<1> SUFFICES ASSUME "handler" \notin overlap, NEW p \in printed
             PROVE  Cardinality(CopiesOf(p.id)) <= 1
  BY DEF OneCopyWithoutOverlap
<1>1. CopiesOf(p.id) = {} \/ \E e : CopiesOf(p.id) = {e}
  BY DEF OneCopyInv, CopiesOf
<1>2. CASE CopiesOf(p.id) = {}
  BY <1>2, FS_EmptySet
<1>3. CASE \E e : CopiesOf(p.id) = {e}
  <2>1. PICK e : CopiesOf(p.id) = {e}
    BY <1>3
  <2>2. Cardinality({e}) = 1
    BY FS_Singleton
  <2> QED
    BY <2>1, <2>2
<1> QED
  BY <1>1, <1>2, <1>3

(* A record is exported at most once unless two calls were inside the      *)
(* set-up at once, calls that fail and are made again included.            *)
THEOREM OneCopy == ClientSpec => []OneCopyWithoutOverlap
<1>1. ClientInit => OneCopyInv
  BY DEF ClientInit, OneCopyInv, Alone, SettingUp, ExportedLogs
<1>2. ClientTypeOK /\ OneCopyInv /\ [ClientNext]_clientVars => OneCopyInv'
  BY OneCopyInductive
<1>3. OneCopyInv => OneCopyWithoutOverlap
  BY OneCopyFollows
<1> QED
  BY <1>1, <1>2, <1>3, ClientTypeCorrect, PTL DEF ClientSpec

(* The end of the process keeps the types of the client's state.           *)
LEMMA ExitType ==
    ASSUME ClientTypeOK, Exit
    PROVE  ClientTypeOK'
<1>1. left' \in Plan
  BY DEF Exit, ClientTypeOK, Plan
<1>2. /\ target' \in [Provider -> Endpoints \cup {Unset}] /\ handlers' \in Seq(Handler)
      /\ call' \in [Thread -> Calls] /\ mine' \in [Thread -> Provider \cup {Unset}]
      /\ \A t \in Thread : call'[t] = "before"
  BY DEF Exit, Calls
<1> QED
  BY <1>1, <1>2 DEF Exit, ClientTypeOK, contextVars

(* What is claimed of the records outlives the process.                    *)
LEMMA ExitFacts ==
    ASSUME ClientTypeOK, Exit
    PROVE  /\ ActiveBridgeExports' /\ OneCopyWithoutOverlap'
           /\ OneDestination => OneDestination'
           /\ MessagesLeaveScrubbed => MessagesLeaveScrubbed'
<1>1. left'.ask = left.ask /\ left'.env = left.env
  BY DEF Exit, ClientTypeOK, Plan
<1>2. printed' = {} /\ overlap' = overlap /\ ExportedLogs' = ExportedLogs
  BY DEF Exit, ExportedLogs
<1> QED
  BY <1>1, <1>2 DEF ActiveBridgeExports, OneCopyWithoutOverlap, OneDestination,
                    MessagesLeaveScrubbed, AllAskForPatterns, Patterns

----------------------------------------------------------------------------
(* What a log says is what the blocks it is logged in name: the baggage of *)
(* a thread is that of its conversations, and every token leads back to    *)
(* the one before its conversation was entered.  What a span says is what  *)
(* was entered under it: the last conversation, and a user, if any was     *)
(* named.                                                                  *)

ContextOf(fs) ==
    [conv |-> IF fs = <<>> THEN Unset ELSE Last(fs).conv, user |-> UserOf(fs)]

WellTagged(w) ==
    /\ w.conv = TagOf(w)
    /\ IF NamedUsers(w) = {} THEN w.user = Unset ELSE w.user \in NamedUsers(w)

Faithful(e) ==
    /\ e.conv \in Names \cup {Unset} /\ e.user \in People \cup {Unset}
    /\ \/ /\ e.kind = "log" /\ e.trace \in Work \cup {Unset}
          /\ e.truth.conv = e.conv /\ e.truth.user = e.user
       \/ /\ e.kind = "span" /\ e.trace \in Work
          /\ WellTagged(e) /\ e.entered \in Seq(Context)

ContextInv ==
    /\ \A t \in Thread : baggage[t] = ContextOf(frames[t])
    /\ \A t \in Thread : \A i \in 1..Len(tokens[t]) :
           tokens[t][i] = ContextOf(SubSeq(frames[t], 1, i - 1))
    /\ \A t \in Thread : span[t].trace = Unset => span[t] = NoWork
    /\ \A t \in Thread : WellTagged(span[t])
    /\ \A e \in exported : Faithful(e)

Innermost(S) == CHOOSE i \in S : \A j \in S : j <= i

(* One block more names its conversation, and its user if it names one.    *)
LEMMA ContextOneMore ==
    ASSUME NEW fs \in Seq(Context), NEW f \in Context
    PROVE  ContextOf(Append(fs, f)) = [conv |-> f.conv, user |-> Named(f.user, UserOf(fs))]
<1> DEFINE more == Append(fs, f)
           n == Len(fs)
           naming(s) == {i \in DOMAIN s : s[i].user # Unset}
<1>1. /\ n \in Nat /\ DOMAIN fs = 1..n /\ DOMAIN more = 1..(n + 1) /\ Len(more) = n + 1
      /\ \A i \in 1..n : more[i] = fs[i]
      /\ more[n + 1] = f /\ more # <<>>
  OBVIOUS
<1>2. Last(more).conv = f.conv
  BY <1>1 DEF Last
<1> HIDE DEF more, n
<1> DEFINE inner(s) == Innermost(naming(s))
<1>3. \A s : UserOf(s) = IF naming(s) = {} THEN Unset ELSE s[inner(s)].user
  BY DEF UserOf, Innermost
<1>4. UserOf(more) = Named(f.user, UserOf(fs))
  <2>1. naming(more) = IF f.user = Unset THEN naming(fs) ELSE naming(fs) \cup {n + 1}
    BY <1>1
  <2>2. CASE f.user # Unset
    <3>1. n + 1 \in naming(more) /\ \A j \in naming(more) : j <= n + 1
      BY <1>1, <2>1, <2>2
    <3>2. \A i \in naming(more) : (\A j \in naming(more) : j <= i) => i = n + 1
      BY <1>1, <3>1
    <3>3. inner(more) = n + 1
      BY <3>1, <3>2 DEF Innermost
    <3> QED
      BY <1>1, <1>3, <2>2, <3>1, <3>3 DEF Named
  <2>3. CASE f.user = Unset
    <3>1. naming(more) = naming(fs)
      BY <2>1, <2>3
    <3>2. CASE naming(fs) = {}
      BY <1>3, <2>3, <3>1, <3>2 DEF Named
    <3>3. CASE naming(fs) # {}
      <4>1. \E i \in naming(fs) : \A j \in naming(fs) : j <= i
        <5>1. naming(fs) \subseteq Nat /\ \A i \in naming(fs) : i <= n
          BY <1>1
        <5> HIDE DEF naming
        <5> QED
          BY <1>1, <3>3, <5>1, GreatestExists
      <4>2. inner(fs) \in naming(fs) /\ inner(more) = inner(fs)
        BY <3>1, <4>1 DEF Innermost
      <4>3. more[inner(fs)] = fs[inner(fs)]
        BY <1>1, <4>2
      <4> HIDE DEF naming
      <4> QED
        BY <1>3, <2>3, <3>1, <3>3, <4>2, <4>3 DEF Named
    <3> QED
      BY <3>2, <3>3
  <2> QED
    BY <2>2, <2>3
<1> QED
  BY <1>1, <1>2, <1>4 DEF ContextOf, more

(* One element more, at the end.                                           *)
LEMMA OneMore ==
    ASSUME NEW S, NEW s \in Seq(S), NEW x \in S
    PROVE  /\ Append(s, x) \in Seq(S) /\ Len(Append(s, x)) = Len(s) + 1
           /\ \A i \in 1..Len(s) : Append(s, x)[i] = s[i]
           /\ Append(s, x)[Len(s) + 1] = x
  OBVIOUS

(* A prefix of what is one longer is a prefix of what was there.           *)
LEMMA PrefixOneMore ==
    ASSUME NEW fs \in Seq(Context), NEW f \in Context, NEW i \in 0..Len(fs)
    PROVE  SubSeq(Append(fs, f), 1, i) = SubSeq(fs, 1, i)
  OBVIOUS

(* A prefix of a prefix, and the elements of one.                          *)
LEMMA PrefixOfPrefix ==
    ASSUME NEW fs \in Seq(Context), NEW n \in 0..Len(fs)
    PROVE  /\ SubSeq(fs, 1, n) \in Seq(Context) /\ Len(SubSeq(fs, 1, n)) = n
           /\ \A i \in 1..n : SubSeq(fs, 1, n)[i] = fs[i]
           /\ \A i \in 0..n : SubSeq(SubSeq(fs, 1, n), 1, i) = SubSeq(fs, 1, i)
  OBVIOUS

(* A sequence is all of its prefix.                                        *)
LEMMA WholePrefix ==
    ASSUME NEW fs \in Seq(Context)
    PROVE  SubSeq(fs, 1, Len(fs)) = fs
  OBVIOUS

(* A record is exported as the baggage says, and the baggage is the truth. *)
LEMMA CopiesFaithful ==
    ASSUME ClientTypeOK, ContextInv, NEW t \in Thread
    PROVE  \A e \in Copies(t) : Faithful(e)
<1>1. /\ baggage[t] = ContextOf(frames[t]) /\ Truth(t) = ContextOf(frames[t])
  BY DEF ContextInv, Truth, ContextOf
<1>2. /\ baggage[t].conv \in Names \cup {Unset} /\ baggage[t].user \in People \cup {Unset}
      /\ span[t].trace \in Work \cup {Unset}
  BY DEF ClientTypeOK, Context, WorkSpan
<1>3. ASSUME NEW i \in DOMAIN handlers
      PROVE  LET e == Copy(t, i)
             IN  e.kind = "log" /\ e.trace = span[t].trace /\ e.conv = baggage[t].conv
                 /\ e.user = baggage[t].user /\ e.truth = Truth(t)
  BY Zenon DEF Copy
<1>4. ASSUME NEW i \in DOMAIN handlers PROVE Faithful(Copy(t, i))
  BY <1>1, <1>2, <1>3 DEF Faithful
<1> QED
  BY <1>4, Zenon DEF Copies

(* A conversation that is entered under a span tags it.                    *)
LEMMA TagOneMore ==
    ASSUME NEW w \in WorkSpan, WellTagged(w), NEW f \in Context, NEW v,
           v.conv = f.conv, v.user = Named(f.user, w.user), v.entered = Append(w.entered, f)
    PROVE  WellTagged(v)
<1> DEFINE es == w.entered
           n == Len(w.entered)
<1>1. es \in Seq(Context) /\ n \in Nat
  BY DEF WorkSpan
<1> HIDE DEF es
<1>2. /\ Append(es, f) # <<>> /\ Len(Append(es, f)) = n + 1 /\ DOMAIN Append(es, f) = 1..(n + 1)
      /\ DOMAIN es = 1..n
      /\ Append(es, f)[n + 1] = f /\ \A i \in 1..n : Append(es, f)[i] = es[i]
  BY <1>1 DEF es
<1>3. v.entered = Append(es, f)
  BY DEF es
<1>4. TagOf(v) = f.conv
  BY <1>2, <1>3 DEF TagOf
<1>5. NamedUsers(v) = (NamedUsers(w) \cup {f.user}) \ {NoUser}
  <2>1. {v.entered[i].user : i \in DOMAIN v.entered} = {es[i].user : i \in DOMAIN es} \cup {f.user}
    <3>1. 1..(n + 1) = 1..n \cup {n + 1}
      BY <1>1
    <3> QED
      BY <1>2, <1>3, <3>1
  <2> QED
    BY <2>1 DEF NamedUsers, es
<1>6. NoUser = Unset /\ NoUser \notin NamedUsers(w)
  BY JourneyAssumption DEF NamedUsers
<1> QED
  BY <1>4, <1>5, <1>6 DEF WellTagged, Named

(* A span is started untagged.                                             *)
LEMMA StartedUntagged ==
    ASSUME NEW x, NEW context
    PROVE  WellTagged(Started(x, context))
<1>1. NamedUsers(Started(x, context)) = {}
  BY DEF NamedUsers, Started
<1>2. TagOf(Started(x, context)) = Unset
  BY JourneyAssumption DEF TagOf, Started
<1> QED
  BY <1>1, <1>2 DEF WellTagged, Started

(* Every step of the client keeps ContextInv.                              *)
LEMMA ContextInductive ==
    ASSUME ClientTypeOK, ContextInv, [ClientNext]_clientVars
    PROVE  ContextInv'
<1>1. CASE UNCHANGED clientVars
  BY <1>1 DEF ContextInv, clientVars, contextVars, outVars
<1>2. CASE AdkInstalls
  BY <1>2 DEF AdkInstalls, ContextInv, contextVars, outVars
<1>3. ASSUME NEW t \in Thread, t \in DOMAIN left.ask, InitStep(t) \/ WorkStep(t)
      PROVE  ContextInv'
  <2>1. CASE InitStep(t)
    BY <2>1 DEF InitStep, Configure, SetDefault, Check, FindProvider, InstallProvider, Attach, Remember,
                GiveUp, CallAgain, ContextInv, contextVars, outVars
  <2>2. ASSUME NEW c \in Names, NEW u \in People \cup {Unset}, Enter(t, c, u)
        PROVE  ContextInv'
    <3> DEFINE fs == frames[t]
               f == [conv |-> c, user |-> u]
    <3>1. f \in Context /\ f.conv = c /\ f.user = u
      BY DEF Context
    <3>2. /\ fs \in Seq(Context) /\ tokens[t] \in Seq(Context)
          /\ Len(tokens[t]) = Len(fs) /\ Len(fs) \in Nat
          /\ baggage[t] \in Context
      BY DEF ClientTypeOK
    <3>3. /\ \A s \in Thread : frames'[s] = IF s = t THEN Append(fs, f) ELSE frames[s]
          /\ \A s \in Thread : tokens'[s] = IF s = t THEN Append(tokens[t], baggage[t]) ELSE tokens[s]
          /\ \A s \in Thread : baggage'[s] = IF s = t THEN [conv |-> c, user |-> Named(u, baggage[t].user)]
                                            ELSE baggage[s]
          /\ exported' = exported
      BY <2>2 DEF Enter, ClientTypeOK, outVars
    <3>9. ASSUME NEW s \in Thread
          PROVE  /\ span'[s].trace = Unset => span'[s] = NoWork
                 /\ WellTagged(span'[s])
      <4>1. CASE span'[s] = span[s]
        BY <4>1 DEF ContextInv
      <4>2. CASE span'[s] # span[s]
        <5>1. s = t /\ span[t].trace # Unset /\ span[t] \in WorkSpan
          BY <2>2, <4>2 DEF Enter, ClientTypeOK
        <5> DEFINE w == span[t]
                   v == TagSpan(span[t], c, u)
        <5>2. span' = [span EXCEPT ![t] = IF w.trace = Unset THEN w ELSE v]
          BY <2>2 DEF Enter
        <5>6. v.trace = w.trace /\ v.conv = c /\ v.user = Named(u, w.user) /\ v.entered = Append(w.entered, f)
          BY <5>1 DEF WorkSpan, TagSpan
        <5>7. span'[t] = v
          <6> HIDE DEF v
          <6> QED
            BY <5>1, <5>2 DEF ClientTypeOK
        <5> HIDE DEF f
        <5>3. /\ span'[t].trace = span[t].trace /\ span'[t].conv = c
              /\ span'[t].user = Named(u, span[t].user)
              /\ span'[t].entered = Append(span[t].entered, f)
          BY <5>6, <5>7
        <5>4. WellTagged(span[t])
          BY <5>1 DEF ContextInv
        <5>5. WellTagged(span'[t])
          BY <3>1, <5>1, <5>3, <5>4, TagOneMore
        <5> QED
          BY <5>1, <5>3, <5>5
      <4> QED
        BY <4>1, <4>2
    <3>4. baggage'[t] = ContextOf(Append(fs, f))
      <4>1. ContextOf(fs).user = UserOf(fs)
        BY Zenon DEF ContextOf
      <4>2. baggage[t].user = UserOf(fs)
        BY <4>1 DEF ContextInv
      <4> HIDE DEF f
      <4> QED
        BY <3>1, <3>2, <3>3, <4>2, ContextOneMore
    <3>5. ASSUME NEW i \in 1..Len(tokens'[t])
          PROVE  tokens'[t][i] = ContextOf(SubSeq(frames'[t], 1, i - 1))
      <4> HIDE DEF f
      <4> DEFINE ts == tokens[t]
                 b == baggage[t]
      <4>1. tokens'[t] = Append(ts, b) /\ frames'[t] = Append(fs, f)
        BY <3>3
      <4>2. ts \in Seq(Context) /\ b \in Context /\ Len(ts) = Len(fs)
        BY <3>2
      <4> HIDE DEF ts, b
      <4>3. /\ Len(Append(ts, b)) = Len(ts) + 1
            /\ \A j \in 1..Len(ts) : Append(ts, b)[j] = ts[j]
            /\ Append(ts, b)[Len(ts) + 1] = b
        BY <4>2, OneMore
      <4>4. /\ tokens'[t] = Append(ts, b) /\ frames'[t] = Append(fs, f)
            /\ Len(tokens'[t]) = Len(fs) + 1
            /\ \A j \in 1..Len(fs) : tokens'[t][j] = ts[j]
            /\ tokens'[t][Len(fs) + 1] = b
        BY <4>1, <4>2, <4>3, Zenon
      <4> USE DEF ts, b
      <4>5. i \in 1..(Len(fs) + 1) /\ i - 1 \in 0..Len(fs)
        BY <3>2, <4>4
      <4>6. SubSeq(frames'[t], 1, i - 1) = SubSeq(fs, 1, i - 1)
        BY <3>1, <3>2, <4>4, <4>5, PrefixOneMore
      <4>7. CASE i = Len(fs) + 1
        <5>1. tokens'[t][i] = baggage[t] /\ i - 1 = Len(fs)
          BY <3>2, <4>4, <4>7
        <5> QED
          BY <3>2, <4>6, <5>1, WholePrefix DEF ContextInv
      <4>8. CASE i # Len(fs) + 1
        <5>1. i \in 1..Len(tokens[t]) /\ tokens'[t][i] = tokens[t][i]
          BY <3>2, <4>4, <4>5, <4>8
        <5> QED
          BY <4>6, <5>1 DEF ContextInv
      <4> QED
        BY <4>7, <4>8
    <3> HIDE DEF fs, f
    <3>6. \A s \in Thread : baggage'[s] = ContextOf(frames'[s])
      BY <3>3, <3>4 DEF ContextInv
    <3>7. \A s \in Thread : \A i \in 1..Len(tokens'[s]) :
              tokens'[s][i] = ContextOf(SubSeq(frames'[s], 1, i - 1))
      BY <3>3, <3>5 DEF ContextInv
    <3> QED
      BY <3>3, <3>6, <3>7, <3>9 DEF ContextInv
  <2>3. CASE Leave(t)
    <3> DEFINE fs == frames[t]
               n == Len(frames[t])
    <3>1. fs \in Seq(Context) /\ tokens[t] \in Seq(Context) /\ Len(tokens[t]) = n /\ n \in Nat \ {0}
      BY <2>3 DEF Leave, ClientTypeOK
    <3>2. /\ \A s \in Thread : frames'[s] = IF s = t THEN SubSeq(fs, 1, n - 1) ELSE frames[s]
          /\ \A s \in Thread : tokens'[s] = IF s = t THEN SubSeq(tokens[t], 1, n - 1) ELSE tokens[s]
          /\ \A s \in Thread : baggage'[s] = IF s = t THEN tokens[t][n] ELSE baggage[s]
          /\ span' = span /\ exported' = exported
      BY <2>3, <3>1 DEF Leave, ClientTypeOK, Front, Last, outVars
    <3>3. baggage'[t] = ContextOf(frames'[t])
      BY <3>1, <3>2 DEF ContextInv
    <3>4. ASSUME NEW i \in 1..Len(tokens'[t])
          PROVE  tokens'[t][i] = ContextOf(SubSeq(frames'[t], 1, i - 1))
      <4> DEFINE ts == tokens[t]
                 m == n - 1
      <4>1. m \in 0..Len(ts) /\ m \in 0..Len(fs) /\ ts \in Seq(Context)
        BY <3>1
      <4>2. tokens'[t] = SubSeq(ts, 1, m)
        BY <3>2
      <4> HIDE DEF ts, m
      <4>3. Len(SubSeq(ts, 1, m)) = m /\ \A j \in 1..m : SubSeq(ts, 1, m)[j] = ts[j]
        BY <4>1, PrefixOfPrefix
      <4>4. i \in 1..m /\ tokens'[t][i] = ts[i]
        BY <4>2, <4>3, Zenon
      <4>5. i \in 1..(n - 1) /\ tokens'[t][i] = tokens[t][i]
        BY <4>4 DEF ts, m
      <4> USE DEF ts, m
      <4>6. SubSeq(SubSeq(fs, 1, n - 1), 1, i - 1) = SubSeq(fs, 1, i - 1)
        BY <3>1, <4>1, <4>5, PrefixOfPrefix
      <4>7. i \in 1..Len(tokens[t])
        BY <3>1, <4>5
      <4>8. tokens[t][i] = ContextOf(SubSeq(fs, 1, i - 1))
        BY <4>7 DEF ContextInv
      <4>9. frames'[t] = SubSeq(fs, 1, n - 1)
        BY <3>2
      <4> QED
        BY <4>5, <4>6, <4>8, <4>9
    <3> HIDE DEF fs, n
    <3>5. \A s \in Thread : baggage'[s] = ContextOf(frames'[s])
      BY <3>2, <3>3 DEF ContextInv
    <3>6. \A s \in Thread : \A i \in 1..Len(tokens'[s]) :
              tokens'[s][i] = ContextOf(SubSeq(frames'[s], 1, i - 1))
      BY <3>2, <3>4 DEF ContextInv
    <3> QED
      BY <3>2, <3>5, <3>6 DEF ContextInv
  <2>4. ASSUME NEW x \in Work, StartSpan(t, x)
        PROVE  ContextInv'
    <3>1. x # Unset
      BY ObservabilityAssumption
    <3>2. Started(x, Truth(t)).trace = x
      BY DEF Started
    <3>3. \A s \in Thread : span'[s] = span[s] \/ span'[s] = Started(x, Truth(t))
      BY <2>4 DEF StartSpan, ClientTypeOK
    <3>4. \A s \in Thread : /\ span'[s].trace = Unset => span'[s] = NoWork
                            /\ WellTagged(span'[s])
      BY <3>1, <3>2, <3>3, StartedUntagged DEF ContextInv
    <3> QED
      BY <2>4, <3>4 DEF StartSpan, ContextInv, outVars
  <2>5. CASE EndSpan(t)
    <3> DEFINE w == span[t]
               e == SpanExport(span[t])
    <3>1. /\ w.trace \in Work
          /\ w.conv \in Names \cup {Unset} /\ w.user \in People \cup {Unset}
          /\ WellTagged(w) /\ w.entered \in Seq(Context)
      BY <2>5 DEF EndSpan, ContextInv, ClientTypeOK, WorkSpan
    <3>2. Faithful(e)
      <4>1. /\ e.kind = "span" /\ e.trace = w.trace /\ e.conv = w.conv /\ e.user = w.user
            /\ e.entered = w.entered
        BY DEF SpanExport
      <4> HIDE DEF e, w
      <4>2. WellTagged(e)
        BY <3>1, <4>1 DEF WellTagged, TagOf, NamedUsers
      <4> QED
        BY <3>1, <4>1, <4>2 DEF Faithful
    <3>3. /\ \A s \in Thread : span'[s] = span[s] \/ span'[s] = NoWork
          /\ exported' = exported \cup {e} /\ UNCHANGED <<baggage, tokens, frames>>
      BY <2>5 DEF EndSpan, ClientTypeOK
    <3>4. WellTagged(NoWork)
      BY StartedUntagged DEF NoWork
    <3> HIDE DEF e, w
    <3> QED
      BY <3>2, <3>3, <3>4 DEF ContextInv
  <2>6. CASE LogRecord(t)
    BY <2>6, CopiesFaithful DEF LogRecord, ContextInv, contextVars
  <2> QED
    BY <1>3, <2>1, <2>2, <2>3, <2>4, <2>5, <2>6 DEF WorkStep
<1> QED
  BY <1>1, <1>2, <1>3, ClientSteps

----------------------------------------------------------------------------
(* Values.  The levels of values, their parsing and their masking are      *)
(* recursive functions: each is what its definition says because its body  *)
(* looks at lower values only, and what is shown of the values of one      *)
(* level is shown of the next.                                             *)

Itself(n) == n

WireStep(f, n) ==
    IF n = 0
    THEN {Absent} \cup ScalarWire
    ELSE f[n - 1]
         \cup [kind : {"arrayValue"}, items : Seq(f[n - 1])]
         \cup [kind : {"kvlistValue"},
               entries : Seq([key : AttrKeys \cup {Absent}, value : f[n - 1]])]

WireLevels == INSTANCE Recursion WITH Dom <- Nat, Depth <- Itself, Step <- WireStep

(* The levels of wire values are what their definition says.               *)
LEMMA WireLevelDefined == WireLevel = [n \in Nat |-> WireStep(WireLevel, n)]
<1>1. WireLevels!Measured
  BY DEF WireLevels!Measured, Itself
<1>2. WireLevels!Descends
  <2> SUFFICES ASSUME NEW f, NEW g, NEW n \in Nat,
                      \A y \in WireLevels!Below(Itself(n)) : f[y] = g[y]
               PROVE  WireStep(f, n) = WireStep(g, n)
    BY Zenon DEF WireLevels!Descends
  <2>1. n # 0 => f[n - 1] = g[n - 1]
    BY DEF WireLevels!Below, Itself
  <2> QED
    BY <2>1, Zenon DEF WireStep
<1>3. \E f : f = [n \in Nat |-> WireStep(f, n)]
  BY <1>1, <1>2, WireLevels!RecursionIsDefined, Zenon
<1>4. WireLevel = CHOOSE f : f = [n \in Nat |-> WireStep(f, n)]
  BY Zenon DEF WireLevel, WireStep
<1> QED
  BY <1>3, <1>4, Zenon

ValueStep(f, n) ==
    IF n = 0
    THEN {Null} \cup [type : {"text", "number"}, words : SUBSET Words]
    ELSE f[n - 1]
         \cup [type : {"list"}, items : Seq(f[n - 1])]
         \cup [type : {"map"}, entries : [AttrKeys -> f[n - 1]]]

ValueLevels == INSTANCE Recursion WITH Dom <- Nat, Depth <- Itself, Step <- ValueStep

(* The levels of parsed values are what their definition says.             *)
LEMMA ValueLevelDefined == ValueLevel = [n \in Nat |-> ValueStep(ValueLevel, n)]
<1>1. ValueLevels!Measured
  BY DEF ValueLevels!Measured, Itself
<1>2. ValueLevels!Descends
  <2> SUFFICES ASSUME NEW f, NEW g, NEW n \in Nat,
                      \A y \in ValueLevels!Below(Itself(n)) : f[y] = g[y]
               PROVE  ValueStep(f, n) = ValueStep(g, n)
    BY Zenon DEF ValueLevels!Descends
  <2>1. n # 0 => f[n - 1] = g[n - 1]
    BY DEF ValueLevels!Below, Itself
  <2> QED
    BY <2>1, Zenon DEF ValueStep
<1>3. \E f : f = [n \in Nat |-> ValueStep(f, n)]
  BY <1>1, <1>2, ValueLevels!RecursionIsDefined, Zenon
<1>4. ValueLevel = CHOOSE f : f = [n \in Nat |-> ValueStep(f, n)]
  BY Zenon DEF ValueLevel, ValueStep
<1> QED
  BY <1>3, <1>4, Zenon

(* Induction over the naturals, for what holds as a set.                   *)
LEMMA NaturalsByInduction ==
    ASSUME NEW S, 0 \in S, \A n \in Nat : n \in S => n + 1 \in S
    PROVE  Nat \subseteq S
<1>1. WireLevels!Measured
  BY DEF WireLevels!Measured, Itself
<1>2. ASSUME NEW n \in Nat, \A m \in WireLevels!Below(Itself(n)) : m \in S PROVE n \in S
  <2>1. n # 0 => n - 1 \in Nat /\ n - 1 \in S
    BY <1>2 DEF WireLevels!Below, Itself
  <2>2. n # 0 => (n - 1) + 1 = n
    OBVIOUS
  <2> QED
    BY <2>1, <2>2
<1> QED
  BY <1>1, <1>2, WireLevels!DepthInduction

----------------------------------------------------------------------------
(* Levels.                                                                 *)

ListWire(n) == [kind : {"arrayValue"}, items : Seq(WireLevel[n])]
EntriesAt(n) == Seq([key : AttrKeys \cup {Absent}, value : WireLevel[n]])
MapWire(n) == [kind : {"kvlistValue"}, entries : EntriesAt(n)]

ListValue(n) == [type : {"list"}, items : Seq(ValueLevel[n])]
MapValue(n) == [type : {"map"}, entries : [AttrKeys -> ValueLevel[n]]]
ScalarValue == {Null} \cup [type : {"text", "number"}, words : SUBSET Words]

(* A level has the level below and the lists and maps over it.             *)
LEMMA WireLevelFacts ==
    /\ WireLevel[0] = {Absent} \cup ScalarWire
    /\ \A n \in Nat : WireLevel[n + 1] = WireLevel[n] \cup ListWire(n) \cup MapWire(n)
<1>1. \A n \in Nat : WireLevel[n] = WireStep(WireLevel, n)
  BY WireLevelDefined, Zenon
<1>2. \A n \in Nat : n + 1 \in Nat /\ n + 1 # 0 /\ (n + 1) - 1 = n
  OBVIOUS
<1>3. \A n \in Nat : WireStep(WireLevel, n + 1) = WireLevel[n] \cup ListWire(n) \cup MapWire(n)
  BY <1>2, Zenon DEF WireStep, ListWire, MapWire, EntriesAt
<1>4. 0 \in Nat
  OBVIOUS
<1>5. WireStep(WireLevel, 0) = {Absent} \cup ScalarWire
  BY Zenon DEF WireStep
<1> QED
  BY <1>1, <1>2, <1>3, <1>4, <1>5, Zenon

(* A level of parsed values has the level below and the lists and maps     *)
(* over it.                                                                *)
LEMMA ValueLevelFacts ==
    /\ ValueLevel[0] = ScalarValue
    /\ \A n \in Nat : ValueLevel[n + 1] = ValueLevel[n] \cup ListValue(n) \cup MapValue(n)
<1>1. \A n \in Nat : ValueLevel[n] = ValueStep(ValueLevel, n)
  BY ValueLevelDefined, Zenon
<1>2. \A n \in Nat : n + 1 \in Nat /\ n + 1 # 0 /\ (n + 1) - 1 = n
  OBVIOUS
<1>3. \A n \in Nat : ValueStep(ValueLevel, n + 1) = ValueLevel[n] \cup ListValue(n) \cup MapValue(n)
  BY <1>2, Zenon DEF ValueStep, ListValue, MapValue
<1>4. 0 \in Nat
  OBVIOUS
<1>5. ValueStep(ValueLevel, 0) = ScalarValue
  BY Zenon DEF ValueStep, ScalarValue
<1> QED
  BY <1>1, <1>2, <1>3, <1>4, <1>5, Zenon

Grows(L) == \A n \in Nat : L[n] \subseteq L[n + 1]

(* The levels of wire values grow, and so do the levels of parsed values.  *)
LEMMA LevelsGrow == Grows(WireLevel) /\ Grows(ValueLevel)
  BY WireLevelFacts, ValueLevelFacts, Zenon DEF Grows

(* What is in a level is in all above.                                     *)
LEMMA GrowsUpwards ==
    ASSUME NEW L, Grows(L)
    PROVE  \A n \in Nat : \A m \in 0..n : L[m] \subseteq L[n]
<1> DEFINE S == {n \in Nat : \A m \in 0..n : L[m] \subseteq L[n]}
<1>1. 0 \in S
  <2>1. \A m \in 0..0 : m = 0
    OBVIOUS
  <2> QED
    BY <2>1, Zenon
<1>2. ASSUME NEW n \in Nat, n \in S PROVE n + 1 \in S
  <2>1. \A m \in 0..(n + 1) : m \in 0..n \/ m = n + 1
    OBVIOUS
  <2>2. L[n] \subseteq L[n + 1]
    BY DEF Grows
  <2> QED
    BY <1>2, <2>1, <2>2
<1> HIDE DEF S
<1>3. Nat \subseteq S
  BY <1>1, <1>2, NaturalsByInduction
<1> QED
  BY <1>3 DEF S

LevelOf(L, x) == CHOOSE n \in Nat : x \in L[n] /\ \A m \in Nat : x \in L[m] => n <= m

(* The level of a value is the least that has it.                          *)
LEMMA LevelOfFacts ==
    ASSUME NEW L, NEW n \in Nat, NEW x \in L[n]
    PROVE  /\ LevelOf(L, x) \in Nat /\ x \in L[LevelOf(L, x)]
           /\ \A m \in Nat : x \in L[m] => LevelOf(L, x) <= m
<1> DEFINE S == {m \in Nat : x \in L[m]}
<1>1. \E m \in S : \A k \in S : m <= k
  BY LeastExists
<1>2. \E m \in Nat : x \in L[m] /\ \A k \in Nat : x \in L[k] => m <= k
  BY <1>1
<1> QED
  BY <1>2, Zenon DEF LevelOf

(* A value that is not in the lowest level came in one level up, and what  *)
(* the level below has is of less level.                                   *)
LEMMA LevelBelow ==
    ASSUME NEW L, Grows(L), NEW top \in Nat, NEW x \in L[top], x \notin L[0]
    PROVE  \E n \in Nat :
              /\ x \in L[n + 1] \ L[n] /\ n + 1 <= top
              /\ \A y \in L[n] : /\ y \in L[top]
                                 /\ LevelOf(L, y) \in Nat /\ LevelOf(L, x) \in Nat
                                 /\ LevelOf(L, y) < LevelOf(L, x)
<1> DEFINE k == LevelOf(L, x)
<1>1. k \in Nat /\ x \in L[k] /\ (\A m \in Nat : x \in L[m] => k <= m)
  BY LevelOfFacts
<1>2. k # 0 /\ k <= top
  BY <1>1
<1> HIDE DEF k
<1>3. /\ k - 1 \in Nat /\ (k - 1) + 1 = k /\ ~(k <= k - 1) /\ k - 1 \in 0..top /\ k - 1 < k
  BY <1>1, <1>2
<1>4. x \notin L[k - 1]
  BY <1>1, <1>3
<1>5. ASSUME NEW y \in L[k - 1]
      PROVE  y \in L[top] /\ LevelOf(L, y) \in Nat /\ LevelOf(L, y) < k
  <2>1. y \in L[top]
    BY <1>3, GrowsUpwards
  <2>2. LevelOf(L, y) \in Nat /\ LevelOf(L, y) <= k - 1
    BY <1>3, LevelOfFacts
  <2> QED
    BY <1>1, <1>3, <2>1, <2>2
<1> QED
  BY <1>1, <1>2, <1>3, <1>4, <1>5 DEF k

----------------------------------------------------------------------------
(* Parsing.                                                                *)

(* What a list has for a key that is in it is one of its values.           *)
LEMMA UnderFacts ==
    ASSUME NEW K, NEW X, NEW list \in Seq([key : K, value : X]), NEW k, Under(list, k) # {}
    PROVE  /\ Max(Under(list, k)) \in Under(list, k)
           /\ list[Max(Under(list, k))].value \in X
<1>1. Under(list, k) \subseteq 0..Len(list) /\ Len(list) \in Nat
  BY DEF Under
<1>2. Max(Under(list, k)) \in Under(list, k)
  BY <1>1, GreatestExists DEF Max
<1>3. \A i \in DOMAIN list : list[i].value \in X
  <2> DEFINE T == [key : K, value : X]
  <2>1. \A e \in T : e.value \in X
    OBVIOUS
  <2> HIDE DEF T
  <2>2. list \in Seq(T)
    BY DEF T
  <2>3. \A i \in DOMAIN list : list[i] \in T
    BY <2>2
  <2> QED
    BY <2>1, <2>3
<1>4. Max(Under(list, k)) \in DOMAIN list
  BY <1>2 DEF Under
<1> QED
  BY <1>2, <1>3, <1>4

WireDepth(w) == LevelOf(WireLevel, w)

(* What a list or a map on the wire has in it is of less depth.            *)
LEMMA WireParts ==
    ASSUME NEW w \in Wire, w \notin {Absent} \cup ScalarWire
    PROVE  \E n \in Nat :
              /\ n + 1 <= Nesting
              /\ w \in WireLevel[n + 1]
              /\ w \in ListWire(n) \cup MapWire(n)
              /\ \A y \in WireLevel[n] : y \in Wire /\ WireDepth(y) < WireDepth(w)
<1>1. w \in WireLevel[Nesting] /\ w \notin WireLevel[0] /\ Nesting \in Nat
  BY WireLevelFacts, ParsingAssumption DEF Wire
<1>2. PICK n \in Nat :
          /\ w \in WireLevel[n + 1] \ WireLevel[n] /\ n + 1 <= Nesting
          /\ \A y \in WireLevel[n] : /\ y \in WireLevel[Nesting]
                                     /\ LevelOf(WireLevel, y) < LevelOf(WireLevel, w)
  BY <1>1, LevelBelow, LevelsGrow
<1>3. w \in ListWire(n) \cup MapWire(n)
  BY <1>2, WireLevelFacts, Zenon
<1> QED
  BY <1>2, <1>3, Zenon DEF Wire, WireDepth

(* Wire values by their kinds.                                             *)
LEMMA WireKinds ==
    /\ \A w \in ScalarWire : w.kind \in ScalarKinds /\ w.words \in SUBSET Words
    /\ \A n \in Nat : \A w \in ListWire(n) : w.kind = "arrayValue" /\ w.items \in Seq(WireLevel[n])
    /\ \A n \in Nat : \A w \in MapWire(n) : w.kind = "kvlistValue" /\ w.entries \in EntriesAt(n)
<1>1. \A w \in ScalarWire : w.kind \in ScalarKinds /\ w.words \in SUBSET Words
  BY DEF ScalarWire, ScalarKinds
<1>2. \A n \in Nat : \A w \in ListWire(n) : w.kind = "arrayValue" /\ w.items \in Seq(WireLevel[n])
  BY DEF ListWire
<1>3. \A n \in Nat : \A w \in MapWire(n) : w.kind = "kvlistValue" /\ w.entries \in EntriesAt(n)
  BY DEF MapWire
<1> QED
  BY <1>1, <1>2, <1>3

AnyStep(f, w) ==
    IF w = Absent THEN Null
    ELSE CASE w.kind = "arrayValue" ->
                 [type |-> "list", items |-> [i \in DOMAIN w.items |-> f[w.items[i]]]]
           [] w.kind = "kvlistValue" ->
                 [type |-> "map", entries |-> [k \in AttrKeys |->
                     IF Under(w.entries, k) = {} THEN Null
                     ELSE f[w.entries[Max(Under(w.entries, k))].value]]]
           [] w.kind \in ScalarKinds -> ParseScalar(w)

ScalarOf(w) == IF w = Absent THEN Null ELSE ParseScalar(w)

ListOf(f, w) == [type |-> "list", items |-> [i \in DOMAIN w.items |-> f[w.items[i]]]]

MapOf(f, w) ==
    [type |-> "map", entries |-> [k \in AttrKeys |->
        IF Under(w.entries, k) = {} THEN Null
        ELSE f[w.entries[Max(Under(w.entries, k))].value]]]

(* The body of AnyValue by the kind of its argument.                       *)
LEMMA AnyStepFacts ==
    ASSUME NEW f
    PROVE  /\ \A w \in {Absent} \cup ScalarWire : AnyStep(f, w) = ScalarOf(w)
           /\ \A n \in Nat : \A w \in ListWire(n) : w # Absent => AnyStep(f, w) = ListOf(f, w)
           /\ \A n \in Nat : \A w \in MapWire(n) : w # Absent => AnyStep(f, w) = MapOf(f, w)
<1>1. ASSUME NEW w \in {Absent} \cup ScalarWire PROVE AnyStep(f, w) = ScalarOf(w)
  <2>1. w # Absent => w.kind \in ScalarKinds
    BY WireKinds
  <2> QED
    BY <2>1 DEF AnyStep, ScalarOf, ScalarKinds
<1>2. ASSUME NEW w, w # Absent, w.kind = "arrayValue" PROVE AnyStep(f, w) = ListOf(f, w)
  BY <1>2 DEF AnyStep, ListOf, ScalarKinds
<1>3. ASSUME NEW w, w # Absent, w.kind = "kvlistValue" PROVE AnyStep(f, w) = MapOf(f, w)
  BY <1>3 DEF AnyStep, MapOf, ScalarKinds
<1> QED
  BY <1>1, <1>2, <1>3, WireKinds, Zenon

AnyValues == INSTANCE Recursion WITH Dom <- Wire, Depth <- WireDepth, Step <- AnyStep

(* AnyValue is what its definition says.                                   *)
LEMMA AnyValueDefined == AnyValue = [w \in Wire |-> AnyStep(AnyValue, w)]
<1>1. AnyValues!Measured
  BY LevelOfFacts, ParsingAssumption DEF AnyValues!Measured, WireDepth, Wire
<1>2. ASSUME NEW f, NEW g, NEW w \in Wire,
             \A y \in AnyValues!Below(WireDepth(w)) : f[y] = g[y]
      PROVE  AnyStep(f, w) = AnyStep(g, w)
  <2>1. CASE w \in {Absent} \cup ScalarWire
    BY <2>1, AnyStepFacts
  <2>2. CASE w \notin {Absent} \cup ScalarWire
    <3>1. PICK n \in Nat :
              /\ w \in ListWire(n) \cup MapWire(n)
              /\ \A y \in WireLevel[n] : y \in Wire /\ WireDepth(y) < WireDepth(w)
      BY <2>2, WireParts
    <3>2. \A y \in WireLevel[n] : f[y] = g[y]
      BY <1>2, <3>1 DEF AnyValues!Below
    <3>3. CASE w \in ListWire(n)
      <4>1. w.items \in Seq(WireLevel[n])
        BY <3>3, WireKinds
      <4>2. \A i \in DOMAIN w.items : w.items[i] \in WireLevel[n]
        BY <4>1
      <4>3. ListOf(f, w) = ListOf(g, w)
        BY <3>2, <4>2, Zenon DEF ListOf
      <4> QED
        BY <2>2, <3>3, <4>3, AnyStepFacts
    <3>4. CASE w \in MapWire(n)
      <4>1. w.entries \in EntriesAt(n)
        BY <3>4, WireKinds
      <4>2. \A k \in AttrKeys : Under(w.entries, k) # {} =>
                w.entries[Max(Under(w.entries, k))].value \in WireLevel[n]
        BY <4>1, UnderFacts DEF EntriesAt
      <4>3. MapOf(f, w) = MapOf(g, w)
        BY <3>2, <4>2, Zenon DEF MapOf
      <4> QED
        BY <2>2, <3>4, <4>3, AnyStepFacts
    <3> QED
      BY <3>1, <3>3, <3>4
  <2> QED
    BY <2>1, <2>2
<1>3. AnyValues!Descends
  BY <1>2, Zenon DEF AnyValues!Descends
<1>4. \E f : f = [w \in Wire |-> AnyStep(f, w)]
  BY <1>1, <1>3, AnyValues!RecursionIsDefined, Zenon
<1>5. AnyValue = CHOOSE f : f = [w \in Wire |-> AnyStep(f, w)]
  BY DEF AnyValue, AnyStep
<1> QED
  BY <1>4, <1>5, Zenon

(* What a level of wire values is parsed into is of the same level.        *)
LEMMA ParsedLevels ==
    \A n \in Nat : n <= Nesting => \A w \in WireLevel[n] : AnyValue[w] \in ValueLevel[n]
<1> DEFINE S == {n \in Nat : n <= Nesting => \A w \in WireLevel[n] : AnyValue[w] \in ValueLevel[n]}
<1>1. \A n \in Nat : n <= Nesting => WireLevel[n] \subseteq Wire
  <2>1. \A n \in Nat : n <= Nesting => n \in 0..Nesting
    BY ParsingAssumption
  <2> QED
    BY <2>1, GrowsUpwards, LevelsGrow, ParsingAssumption DEF Wire
<1>2. \A n \in Nat : Null \in ValueLevel[n]
  <2>1. \A n \in Nat : 0 \in 0..n
    OBVIOUS
  <2>2. Null \in ValueLevel[0]
    BY ValueLevelFacts DEF ScalarValue
  <2> QED
    BY <2>1, <2>2, GrowsUpwards, LevelsGrow
<1>3. ASSUME NEW w \in {Absent} \cup ScalarWire PROVE ScalarOf(w) \in ScalarValue
  <2>1. w # Absent => w.kind \in ScalarKinds /\ w.words \in SUBSET Words
    BY <1>3, WireKinds
  <2>2. w # Absent => ParseScalar(w) \in {Text(w.words), Number(w.words)}
    BY <2>1 DEF ParseScalar, ScalarKinds
  <2>3. \A x \in SUBSET Words : Text(x) \in ScalarValue /\ Number(x) \in ScalarValue
    BY DEF Text, Number, ScalarValue
  <2> QED
    BY <2>1, <2>2, <2>3 DEF ScalarOf, ScalarValue
<1>4. 0 \in S
  <2> SUFFICES ASSUME NEW w \in WireLevel[0] PROVE AnyValue[w] \in ValueLevel[0]
    OBVIOUS
  <2>1. w \in {Absent} \cup ScalarWire /\ w \in Wire
    BY <1>1, WireLevelFacts, ParsingAssumption
  <2>2. AnyValue[w] = AnyStep(AnyValue, w)
    BY <2>1, AnyValueDefined, Zenon
  <2>3. AnyValue[w] = ScalarOf(w)
    BY <2>1, <2>2, AnyStepFacts
  <2> QED
    BY <1>3, <2>1, <2>3, ValueLevelFacts
<1>5. ASSUME NEW n \in Nat, n \in S PROVE n + 1 \in S
  <2> SUFFICES ASSUME n + 1 <= Nesting, NEW w \in WireLevel[n + 1]
               PROVE  AnyValue[w] \in ValueLevel[n + 1]
    OBVIOUS
  <2>1. n <= Nesting /\ n + 1 \in Nat
    BY ParsingAssumption
  <2>2. \A y \in WireLevel[n] : AnyValue[y] \in ValueLevel[n]
    BY <1>5, <2>1
  <2>3. w \in WireLevel[n] \cup ListWire(n) \cup MapWire(n)
    BY WireLevelFacts, Zenon
  <2>4. /\ ValueLevel[n] \subseteq ValueLevel[n + 1]
        /\ ListValue(n) \subseteq ValueLevel[n + 1] /\ MapValue(n) \subseteq ValueLevel[n + 1]
    BY ValueLevelFacts, Zenon
  <2>5. AnyValue[w] = AnyStep(AnyValue, w)
    BY <1>1, <2>1, AnyValueDefined, Zenon
  <2>6. CASE w \in WireLevel[n]
    BY <2>2, <2>4, <2>6
  <2>7. CASE w = Absent
    BY <1>2, <2>1, <2>5, <2>7 DEF AnyStep
  <2>8. CASE w \in ListWire(n) /\ w # Absent
    <3>1. w.items \in Seq(WireLevel[n])
      BY <2>8, WireKinds
    <3>2. [i \in DOMAIN w.items |-> AnyValue[w.items[i]]] \in Seq(ValueLevel[n])
      <4>1. \A i \in DOMAIN w.items : w.items[i] \in WireLevel[n]
        BY <3>1
      <4>2. Len(w.items) \in Nat /\ DOMAIN w.items = 1..Len(w.items)
        BY <3>1
      <4>3. [i \in DOMAIN w.items |-> AnyValue[w.items[i]]] \in [1..Len(w.items) -> ValueLevel[n]]
        BY <2>2, <4>1, <4>2
      <4> QED
        BY <4>2, <4>3, SeqDef
    <3>3. ListOf(AnyValue, w) \in ListValue(n)
      BY <3>2, Zenon DEF ListOf, ListValue
    <3> QED
      BY <2>4, <2>5, <2>8, <3>3, AnyStepFacts
  <2>9. CASE w \in MapWire(n) /\ w # Absent
    <3>1. w.entries \in EntriesAt(n)
      BY <2>9, WireKinds
    <3>2. \A k \in AttrKeys : Under(w.entries, k) # {} =>
              w.entries[Max(Under(w.entries, k))].value \in WireLevel[n]
      BY <3>1, UnderFacts DEF EntriesAt
    <3>3. MapOf(AnyValue, w) \in MapValue(n)
      <4> DEFINE m == [k \in AttrKeys |-> IF Under(w.entries, k) = {} THEN Null
                          ELSE AnyValue[w.entries[Max(Under(w.entries, k))].value]]
      <4>1. m \in [AttrKeys -> ValueLevel[n]]
        BY <1>2, <2>2, <3>2
      <4> HIDE DEF m
      <4>2. [type |-> "map", entries |-> m] \in MapValue(n)
        BY <4>1, Zenon DEF MapValue
      <4> QED
        BY <4>2, Zenon DEF MapOf, m
    <3> QED
      BY <2>4, <2>5, <2>9, <3>3, AnyStepFacts
  <2> QED
    BY <2>3, <2>6, <2>7, <2>8, <2>9
<1> HIDE DEF S
<1>6. Nat \subseteq S
  BY <1>4, <1>5, NaturalsByInduction
<1> QED
  BY <1>6 DEF S

(* The parser makes a value of every wire value, of no greater depth than  *)
(* the bound.                                                              *)
LEMMA AnyValueType == \A w \in Wire : AnyValue[w] \in Value
<1>1. Nesting \in Nat /\ Nesting <= Nesting
  BY ParsingAssumption
<1> QED
  BY <1>1, ParsedLevels DEF Wire, Value

----------------------------------------------------------------------------
(* Values, their leaves and their masking.                                 *)

ValueDepth(v) == LevelOf(ValueLevel, v)

(* What a list or a map has in it is of less depth.                        *)
LEMMA ValueParts ==
    ASSUME NEW v \in Value, v \notin ScalarValue
    PROVE  \E n \in Nat :
              /\ n + 1 <= Nesting
              /\ v \in ListValue(n) \cup MapValue(n)
              /\ \A y \in ValueLevel[n] : y \in Value /\ ValueDepth(y) < ValueDepth(v)
<1>1. v \in ValueLevel[Nesting] /\ v \notin ValueLevel[0] /\ Nesting \in Nat
  BY ValueLevelFacts, ParsingAssumption DEF Value
<1>2. PICK n \in Nat :
          /\ v \in ValueLevel[n + 1] \ ValueLevel[n] /\ n + 1 <= Nesting
          /\ \A y \in ValueLevel[n] : /\ y \in ValueLevel[Nesting]
                                      /\ LevelOf(ValueLevel, y) < LevelOf(ValueLevel, v)
  BY <1>1, LevelBelow, LevelsGrow
<1>3. v \in ListValue(n) \cup MapValue(n)
  BY <1>2, ValueLevelFacts, Zenon
<1> QED
  BY <1>2, <1>3, Zenon DEF Value, ValueDepth

(* Values by their types.                                                  *)
LEMMA ValueTypes ==
    /\ \A v \in ScalarValue : v.type \in {"null", "text", "number"} /\ v.words \in SUBSET Words
    /\ \A n \in Nat : \A v \in ListValue(n) : v.type = "list" /\ v.items \in Seq(ValueLevel[n])
    /\ \A n \in Nat : \A v \in MapValue(n) : v.type = "map" /\ v.entries \in [AttrKeys -> ValueLevel[n]]
<1>1. \A v \in ScalarValue : v.type \in {"null", "text", "number"} /\ v.words \in SUBSET Words
  BY DEF ScalarValue, Null
<1>2. \A n \in Nat : \A v \in ListValue(n) : v.type = "list" /\ v.items \in Seq(ValueLevel[n])
  BY DEF ListValue
<1>3. \A n \in Nat : \A v \in MapValue(n) : v.type = "map" /\ v.entries \in [AttrKeys -> ValueLevel[n]]
  BY DEF MapValue
<1> QED
  BY <1>1, <1>2, <1>3

LeavesStep(f, v) ==
    CASE v.type = "list" -> UNION {f[v.items[i]] : i \in DOMAIN v.items}
      [] v.type = "map" -> UNION {f[v.entries[k]] : k \in AttrKeys}
      [] v.type \in {"null", "text", "number"} -> {v}

MaskStep(f, v) ==
    CASE v.type = "list" ->
            [type |-> "list", items |-> [i \in DOMAIN v.items |-> f[v.items[i]]]]
      [] v.type = "map" ->
            [type |-> "map", entries |-> [k \in AttrKeys |-> f[v.entries[k]]]]
      [] v.type = "text" -> Text(MaskText(v.words))
      [] v.type \in {"null", "number"} -> v

MaskedScalar(v) == IF v.type = "text" THEN Text(MaskText(v.words)) ELSE v

MaskedList(f, v) == [type |-> "list", items |-> [i \in DOMAIN v.items |-> f[v.items[i]]]]
MaskedMap(f, v) == [type |-> "map", entries |-> [k \in AttrKeys |-> f[v.entries[k]]]]

ListLeaves(f, v) == UNION {f[v.items[i]] : i \in DOMAIN v.items}
MapLeaves(f, v) == UNION {f[v.entries[k]] : k \in AttrKeys}

(* The bodies of Leaves and MaskValue by the type of the argument.         *)
LEMMA StepFacts ==
    ASSUME NEW f, NEW v
    PROVE  /\ v \in ScalarValue => /\ LeavesStep(f, v) = {v}
                                   /\ MaskStep(f, v) = MaskedScalar(v)
           /\ v.type = "list" => /\ LeavesStep(f, v) = ListLeaves(f, v)
                                 /\ MaskStep(f, v) = MaskedList(f, v)
           /\ v.type = "map" => /\ LeavesStep(f, v) = MapLeaves(f, v)
                                /\ MaskStep(f, v) = MaskedMap(f, v)
<1>1. ASSUME v \in ScalarValue
      PROVE  LeavesStep(f, v) = {v} /\ MaskStep(f, v) = MaskedScalar(v)
  <2>1. v.type \in {"null", "text", "number"}
    BY <1>1, ValueTypes
  <2> QED
    BY <2>1 DEF LeavesStep, MaskStep, MaskedScalar
<1>2. ASSUME v.type = "list"
      PROVE  /\ LeavesStep(f, v) = ListLeaves(f, v)
             /\ MaskStep(f, v) = MaskedList(f, v)
  BY <1>2 DEF LeavesStep, MaskStep, MaskedList, ListLeaves
<1>3. ASSUME v.type = "map"
      PROVE  /\ LeavesStep(f, v) = MapLeaves(f, v)
             /\ MaskStep(f, v) = MaskedMap(f, v)
  BY <1>3 DEF LeavesStep, MaskStep, MaskedMap, MapLeaves
<1> QED
  BY <1>1, <1>2, <1>3

LeavesOf == INSTANCE Recursion WITH Dom <- Value, Depth <- ValueDepth, Step <- LeavesStep
Masked == INSTANCE Recursion WITH Dom <- Value, Depth <- ValueDepth, Step <- MaskStep

(* The depth of a value is a number.                                       *)
LEMMA ValuesMeasured == LeavesOf!Measured /\ Masked!Measured
  BY LevelOfFacts, ParsingAssumption DEF LeavesOf!Measured, Masked!Measured, ValueDepth, Value

(* Both bodies look at the function below their argument only.             *)
LEMMA StepsDescend ==
    ASSUME NEW f, NEW g, NEW v \in Value,
           \A y \in Value : ValueDepth(y) < ValueDepth(v) => f[y] = g[y]
    PROVE  LeavesStep(f, v) = LeavesStep(g, v) /\ MaskStep(f, v) = MaskStep(g, v)
<1>1. CASE v \in ScalarValue
  BY <1>1, StepFacts
<1>2. CASE v \notin ScalarValue
  <2>1. PICK n \in Nat :
            /\ v \in ListValue(n) \cup MapValue(n)
            /\ \A y \in ValueLevel[n] : y \in Value /\ ValueDepth(y) < ValueDepth(v)
    BY <1>2, ValueParts
  <2>2. \A y \in ValueLevel[n] : f[y] = g[y]
    BY <2>1
  <2>3. CASE v \in ListValue(n)
    <3>1. v.type = "list" /\ v.items \in Seq(ValueLevel[n])
      BY <2>3, ValueTypes
    <3>2. \A i \in DOMAIN v.items : f[v.items[i]] = g[v.items[i]]
      <4>1. \A i \in DOMAIN v.items : v.items[i] \in ValueLevel[n]
        BY <3>1
      <4> QED
        BY <2>2, <4>1
    <3>3. MaskedList(f, v) = MaskedList(g, v)
      BY <3>2, Zenon DEF MaskedList
    <3>4. ListLeaves(f, v) = ListLeaves(g, v)
      BY <3>2, Zenon DEF ListLeaves
    <3> QED
      BY <3>1, <3>3, <3>4, StepFacts
  <2>4. CASE v \in MapValue(n)
    <3>1. v.type = "map" /\ v.entries \in [AttrKeys -> ValueLevel[n]]
      BY <2>4, ValueTypes
    <3>2. \A k \in AttrKeys : f[v.entries[k]] = g[v.entries[k]]
      BY <2>2, <3>1
    <3>3. MaskedMap(f, v) = MaskedMap(g, v)
      BY <3>2, Zenon DEF MaskedMap
    <3>4. MapLeaves(f, v) = MapLeaves(g, v)
      BY <3>2, Zenon DEF MapLeaves
    <3> QED
      BY <3>1, <3>3, <3>4, StepFacts
  <2> QED
    BY <2>1, <2>3, <2>4
<1> QED
  BY <1>1, <1>2

(* Leaves is what its definition says.                                     *)
LEMMA LeavesDefined == Leaves = [v \in Value |-> LeavesStep(Leaves, v)]
<1>1. LeavesOf!Descends
  <2> SUFFICES ASSUME NEW f, NEW g, NEW v \in Value,
                      \A y \in LeavesOf!Below(ValueDepth(v)) : f[y] = g[y]
               PROVE  LeavesStep(f, v) = LeavesStep(g, v)
    BY Zenon DEF LeavesOf!Descends
  <2>1. \A y \in Value : ValueDepth(y) < ValueDepth(v) => f[y] = g[y]
    BY DEF LeavesOf!Below
  <2> QED
    BY <2>1, StepsDescend
<1>2. \E f : f = [v \in Value |-> LeavesStep(f, v)]
  BY <1>1, ValuesMeasured, LeavesOf!RecursionIsDefined, Zenon
<1>3. Leaves = CHOOSE f : f = [v \in Value |-> LeavesStep(f, v)]
  BY DEF Leaves, LeavesStep
<1> QED
  BY <1>2, <1>3, Zenon

(* MaskValue is what its definition says.                                  *)
LEMMA MaskValueDefined == MaskValue = [v \in Value |-> MaskStep(MaskValue, v)]
<1>1. Masked!Descends
  <2> SUFFICES ASSUME NEW f, NEW g, NEW v \in Value,
                      \A y \in Masked!Below(ValueDepth(v)) : f[y] = g[y]
               PROVE  MaskStep(f, v) = MaskStep(g, v)
    BY Zenon DEF Masked!Descends
  <2>1. \A y \in Value : ValueDepth(y) < ValueDepth(v) => f[y] = g[y]
    BY DEF Masked!Below
  <2> QED
    BY <2>1, StepsDescend
<1>2. \E f : f = [v \in Value |-> MaskStep(f, v)]
  BY <1>1, ValuesMeasured, Masked!RecursionIsDefined, Zenon
<1>3. MaskValue = CHOOSE f : f = [v \in Value |-> MaskStep(f, v)]
  BY DEF MaskValue, MaskStep
<1> QED
  BY <1>2, <1>3, Zenon

(* No masked text has a sensitive word.                                    *)
LEMMA MaskTextFacts ==
    \A words \in SUBSET Words : /\ MaskText(words) \in SUBSET Words
                                /\ MaskText(words) \cap Sensitive = {}
  BY MaskingAssumption DEF MaskText

Clean(v) == \A leaf \in Leaves[v] : leaf.type = "text" => leaf.words \cap Sensitive = {}

(* A scalar is its own leaf.                                               *)
LEMMA ScalarLeaves ==
    ASSUME NEW v \in ScalarValue
    PROVE  v \in Value /\ Leaves[v] = {v} /\ MaskValue[v] = MaskedScalar(v)
<1>1. v \in Value
  <2>1. Nesting \in Nat /\ 0 \in 0..Nesting
    BY ParsingAssumption
  <2> QED
    BY <2>1, ValueLevelFacts, GrowsUpwards, LevelsGrow DEF Value
<1> QED
  BY <1>1, LeavesDefined, MaskValueDefined, StepFacts

(* Masking keeps the level of a value and leaves no sensitive text in it.  *)
LEMMA MaskedLevels ==
    \A n \in Nat : n <= Nesting =>
        \A v \in ValueLevel[n] : MaskValue[v] \in ValueLevel[n] /\ Clean(MaskValue[v])
<1> DEFINE S == {n \in Nat : n <= Nesting =>
                  \A v \in ValueLevel[n] : MaskValue[v] \in ValueLevel[n] /\ Clean(MaskValue[v])}
<1>1. \A n \in Nat : n <= Nesting => ValueLevel[n] \subseteq Value
  <2>1. \A n \in Nat : n <= Nesting => n \in 0..Nesting
    BY ParsingAssumption
  <2> QED
    BY <2>1, GrowsUpwards, LevelsGrow, ParsingAssumption DEF Value
<1>2. ASSUME NEW v \in ScalarValue
      PROVE  MaskValue[v] \in ScalarValue /\ Clean(MaskValue[v])
  <2>1. MaskedScalar(v) \in ScalarValue
        /\ (MaskedScalar(v).type = "text" => MaskedScalar(v).words \cap Sensitive = {})
    <3>1. CASE v.type = "text"
      <4>1. MaskText(v.words) \in SUBSET Words /\ MaskText(v.words) \cap Sensitive = {}
        BY ValueTypes, MaskTextFacts
      <4> QED
        BY <3>1, <4>1 DEF MaskedScalar, ScalarValue, Text
    <3>2. CASE v.type # "text"
      BY <3>2 DEF MaskedScalar
    <3> QED
      BY <3>1, <3>2
  <2> QED
    BY <2>1, ScalarLeaves DEF Clean
<1>3. 0 \in S
  BY <1>2, ValueLevelFacts
<1>4. ASSUME NEW n \in Nat, n \in S PROVE n + 1 \in S
  <2> SUFFICES ASSUME n + 1 <= Nesting, NEW v \in ValueLevel[n + 1]
               PROVE  MaskValue[v] \in ValueLevel[n + 1] /\ Clean(MaskValue[v])
    OBVIOUS
  <2>1. n <= Nesting /\ n + 1 \in Nat
    BY ParsingAssumption
  <2>2. \A y \in ValueLevel[n] : MaskValue[y] \in ValueLevel[n] /\ Clean(MaskValue[y])
    BY <1>4, <2>1
  <2>3. v \in ValueLevel[n] \cup ListValue(n) \cup MapValue(n)
    BY ValueLevelFacts, Zenon
  <2>4. /\ ValueLevel[n] \subseteq ValueLevel[n + 1]
        /\ ListValue(n) \subseteq ValueLevel[n + 1] /\ MapValue(n) \subseteq ValueLevel[n + 1]
    BY ValueLevelFacts, Zenon
  <2>5. /\ MaskValue[v] = MaskStep(MaskValue, v)
        /\ \A x \in ValueLevel[n + 1] : Leaves[x] = LeavesStep(Leaves, x)
    BY <1>1, <2>1, MaskValueDefined, LeavesDefined, Zenon
  <2>6. CASE v \in ValueLevel[n]
    BY <2>2, <2>4, <2>6
  <2>7. CASE v \in ListValue(n)
    <3>1. v.type = "list" /\ v.items \in Seq(ValueLevel[n])
      BY <2>7, ValueTypes
    <3> DEFINE s == [i \in DOMAIN v.items |-> MaskValue[v.items[i]]]
               u == [type |-> "list", items |-> s]
    <3>2. MaskValue[v] = u
      BY <2>5, <3>1, StepFacts DEF MaskedList
    <3>3. Len(v.items) \in Nat /\ DOMAIN v.items = 1..Len(v.items)
          /\ \A i \in DOMAIN v.items : v.items[i] \in ValueLevel[n]
      BY <3>1
    <3>4. DOMAIN s = DOMAIN v.items /\ \A i \in DOMAIN s : s[i] \in ValueLevel[n] /\ Clean(s[i])
      BY <2>2, <3>3
    <3>5. s \in Seq(ValueLevel[n])
      <4>1. s \in [1..Len(v.items) -> ValueLevel[n]]
        BY <2>2, <3>3
      <4> HIDE DEF s
      <4> QED
        BY <3>3, <4>1, SeqDef
    <3> HIDE DEF s
    <3>6. u \in ListValue(n)
      BY <3>5, Zenon DEF ListValue
    <3>7. u.type = "list" /\ u.items = s
      OBVIOUS
    <3> HIDE DEF u
    <3>8. Leaves[u] = ListLeaves(Leaves, u)
      BY <2>4, <2>5, <3>6, <3>7, StepFacts
    <3>9. Leaves[u] = UNION {Leaves[s[i]] : i \in DOMAIN s}
      BY <3>7, <3>8, Zenon DEF ListLeaves
    <3>10. Clean(u)
      BY <3>4, <3>9 DEF Clean
    <3> QED
      BY <2>4, <3>2, <3>6, <3>10
  <2>8. CASE v \in MapValue(n)
    <3>1. v.type = "map" /\ v.entries \in [AttrKeys -> ValueLevel[n]]
      BY <2>8, ValueTypes
    <3> DEFINE m == [k \in AttrKeys |-> MaskValue[v.entries[k]]]
               u == [type |-> "map", entries |-> m]
    <3>2. MaskValue[v] = u
      BY <2>5, <3>1, StepFacts DEF MaskedMap
    <3>3. m \in [AttrKeys -> ValueLevel[n]] /\ \A k \in AttrKeys : Clean(m[k])
      BY <2>2, <3>1
    <3> HIDE DEF m
    <3>4. u \in MapValue(n)
      BY <3>3, Zenon DEF MapValue
    <3>5. u.type = "map" /\ u.entries = m
      OBVIOUS
    <3> HIDE DEF u
    <3>6. Leaves[u] = MapLeaves(Leaves, u)
      BY <2>4, <2>5, <3>4, <3>5, StepFacts
    <3>7. Leaves[u] = UNION {Leaves[m[k]] : k \in AttrKeys}
      BY <3>5, <3>6, Zenon DEF MapLeaves
    <3>8. Clean(u)
      BY <3>3, <3>7 DEF Clean
    <3> QED
      BY <2>4, <3>2, <3>4, <3>8
  <2> QED
    BY <2>3, <2>6, <2>7, <2>8
<1> HIDE DEF S
<1>5. Nat \subseteq S
  BY <1>3, <1>4, NaturalsByInduction
<1> QED
  BY <1>5 DEF S

(* Whatever the value, and however deep it is: what the masking makes of   *)
(* it is a value none of whose texts, at any depth, has a sensitive word.  *)
THEOREM MaskingReachesEveryDepth ==
    \A v \in Value : MaskValue[v] \in Value /\ TextsOf(MaskValue[v]) \cap Sensitive = {}
<1>1. Nesting \in Nat /\ Nesting <= Nesting
  BY ParsingAssumption
<1>2. \A v \in Value : MaskValue[v] \in Value /\ Clean(MaskValue[v])
  BY <1>1, MaskedLevels DEF Value
<1> QED
  BY <1>2 DEF Clean, TextsOf

----------------------------------------------------------------------------
(* The parser.  A record says what it is in one of the forms of the        *)
(* protocol (Says); the row and the link that are made of it say the same. *)

(* An id of either form is the id it says.                                 *)
LEMMA ParsedId ==
    ASSUME NEW raw, NEW id, SaysId(raw, id)
    PROVE  \A none : HexId(raw, none) = IF id = Unset THEN none ELSE id
<1>1. Unset \notin Traces
  BY JourneyAssumption, SentinelAssumption
<1>2. CASE id = Unset /\ raw \in {Absent, Zeros}
  BY <1>2 DEF HexId
<1>3. CASE id \in Traces /\ raw \in [id : {id}, upper : BOOLEAN]
  <2>1. raw.id = id /\ raw \in RawIds
    BY <1>3 DEF RawIds
  <2>2. raw \notin {Absent, Zeros}
    BY <2>1, ParsingAssumption
  <2> QED
    BY <1>1, <1>3, <2>1, <2>2 DEF HexId
<1> QED
  BY <1>2, <1>3 DEF SaysId

(* The time of a record is the first useful one, or else the present.      *)
LEMMA ParsedTime ==
    ASSUME NEW ts
    PROVE  /\ \A a, b : SaysTime(<<a, b>>, ts) => Ts(a, b, Arrival) = ts
           /\ \A a : SaysTime(<<a>>, ts) => Ts(a, Absent, Arrival) = ts
<1> DEFINE useful(times) == {i \in DOMAIN times : times[i] \in Nat \ {0}}
<1>1. Absent \notin Nat
  BY ParsingAssumption
<1>2. ASSUME NEW a, NEW b, SaysTime(<<a, b>>, ts) PROVE Ts(a, b, Arrival) = ts
  <2>1. \A i : i \in useful(<<a, b>>) <=>
                (i = 1 /\ a \in Nat \ {0}) \/ (i = 2 /\ b \in Nat \ {0})
    OBVIOUS
  <2>2. ts = IF useful(<<a, b>>) = {} THEN Arrival ELSE <<a, b>>[Min(useful(<<a, b>>))]
    BY <1>2 DEF SaysTime
  <2> HIDE DEF useful
  <2>3. CASE a \in Nat \ {0}
    <3>1. Min(useful(<<a, b>>)) = 1
      BY <2>1, <2>3, MinIs
    <3> QED
      BY <2>1, <2>2, <2>3, <3>1 DEF Ts
  <2>4. CASE a \notin Nat \ {0} /\ b \in Nat \ {0}
    <3>1. Min(useful(<<a, b>>)) = 2
      BY <2>1, <2>4, MinIs
    <3> QED
      BY <2>1, <2>2, <2>4, <3>1 DEF Ts
  <2>5. CASE a \notin Nat \ {0} /\ b \notin Nat \ {0}
    BY <2>1, <2>2, <2>5 DEF Ts
  <2> QED
    BY <2>3, <2>4, <2>5
<1>3. ASSUME NEW a, SaysTime(<<a>>, ts) PROVE Ts(a, Absent, Arrival) = ts
  <2>1. \A i : i \in useful(<<a>>) <=> i = 1 /\ a \in Nat \ {0}
    OBVIOUS
  <2>2. ts = IF useful(<<a>>) = {} THEN Arrival ELSE <<a>>[Min(useful(<<a>>))]
    BY <1>3 DEF SaysTime
  <2> HIDE DEF useful
  <2>3. CASE a \in Nat \ {0}
    <3>1. Min(useful(<<a>>)) = 1
      BY <2>1, <2>3, MinIs
    <3> QED
      BY <2>1, <2>2, <2>3, <3>1 DEF Ts
  <2>4. CASE a \notin Nat \ {0}
    BY <1>1, <2>1, <2>2, <2>4 DEF Ts
  <2> QED
    BY <2>3, <2>4
<1> QED
  BY <1>2, <1>3

(* What an attribute that says a name is parsed to.                        *)
LEMMA ParsedName ==
    ASSUME NEW list \in Entries, NEW key \in AttrKeys, NEW name, SaysName(list, key, name)
    PROVE  LET v == Attributes(list)[key]
           IN  /\ name = Unset => v = Null
               /\ name # Unset =>
                    /\ {name} \in SUBSET Words
                    /\ \/ v = Text({name})
                       \/ /\ v = Number({name})
                          /\ \E i \in Under(list, key) :
                                list[i].value = [kind |-> "intValue", words |-> {name}]
<1>1. CASE Under(list, key) = {}
  BY <1>1 DEF SaysName, Attributes
<1>2. CASE Under(list, key) # {}
  <2> DEFINE j == Max(Under(list, key))
             w == list[j].value
  <2>1. name # Unset /\ w \in ScalarWire /\ w.kind \in {"stringValue", "intValue"} /\ w.words = {name}
    BY <1>2 DEF SaysName
  <2>2. j \in Under(list, key) /\ w \in Wire
    <3>1. list \in Seq([key : AttrKeys \cup {Absent}, value : Wire])
      BY DEF Entries
    <3> QED
      BY <1>2, <3>1, UnderFacts
  <2>3. Attributes(list)[key] = AnyValue[w]
    BY <1>2 DEF Attributes
  <2> HIDE DEF j
  <2>4. {name} \in SUBSET Words /\ (w.kind = "intValue" => w = [kind |-> "intValue", words |-> {name}])
    BY <2>1 DEF ScalarWire
  <2> HIDE DEF w
  <2>5. AnyValue[w] = ParseScalar(w)
    <3>1. w # Absent
      BY <2>1, ParsingAssumption
    <3>2. AnyStep(AnyValue, w) = ParseScalar(w)
      BY <2>1, <3>1, AnyStepFacts DEF ScalarOf
    <3> QED
      BY <2>2, <3>2, AnyValueDefined
  <2>6. ParseScalar(w) = Text({name}) \/ (w.kind = "intValue" /\ ParseScalar(w) = Number({name}))
    BY <2>1 DEF ParseScalar
  <2> QED
    BY <2>1, <2>2, <2>3, <2>4, <2>5, <2>6 DEF w
<1> QED
  BY <1>1, <1>2

(* A scalar that names something is not passed over, unless it is zero.    *)
LEMMA NamingValues ==
    /\ Falsy(Null)
    /\ \A name : {name} \in SUBSET Words =>
          /\ Name(Text({name})) = name /\ Text({name}) # Null /\ ~Falsy(Text({name}))
          /\ Name(Number({name})) = name /\ Number({name}) # Null
          /\ name # "0" => ~Falsy(Number({name}))
<1>1. ASSUME NEW v \in ScalarValue
      PROVE  WordsOf(v) = v.words
  <2>1. Leaves[v] = {v}
    BY ScalarLeaves
  <2> QED
    BY <2>1 DEF WordsOf
<1>2. Null \in ScalarValue /\ Null.words = {}
  BY DEF ScalarValue, Null
<1>3. ASSUME NEW name, {name} \in SUBSET Words
      PROVE  /\ Name(Text({name})) = name /\ Text({name}) # Null /\ ~Falsy(Text({name}))
             /\ Name(Number({name})) = name /\ Number({name}) # Null
             /\ name # "0" => ~Falsy(Number({name}))
  <2>1. /\ Text({name}) \in ScalarValue /\ Number({name}) \in ScalarValue
        /\ Text({name}).words = {name} /\ Number({name}).words = {name}
        /\ Text({name}).type = "text" /\ Number({name}).type = "number" /\ Null.type = "null"
        /\ \A word : Number({word}).type = "number" /\ Number({word}).words = {word}
    BY <1>3 DEF ScalarValue, Text, Number, Null
  <2>2. WordsOf(Text({name})) # {} /\ WordsOf(Number({name})) # {}
    BY <1>1, <2>1
  <2>3. Text({name}) # Number({"0"}) /\ (Number({name}) = Number({"0"}) => name = "0")
    BY <2>1
  <2> QED
    BY <2>1, <2>2, <2>3 DEF Name, Falsy
<1> QED
  BY <1>1, <1>2, <1>3 DEF Falsy

(* The link of a record is what the record says.                           *)
LEMMA ParsedLink ==
    ASSUME NEW list \in Entries, NEW c, NEW u,
           SaysName(list, ConversationAttr, c), SaysName(list, UserAttr, u),
           \A i \in Under(list, ConversationAttr) : list[i].value # Zero
    PROVE  \A trace, ts : LinkFromAttrs(Attributes(list), trace, ts)
                            = [conv |-> c, trace |-> trace, user |-> u, ts |-> ts]
<1>1. ConversationAttr \in AttrKeys /\ UserAttr \in AttrKeys /\ NoConv = Unset /\ NoUser = Unset
  BY ParsingAssumption, JourneyAssumption
<1> DEFINE v == Attributes(list)[ConversationAttr]
           x == Attributes(list)[UserAttr]
<1>2. c = IF Falsy(v) THEN NoConv ELSE Name(v)
  <2>1. CASE c = Unset
    BY <1>1, <2>1, ParsedName, NamingValues
  <2>2. CASE c # Unset
    <3>1. {c} \in SUBSET Words /\ (v = Text({c}) \/ (v = Number({c}) /\ c # "0"))
      <4>1. /\ {c} \in SUBSET Words
            /\ \/ v = Text({c})
               \/ /\ v = Number({c})
                  /\ \E i \in Under(list, ConversationAttr) :
                        list[i].value = [kind |-> "intValue", words |-> {c}]
        BY <1>1, <2>2, ParsedName
      <4> HIDE DEF v
      <4>2. c # "0" \/ [kind |-> "intValue", words |-> {c}] = Zero
        BY DEF Zero
      <4> QED
        BY <4>1, <4>2
    <3> QED
      BY <3>1, NamingValues
  <2> QED
    BY <2>1, <2>2
<1>3. u = IF x = Null THEN NoUser ELSE Name(x)
  <2>1. CASE u = Unset
    BY <1>1, <2>1, ParsedName
  <2>2. CASE u # Unset
    <3>1. {u} \in SUBSET Words /\ (x = Text({u}) \/ x = Number({u}))
      BY <1>1, <2>2, ParsedName
    <3> QED
      BY <3>1, NamingValues
  <2> QED
    BY <2>1, <2>2
<1> QED
  BY <1>2, <1>3 DEF LinkFromAttrs

(* Scalars are values on the wire.                                         *)
LEMMA ScalarsAreWire == {Absent} \cup ScalarWire \subseteq Wire
<1>1. Nesting \in Nat /\ 0 \in 0..Nesting
  BY ParsingAssumption
<1> QED
  BY <1>1, WireLevelFacts, GrowsUpwards, LevelsGrow DEF Wire

(* A word as a text on the wire.                                           *)
LEMMA StrFacts ==
    ASSUME NEW word \in Words
    PROVE  /\ Str(word) \in ScalarWire /\ Str(word) \in Wire /\ Str(word) # Zero
           /\ Str(word).kind = "stringValue" /\ Str(word).words = {word}
<1>1. Str(word) \in ScalarWire /\ Str(word).kind = "stringValue" /\ Str(word).words = {word}
  BY DEF Str, ScalarWire, ScalarKinds
<1>2. Zero.kind = "intValue"
  BY DEF Zero
<1> QED
  BY <1>1, <1>2, ScalarsAreWire

(* A key that is given once says the word that it has.                     *)
LEMMA GivenOnce ==
    ASSUME NEW list, NEW key, NEW i \in Nat, Under(list, key) = {i},
           NEW name \in Words, name # Unset, list[i].value = Str(name)
    PROVE  SaysName(list, key, name)
<1>1. Max({i}) = i
  BY DEF Max
<1> QED
  BY <1>1, StrFacts DEF SaysName

(* The attributes that the filters add name what the context has.          *)
LEMMA TaggedAttributes ==
    ASSUME NEW c \in Words \cup {Unset}, NEW u \in Words \cup {Unset}
    PROVE  LET list == Attr(ConversationAttr, c) \o Attr(UserAttr, u)
           IN  /\ list \in Entries
               /\ SaysName(list, ConversationAttr, c) /\ SaysName(list, UserAttr, u)
               /\ \A i \in Under(list, ConversationAttr) : list[i].value # Zero
<1> DEFINE E == [key : AttrKeys \cup {Absent}, value : Wire]
           a == [key |-> ConversationAttr, value |-> Str(c)]
           b == [key |-> UserAttr, value |-> Str(u)]
           list == Attr(ConversationAttr, c) \o Attr(UserAttr, u)
<1>1. /\ ConversationAttr \in AttrKeys /\ UserAttr \in AttrKeys /\ Absent \notin AttrKeys
      /\ ConversationAttr # UserAttr
  BY ParsingAssumption DEF ConversationAttr, UserAttr
<1>2. a.key = ConversationAttr /\ a.value = Str(c) /\ b.key = UserAttr /\ b.value = Str(u)
  OBVIOUS
<1>3. (c # Unset => a \in E) /\ (u # Unset => b \in E)
  BY <1>1, StrFacts
<1>4. list = (IF c = Unset THEN <<>> ELSE <<a>>) \o (IF u = Unset THEN <<>> ELSE <<b>>)
  BY DEF Attr
<1>5. Entries = Seq(E)
  BY DEF Entries
<1> SUFFICES /\ list \in Entries
             /\ SaysName(list, ConversationAttr, c) /\ SaysName(list, UserAttr, u)
             /\ \A i \in Under(list, ConversationAttr) : list[i].value # Zero
  OBVIOUS
<1> HIDE DEF E, a, b, list
<1>6. CASE c = Unset /\ u = Unset
  <2>1. list = <<>>
    BY <1>4, <1>6
  <2> QED
    BY <1>5, <1>6, <2>1 DEF SaysName, Under
<1>7. CASE c # Unset /\ u = Unset
  <2>1. list = <<a>>
    BY <1>4, <1>7
  <2>2. list \in Seq(E) /\ DOMAIN list = {1} /\ list[1] = a
    BY <1>3, <1>7, <2>1
  <2>3. Under(list, ConversationAttr) = {1} /\ Under(list, UserAttr) = {}
    BY <1>1, <1>2, <2>2 DEF Under
  <2>4. SaysName(list, ConversationAttr, c)
    BY <1>2, <1>7, <2>2, <2>3, GivenOnce
  <2> QED
    BY <1>2, <1>5, <1>7, <2>2, <2>3, <2>4, StrFacts DEF SaysName
<1>8. CASE c = Unset /\ u # Unset
  <2>1. list = <<b>>
    BY <1>4, <1>8
  <2>2. list \in Seq(E) /\ DOMAIN list = {1} /\ list[1] = b
    BY <1>3, <1>8, <2>1
  <2>3. Under(list, ConversationAttr) = {} /\ Under(list, UserAttr) = {1}
    BY <1>1, <1>2, <2>2 DEF Under
  <2>4. SaysName(list, UserAttr, u)
    BY <1>2, <1>8, <2>2, <2>3, GivenOnce
  <2> QED
    BY <1>5, <1>8, <2>2, <2>3, <2>4 DEF SaysName
<1>9. CASE c # Unset /\ u # Unset
  <2>1. list = <<a>> \o <<b>>
    BY <1>4, <1>9
  <2>2. list \in Seq(E) /\ DOMAIN list = {1, 2} /\ list[1] = a /\ list[2] = b
    <3>1. a \in E /\ b \in E
      BY <1>3, <1>9
    <3>2. <<a>> \in Seq(E) /\ <<b>> \in Seq(E) /\ Len(<<a>>) = 1 /\ Len(<<b>>) = 1
      BY <3>1
    <3> QED
      BY <2>1, <3>1, <3>2
  <2>3. Under(list, ConversationAttr) = {1} /\ Under(list, UserAttr) = {2}
    BY <1>1, <1>2, <2>2 DEF Under
  <2>4. SaysName(list, ConversationAttr, c)
    BY <1>2, <1>9, <2>2, <2>3, GivenOnce
  <2>5. SaysName(list, UserAttr, u)
    BY <1>2, <1>9, <2>2, <2>3, GivenOnce
  <2> QED
    BY <1>2, <1>5, <1>9, <2>2, <2>3, <2>4, <2>5, StrFacts
<1> QED
  BY <1>6, <1>7, <1>8, <1>9

(* What else a record is given is put behind the tags and names nothing.   *)
LEMMA FurtherAttribute ==
    ASSUME NEW list \in Entries, NEW key \in AttrKeys \ {ConversationAttr, UserAttr}, NEW v \in Wire,
           NEW c, NEW u, SaysName(list, ConversationAttr, c), SaysName(list, UserAttr, u),
           \A i \in Under(list, ConversationAttr) : list[i].value # Zero
    PROVE  LET more == list \o <<[key |-> key, value |-> v]>>
           IN  /\ more \in Entries
               /\ SaysName(more, ConversationAttr, c) /\ SaysName(more, UserAttr, u)
               /\ \A i \in Under(more, ConversationAttr) : more[i].value # Zero
<1> DEFINE E == [key : AttrKeys \cup {Absent}, value : Wire]
           a == [key |-> key, value |-> v]
           more == list \o <<a>>
           n == Len(list)
<1>1. a \in E /\ a.key = key
  OBVIOUS
<1>2. list \in Seq(E) /\ Entries = Seq(E)
  BY DEF Entries
<1> SUFFICES /\ more \in Entries
             /\ SaysName(more, ConversationAttr, c) /\ SaysName(more, UserAttr, u)
             /\ \A i \in Under(more, ConversationAttr) : more[i].value # Zero
  OBVIOUS
<1> HIDE DEF E, a
<1>3. /\ more \in Seq(E) /\ n \in Nat /\ DOMAIN list = 1..n /\ DOMAIN more = 1..(n + 1)
      /\ \A i \in 1..n : more[i] = list[i]
      /\ more[n + 1] = a
  <2>1. <<a>> \in Seq(E) /\ Len(<<a>>) = 1 /\ <<a>>[1] = a
    BY <1>1
  <2> QED
    BY <1>2, <2>1
<1> HIDE DEF more, n
<1>4. ASSUME NEW k \in {ConversationAttr, UserAttr}
      PROVE  /\ Under(more, k) = Under(list, k) /\ Under(list, k) \subseteq 1..n
             /\ \A i \in Under(list, k) : more[i] = list[i]
  BY <1>1, <1>3 DEF Under
<1>5. ASSUME NEW k \in {ConversationAttr, UserAttr}, NEW name, SaysName(list, k, name)
      PROVE  SaysName(more, k, name)
  <2>1. CASE Under(list, k) = {}
    BY <1>4, <1>5, <2>1 DEF SaysName
  <2>2. CASE Under(list, k) # {}
    <3>1. Max(Under(list, k)) \in Under(list, k)
      BY <1>2, <2>2, UnderFacts DEF E
    <3>2. more[Max(Under(list, k))] = list[Max(Under(list, k))]
      BY <1>4, <3>1
    <3>3. Under(more, k) = Under(list, k)
      BY <1>4
    <3> QED
      BY <1>5, <2>2, <3>2, <3>3 DEF SaysName
  <2> QED
    BY <2>1, <2>2
<1> QED
  BY <1>2, <1>3, <1>4, <1>5

(* What a record says of itself: an exported one, what it is tagged with.  *)
SaidByExport(e) ==
    [kind |-> e.kind, trace |-> e.trace, ts |-> LoggedAt, severity |-> SeverityFloor.INFO,
     conv |-> e.conv, user |-> e.user]

SaidBy(i) == IF i \in DOMAIN Foreign THEN Foreign[i].truth ELSE SaidByExport(i)

(* What the exporters send says what the record is tagged with.            *)
LEMMA ExportsSay ==
    ASSUME NEW e, Faithful(e)
    PROVE  Says(WireOf(e), SaidByExport(e))
<1> DEFINE w == WireOf(e)
           t == SaidByExport(e)
           extra == Content("extra" \in e.secret)
           list == Attr(ConversationAttr, e.conv) \o Attr(UserAttr, e.user)
<1>1. /\ Unset \notin Work /\ Work \subseteq Traces
      /\ Names \subseteq Words /\ People \subseteq Words
      /\ Sensitive \subseteq Words /\ "hello" \in Words
      /\ LoggedAt \in Nat \ {0} /\ Absent \notin Nat
  BY ObservabilityAssumption, JourneyAssumption, ParsingAssumption, TimesAreNaturals
<1>2. /\ e.conv \in Words \cup {Unset} /\ e.user \in Words \cup {Unset}
      /\ e.trace \in Work \cup {Unset}
      /\ e.kind # "log" => e.kind = "span" /\ e.trace \in Work
  BY <1>1 DEF Faithful
<1>3. t.kind = e.kind /\ t.trace = e.trace /\ t.ts = LoggedAt /\ t.severity = SeverityFloor.INFO
      /\ t.conv = e.conv /\ t.user = e.user
  BY <1>2 DEF SaidByExport
<1>4. /\ list \in Entries
      /\ SaysName(list, ConversationAttr, e.conv) /\ SaysName(list, UserAttr, e.user)
      /\ \A i \in Under(list, ConversationAttr) : list[i].value # Zero
  BY <1>2, TaggedAttributes
<1> HIDE DEF list
<1>5. SaysId(RawId(e.trace), e.trace) /\ (e.trace \in Work => RawId(e.trace) \in RawIds /\ e.trace # Unset)
  BY <1>1, <1>2 DEF SaysId, RawId, RawIds
<1>6. SaysTime(<<LoggedAt, Absent>>, LoggedAt) /\ SaysTime(<<LoggedAt>>, LoggedAt)
  <2>1. {i \in DOMAIN <<LoggedAt, Absent>> : <<LoggedAt, Absent>>[i] \in Nat \ {0}} = {1}
    BY <1>1
  <2>2. {i \in DOMAIN <<LoggedAt>> : <<LoggedAt>>[i] \in Nat \ {0}} = {1}
    BY <1>1
  <2>3. Min({1}) = 1
    BY MinIs
  <2> QED
    BY <2>1, <2>2, <2>3 DEF SaysTime
<1>9. extra \in Wire /\ Content("message" \in e.secret) \in Wire
  <2>1. extra \in ScalarWire /\ Content("message" \in e.secret) \in ScalarWire
    BY <1>1 DEF Content, ScalarWire, ScalarKinds
  <2> QED
    BY <2>1, ScalarsAreWire
<1>7. CASE e.kind = "log"
  <2> DEFINE more == list \o <<[key |-> "extra", value |-> extra]>>
  <2>1. w = [kind |-> "log", time |-> LoggedAt, observed |-> Absent, severity |-> SeverityFloor.INFO,
             service |-> Service, trace |-> RawId(e.trace), body |-> Content("message" \in e.secret),
             attrs |-> more]
    BY <1>7 DEF WireOf, list
  <2>2. /\ more \in Entries
        /\ SaysName(more, ConversationAttr, e.conv) /\ SaysName(more, UserAttr, e.user)
        /\ \A i \in Under(more, ConversationAttr) : more[i].value # Zero
    <3>1. "extra" \in AttrKeys \ {ConversationAttr, UserAttr} /\ extra \in Wire
      BY <1>9, JourneyAssumption, Zenon
    <3> HIDE DEF extra
    <3> DEFINE a == [key |-> "extra", value |-> extra]
    <3>2. more = list \o <<a>>
      OBVIOUS
    <3>3. /\ list \o <<a>> \in Entries
          /\ SaysName(list \o <<a>>, ConversationAttr, e.conv) /\ SaysName(list \o <<a>>, UserAttr, e.user)
          /\ \A i \in Under(list \o <<a>>, ConversationAttr) : (list \o <<a>>)[i].value # Zero
      BY <1>4, <3>1, FurtherAttribute, Zenon
    <3> HIDE DEF more, a
    <3> QED
      BY <3>2, <3>3
  <2> HIDE DEF more
  <2>3. /\ w.kind = "log" /\ w.time = LoggedAt /\ w.observed = Absent
        /\ w.severity = SeverityFloor.INFO /\ w.trace = RawId(e.trace)
        /\ w.body = Content("message" \in e.secret) /\ w.attrs = more
    BY <2>1
  <2> HIDE DEF w, t
  <2>5. Says(w, t)
    BY <1>3, <1>5, <1>6, <1>7, <1>9, <2>2, <2>3 DEF Says
  <2> QED
    BY <2>5 DEF w, t
<1>8. CASE e.kind # "log"
  <2>1. w = [kind |-> "span", time |-> LoggedAt, trace |-> RawId(e.trace), span |-> RawId(e.trace),
             attrs |-> list]
    BY <1>8 DEF WireOf, list
  <2>2. /\ w.kind = "span" /\ w.time = LoggedAt /\ w.trace = RawId(e.trace)
        /\ w.span = RawId(e.trace) /\ w.attrs = list
    BY <2>1
  <2> HIDE DEF w, t
  <2> QED
    BY <1>2, <1>3, <1>4, <1>5, <1>6, <1>8, <2>2 DEF Says, w, t
<1> QED
  BY <1>7, <1>8

----------------------------------------------------------------------------
(* Rows.                                                                   *)

(* What may be delivered, and what is made of it.                          *)
Deliverable(i) == i \in DOMAIN Foreign \/ Faithful(i)

Link(i) == [conv |-> SaidBy(i).conv, trace |-> SaidBy(i).trace,
            user |-> SaidBy(i).user, ts |-> SaidBy(i).ts]

LogRow(i) == ParseLog(Item(i), Arrival)
SpanRow(i) == ParseSpan(Item(i), Arrival)
LogEntry(i) == Stored(MaskedLog(LogRow(i)), i)
SpanEntry(i) == Stored(MaskedSpan(SpanRow(i)), i)

(* A record that may be delivered says what it says in a form of the       *)
(* protocol.                                                               *)
LEMMA ItemSays ==
    ASSUME NEW i, Deliverable(i)
    PROVE  /\ Says(Item(i), SaidBy(i))
           /\ SaidBy(i).conv \in Conversations \cup {Unset}
           /\ SaidBy(i).user \in Users \cup {Unset}
           /\ SaidBy(i).ts \in Time
           /\ SaidBy(i).trace \in Traces \cup {Unset}
           /\ Item(i).kind = SaidBy(i).kind /\ SaidBy(i).kind \in {"log", "span"}
<1>1. /\ Says(Item(i), SaidBy(i))
      /\ SaidBy(i).conv \in Conversations \cup {Unset}
      /\ SaidBy(i).user \in Users \cup {Unset}
      /\ SaidBy(i).ts \in Time
  <2>1. CASE i \in DOMAIN Foreign
    BY <2>1, ForeignAssumption DEF Item, SaidBy
  <2>2. CASE i \notin DOMAIN Foreign
    <3>1. Faithful(i) /\ Item(i) = WireOf(i) /\ SaidBy(i) = SaidByExport(i)
      BY <2>2 DEF Deliverable, Item, SaidBy
    <3>2. /\ Says(WireOf(i), SaidByExport(i))
          /\ i.conv \in Conversations \cup {Unset} /\ i.user \in Users \cup {Unset}
      BY <3>1, ExportsSay, JourneyAssumption DEF Faithful
    <3>3. SaidByExport(i).ts = LoggedAt /\ LoggedAt \in Time
          /\ SaidByExport(i).conv = i.conv /\ SaidByExport(i).user = i.user
      BY <3>2, JourneyAssumption DEF SaidByExport
    <3> QED
      BY <3>1, <3>2, <3>3
  <2> QED
    BY <2>1, <2>2
<1>2. SaysId(Item(i).trace, SaidBy(i).trace) /\ Item(i).kind = SaidBy(i).kind
      /\ Item(i).kind \in {"log", "span"}
  BY <1>1, Zenon DEF Says
<1>3. SaidBy(i).trace \in Traces \cup {Unset}
  BY <1>2 DEF SaysId
<1> QED
  BY <1>1, <1>2, <1>3

(* What a record says of itself is that of its truth that a tag can hold:  *)
(* the last conversation under it, and one of the users named under it.    *)
LEMMA TagsTell ==
    ASSUME NEW i, Deliverable(i)
    PROVE  /\ TruthOf(i).kind = SaidBy(i).kind /\ TruthOf(i).trace = SaidBy(i).trace
           /\ TruthOf(i).ts = SaidBy(i).ts /\ TruthOf(i).severity = SaidBy(i).severity
           /\ SaidBy(i).conv = TagOf(TruthOf(i))
           /\ IF NamedUsers(TruthOf(i)) = {} THEN SaidBy(i).user = NoUser
              ELSE SaidBy(i).user \in NamedUsers(TruthOf(i))
<1> DEFINE t == TruthOf(i)
<1>1. NoUser = Unset
  BY JourneyAssumption
<1>2. ASSUME NEW said, t.entered = <<said>>
      PROVE  TagOf(t) = said.conv /\ NamedUsers(t) = {said.user} \ {NoUser}
  <2> HIDE DEF t
  <2>1. DOMAIN t.entered = {1} /\ t.entered[1] = said /\ Len(t.entered) = 1 /\ t.entered # <<>>
    BY <1>2
  <2> QED
    BY <2>1 DEF TagOf, NamedUsers
<1>3. CASE i \in DOMAIN Foreign
  <2> DEFINE said == [conv |-> Foreign[i].truth.conv, user |-> Foreign[i].truth.user]
  <2>1. SaidBy(i) = Foreign[i].truth /\ t = TruthOfForeign(Foreign[i].truth)
    BY <1>3 DEF SaidBy, TruthOf
  <2>2. /\ t.kind = SaidBy(i).kind /\ t.trace = SaidBy(i).trace /\ t.ts = SaidBy(i).ts
        /\ t.severity = SaidBy(i).severity /\ t.entered = <<said>>
        /\ said.conv = SaidBy(i).conv /\ said.user = SaidBy(i).user
    BY <2>1 DEF TruthOfForeign
  <2> HIDE DEF t, said
  <2>3. TagOf(t) = said.conv /\ NamedUsers(t) = {said.user} \ {NoUser}
    BY <1>2, <2>2
  <2> QED
    BY <2>2, <2>3 DEF t
<1>4. CASE i \notin DOMAIN Foreign
  <2>1. Faithful(i) /\ SaidBy(i) = SaidByExport(i) /\ t = TruthOfExport(i)
    BY <1>4 DEF Deliverable, SaidBy, TruthOf
  <2>2. /\ t.kind = SaidBy(i).kind /\ t.trace = SaidBy(i).trace /\ t.ts = SaidBy(i).ts
        /\ t.severity = SaidBy(i).severity
        /\ SaidBy(i).conv = i.conv /\ SaidBy(i).user = i.user
        /\ t.entered = IF i.kind = "log" THEN <<i.truth>> ELSE i.entered
    BY <2>1 DEF SaidByExport, TruthOfExport
  <2> HIDE DEF t
  <2>3. CASE i.kind = "log"
    <3>1. TagOf(t) = i.truth.conv /\ NamedUsers(t) = {i.truth.user} \ {NoUser}
      BY <1>2, <2>2, <2>3
    <3>2. i.truth.conv = i.conv /\ i.truth.user = i.user
      BY <2>1, <2>3 DEF Faithful
    <3> QED
      BY <2>2, <3>1, <3>2 DEF t
  <2>4. CASE i.kind # "log"
    <3>1. WellTagged(i) /\ t.entered = i.entered
      BY <2>1, <2>2, <2>4 DEF Faithful
    <3>2. TagOf(t) = TagOf(i) /\ NamedUsers(t) = NamedUsers(i)
      BY <3>1 DEF TagOf, NamedUsers
    <3> QED
      BY <1>1, <2>2, <3>1, <3>2 DEF t, WellTagged
  <2> QED
    BY <2>3, <2>4
<1> QED
  BY <1>3, <1>4

(* The conversations under a record are in an order.                       *)
LEMMA EnteredIsSequence ==
    ASSUME NEW i, Deliverable(i)
    PROVE  TruthOf(i).entered \in Seq(Said(TruthOf(i)))
<1> DEFINE t == TruthOf(i)
<1>1. \E S : t.entered \in Seq(S)
  <2>1. CASE i \in DOMAIN Foreign
    <3>1. \E said : t.entered = <<said>>
      BY <2>1 DEF TruthOf, TruthOfForeign
    <3> HIDE DEF t
    <3>2. PICK said : t.entered = <<said>>
      BY <3>1
    <3>3. <<said>> \in Seq({said})
      OBVIOUS
    <3> QED
      BY <3>2, <3>3
  <2>2. CASE i \notin DOMAIN Foreign /\ i.kind = "log"
    <3>1. t.entered = <<i.truth>>
      BY <2>2 DEF TruthOf, TruthOfExport
    <3>2. <<i.truth>> \in Seq({i.truth})
      OBVIOUS
    <3> QED
      BY <3>1, <3>2
  <2>3. CASE i \notin DOMAIN Foreign /\ i.kind # "log"
    <3>1. t.entered = i.entered
      BY <2>3 DEF TruthOf, TruthOfExport
    <3>2. i.entered \in Seq(Context)
      BY <2>3 DEF Deliverable, Faithful
    <3> QED
      BY <3>1, <3>2
  <2> QED
    BY <2>1, <2>2, <2>3
<1> HIDE DEF t
<1>2. PICK S : t.entered \in Seq(S)
  BY <1>1
<1>3. \A n \in DOMAIN t.entered : t.entered[n] \in Said(t)
  BY DEF Said
<1>4. t.entered \in Seq(Said(t))
  BY <1>2, <1>3
<1> QED
  BY <1>4 DEF t

(* Attributes are parsed to values.                                        *)
LEMMA AttributesType ==
    ASSUME NEW list \in Entries
    PROVE  Attributes(list) \in [AttrKeys -> Value]
<1>1. list \in Seq([key : AttrKeys \cup {Absent}, value : Wire])
  BY DEF Entries
<1>2. ASSUME NEW k \in AttrKeys
      PROVE  (IF Under(list, k) = {} THEN Null ELSE AnyValue[list[Max(Under(list, k))].value]) \in Value
  <2>1. Null \in Value
    BY ScalarLeaves DEF ScalarValue
  <2>2. Under(list, k) # {} => list[Max(Under(list, k))].value \in Wire
    BY <1>1, UnderFacts
  <2> QED
    BY <2>1, <2>2, AnyValueType
<1> QED
  BY <1>2 DEF Attributes

(* The row of a log record is what the record says.                        *)
LEMMA LogRowFacts ==
    ASSUME NEW i, Deliverable(i), Item(i).kind = "log"
    PROVE  /\ LogRow(i).ts = SaidBy(i).ts /\ LogRow(i).trace = SaidBy(i).trace
           /\ LogRow(i).severity = SaidBy(i).severity
           /\ LinkOf(LogRow(i)) = Link(i)
           /\ LogRow(i).attrs \in [AttrKeys -> Value]
           /\ DOMAIN LogRow(i) = {"ts", "severity", "service", "trace", "body", "attrs"}
<1> DEFINE w == Item(i)
           t == SaidBy(i)
<1>1. /\ w.attrs \in Entries
      /\ SaysId(w.trace, t.trace)
      /\ SaysName(w.attrs, ConversationAttr, t.conv) /\ SaysName(w.attrs, UserAttr, t.user)
      /\ \A j \in Under(w.attrs, ConversationAttr) : w.attrs[j].value # Zero
      /\ SaysTime(<<w.time, w.observed>>, t.ts) /\ w.severity = t.severity
  BY ItemSays DEF Says
<1>2. HexId(w.trace, NoTrace) = t.trace
  BY <1>1, ParsedId, JourneyAssumption
<1>3. Ts(w.time, w.observed, Arrival) = t.ts
  BY <1>1, ParsedTime
<1> HIDE DEF w, t
<1>4. LinkFromAttrs(Attributes(w.attrs), t.trace, t.ts)
        = [conv |-> t.conv, trace |-> t.trace, user |-> t.user, ts |-> t.ts]
  BY <1>1, ParsedLink
<1>5. Attributes(w.attrs) \in [AttrKeys -> Value]
  BY <1>1, AttributesType
<1>6. LogRow(i) = [ts |-> t.ts, severity |-> t.severity, service |-> w.service, trace |-> t.trace,
                   body |-> BodyText(w.body), attrs |-> Attributes(w.attrs)]
  BY <1>1, <1>2, <1>3 DEF LogRow, ParseLog, w
<1> QED
  BY <1>4, <1>5, <1>6 DEF LinkOf, Link, t

(* The row of a span is what the span says, and it has both ids.           *)
LEMMA SpanRowFacts ==
    ASSUME NEW i, Deliverable(i), Item(i).kind # "log"
    PROVE  /\ SpanRow(i).ts = SaidBy(i).ts /\ SpanRow(i).trace = SaidBy(i).trace
           /\ SpanRow(i).trace # NoTrace /\ SpanRow(i).span # Absent
           /\ LinkOf(SpanRow(i)) = Link(i)
           /\ DOMAIN SpanRow(i) = {"ts", "trace", "span", "attrs"}
<1> DEFINE w == Item(i)
           t == SaidBy(i)
<1>1. /\ w.attrs \in Entries
      /\ SaysId(w.trace, t.trace) /\ t.trace # Unset /\ w.span \in RawIds
      /\ SaysName(w.attrs, ConversationAttr, t.conv) /\ SaysName(w.attrs, UserAttr, t.user)
      /\ \A j \in Under(w.attrs, ConversationAttr) : w.attrs[j].value # Zero
      /\ SaysTime(<<w.time>>, t.ts)
  BY ItemSays DEF Says
<1>2. HexId(w.trace, NoTrace) = t.trace /\ t.trace # NoTrace
  BY <1>1, ParsedId, JourneyAssumption
<1>3. Ts(w.time, Absent, Arrival) = t.ts
  BY <1>1, ParsedTime
<1>4. HexId(w.span, Absent) # Absent
  <2>1. w.span.id \in Traces /\ w.span \notin {Absent, Zeros}
    BY <1>1, ParsingAssumption DEF RawIds
  <2> QED
    BY <2>1, ParsingAssumption DEF HexId
<1> HIDE DEF w, t
<1>5. LinkFromAttrs(Attributes(w.attrs), t.trace, t.ts)
        = [conv |-> t.conv, trace |-> t.trace, user |-> t.user, ts |-> t.ts]
  BY <1>1, ParsedLink
<1>6. SpanRow(i) = [ts |-> t.ts, trace |-> t.trace, span |-> HexId(w.span, Absent),
                    attrs |-> Attributes(w.attrs)]
  BY <1>1, <1>2, <1>3 DEF SpanRow, ParseSpan, w
<1> QED
  BY <1>2, <1>4, <1>5, <1>6 DEF LinkOf, Link, t

(* A row in its table is the row of its record, masked.                    *)
LEMMA StoredFacts ==
    ASSUME NEW row, NEW i
    PROVE  /\ Stored(row, i).of = i
           /\ \A k \in DOMAIN row : k # "of" => Stored(row, i)[k] = row[k]
  BY DEF Stored

(* The texts of a masked log are clean, and what else it has is as before. *)
LEMMA LogEntryFacts ==
    ASSUME NEW i, Deliverable(i), Item(i).kind = "log"
    PROVE  /\ LogEntry(i).of = i
           /\ LogEntry(i).ts = SaidBy(i).ts /\ LogEntry(i).trace = SaidBy(i).trace
           /\ LogEntry(i).severity = SaidBy(i).severity
           /\ Masking => /\ LogEntry(i).body.words \cap Sensitive = {}
                         /\ \A k \in AttrKeys : TextsOf(LogEntry(i).attrs[k]) \cap Sensitive = {}
<1> DEFINE r == LogRow(i)
           m == MaskedLog(r)
<1>1. /\ r.ts = SaidBy(i).ts /\ r.trace = SaidBy(i).trace /\ r.severity = SaidBy(i).severity
      /\ r.attrs \in [AttrKeys -> Value]
      /\ DOMAIN r = {"ts", "severity", "service", "trace", "body", "attrs"}
  BY LogRowFacts
<1>2. r = [k \in DOMAIN r |-> r[k]]
  BY DEF LogRow, ParseLog
<1> HIDE DEF r
<1>3. /\ m.ts = r.ts /\ m.trace = r.trace /\ m.severity = r.severity
      /\ DOMAIN m = DOMAIN r
      /\ Masking => /\ m.body = Text(MaskText(r.body.words))
                    /\ m.attrs = [k \in AttrKeys |-> MaskValue[r.attrs[k]]]
  BY <1>1, <1>2 DEF MaskedLog, MaskLogRow
<1>4. /\ LogEntry(i).of = i
      /\ LogEntry(i).ts = m.ts /\ LogEntry(i).trace = m.trace /\ LogEntry(i).severity = m.severity
      /\ LogEntry(i).body = m.body /\ LogEntry(i).attrs = m.attrs
  <2>1. LogEntry(i) = Stored(m, i)
    BY DEF LogEntry, r
  <2> HIDE DEF m
  <2>2. \A k \in {"ts", "trace", "severity", "body", "attrs"} : Stored(m, i)[k] = m[k]
    BY <1>1, <1>3, StoredFacts
  <2> QED
    BY <2>1, <2>2, StoredFacts
<1> HIDE DEF m
<1>5. \A words : Text(MaskText(words)).words \cap Sensitive = {}
  BY MaskingAssumption DEF Text, MaskText
<1>6. \A k \in AttrKeys : TextsOf(MaskValue[r.attrs[k]]) \cap Sensitive = {}
  BY <1>1, MaskingReachesEveryDepth
<1> QED
  BY <1>1, <1>3, <1>4, <1>5, <1>6

(* What a masked span has besides its attributes is as before.             *)
LEMMA SpanEntryFacts ==
    ASSUME NEW i, Deliverable(i), Item(i).kind # "log"
    PROVE  SpanEntry(i).of = i /\ SpanEntry(i).trace = SaidBy(i).trace
<1> DEFINE r == SpanRow(i)
           m == MaskedSpan(r)
<1>1. r.trace = SaidBy(i).trace /\ DOMAIN r = {"ts", "trace", "span", "attrs"}
  BY SpanRowFacts
<1> HIDE DEF r
<1>2. m.trace = r.trace /\ "trace" \in DOMAIN m
  BY <1>1 DEF MaskedSpan, MaskSpanRow
<1>3. SpanEntry(i) = Stored(m, i)
  BY DEF SpanEntry, r
<1> HIDE DEF m
<1> QED
  BY <1>1, <1>2, <1>3, StoredFacts

----------------------------------------------------------------------------
(* Deliveries.                                                             *)

(* A payload of one link moves the row of its key, and no other: a row     *)
(* that has no user yet takes the link's.                                  *)
LEMMA OneLink ==
    ASSUME NEW m \in Maps, NEW l, l.user \in Users \cup {NoUser}, l.ts \in Time, NEW k \in Keys
    PROVE  LET new == UpsertAll(m, <<l>>)[k]
           IN  /\ <<l.conv, l.trace>> # k => new = m[k]
               /\ <<l.conv, l.trace>> = k =>
                    /\ new \in Row
                    /\ new.user = IF m[k] = NoRow THEN l.user ELSE Coalesce(m[k].user, l.user)
<1> DEFINE recs == <<l>>
<1>1. DOMAIN recs = 1..1 /\ recs[1] = l
  OBVIOUS
<1>2. Batch(recs)
  BY <1>1 DEF Batch
<1> HIDE DEF recs
<1>3. Hits(recs, k) = IF <<l.conv, l.trace>> = k THEN {1} ELSE {}
  BY <1>1 DEF Hits
<1>4. m[k] \in Row \cup {NoRow}
  BY DEF Maps
<1>5. UpsertAll(m, recs)[k] = IF <<l.conv, l.trace>> = k THEN UpsertRow(m[k], recs, k) ELSE m[k]
  BY <1>3 DEF UpsertAll
<1>6. CASE <<l.conv, l.trace>> = k
  <2>1. UpsertRow(m[k], recs, k) \in Row
    BY <1>2, <1>3, <1>4, <1>6, UpsertRowFacts
  <2>2. FirstUser(recs, k) = l.user
    <3>1. NamedHits(recs, k) = IF l.user = NoUser THEN {} ELSE {1}
      BY <1>1, <1>3, <1>6 DEF NamedHits
    <3>2. Min({1}) = 1
      BY MinIs
    <3> QED
      BY <1>1, <3>1, <3>2 DEF FirstUser
  <2>3. UpsertRow(m[k], recs, k).user = IF m[k] = NoRow THEN l.user ELSE Coalesce(m[k].user, l.user)
    BY <2>2 DEF UpsertRow
  <2> QED
    BY <1>5, <1>6, <2>1, <2>3 DEF recs
<1>7. CASE <<l.conv, l.trace>> # k
  BY <1>5, <1>7 DEF recs
<1> QED
  BY <1>6, <1>7

----------------------------------------------------------------------------
(* The tables hold what was delivered, and the map tells whose it is: a    *)
(* row for every conversation and trace that were named together, with a   *)
(* user that was named with them, if any was.                              *)

Arrived(kind) == {i \in arrived : SaidBy(i).kind = kind}

Hitters(k) == {i \in arrived : <<SaidBy(i).conv, SaidBy(i).trace>> = k}

RowTells(k) ==
    /\ map[k] = NoRow <=> Hitters(k) = {}
    /\ map[k] # NoRow =>
         /\ map[k].user # NoUser => \E i \in Hitters(k) : SaidBy(i).user = map[k].user
         /\ map[k].user = NoUser => \A i \in Hitters(k) : SaidBy(i).user = NoUser

TablesInv ==
    /\ arrived \subseteq exported \cup DOMAIN Foreign
    /\ logs = {LogEntry(i) : i \in Arrived("log")}
    /\ spans = {SpanEntry(i) : i \in Arrived("span")}
    /\ map \in Maps
    /\ \A k \in Keys : RowTells(k)
    /\ IsFiniteSet(Rows(map))

(* Nothing is delivered but what may be.                                   *)
LEMMA ArrivedDeliverable ==
    ASSUME ContextInv, arrived \subseteq exported \cup DOMAIN Foreign
    PROVE  \A i \in exported \cup DOMAIN Foreign \cup arrived : Deliverable(i)
  BY DEF ContextInv, Deliverable

(* What a delivery does to the tables and the map.                         *)
LEMMA DeliverFacts ==
    ASSUME NEW i, Deliverable(i), Deliver(i)
    PROVE  /\ arrived' = arrived \cup {i}
           /\ logs' = IF SaidBy(i).kind = "log" THEN logs \cup {LogEntry(i)} ELSE logs
           /\ spans' = IF SaidBy(i).kind = "span" THEN spans \cup {SpanEntry(i)} ELSE spans
           /\ map' = UpsertAll(map, <<Link(i)>>)
           /\ UNCHANGED <<clientVars, ended>>
<1>1. Item(i).kind = SaidBy(i).kind /\ SaidBy(i).kind \in {"log", "span"}
  BY ItemSays
<1>2. CASE Item(i).kind = "log"
  <2>1. IngestLog(i)
    BY <1>2 DEF Deliver
  <2>2. LinkOf(LogRow(i)) = Link(i)
    BY <1>2, LogRowFacts
  <2> QED
    BY <1>1, <1>2, <2>1, <2>2 DEF Deliver, IngestLog, LogEntry, LogRow
<1>3. CASE Item(i).kind # "log"
  <2>1. IngestSpan(i)
    BY <1>3 DEF Deliver
  <2>2. LinkOf(SpanRow(i)) = Link(i) /\ SpanRow(i).trace # NoTrace /\ SpanRow(i).span # Absent
    BY <1>3, SpanRowFacts
  <2> QED
    BY <1>1, <1>3, <2>1, <2>2 DEF Deliver, IngestSpan, SpanEntry, SpanRow
<1> QED
  BY <1>2, <1>3

(* A delivery keeps the tables what they are.                              *)
LEMMA DeliverKeepsTables ==
    ASSUME ContextInv, TablesInv, NEW i \in exported \cup DOMAIN Foreign, Deliver(i)
    PROVE  TablesInv'
<1> DEFINE t == SaidBy(i)
           key == <<t.conv, t.trace>>
<1>1. Deliverable(i)
  BY ArrivedDeliverable DEF TablesInv
<1>2. /\ arrived' = arrived \cup {i} /\ exported' = exported
      /\ logs' = IF t.kind = "log" THEN logs \cup {LogEntry(i)} ELSE logs
      /\ spans' = IF t.kind = "span" THEN spans \cup {SpanEntry(i)} ELSE spans
      /\ map' = UpsertAll(map, <<Link(i)>>)
  BY <1>1, DeliverFacts DEF clientVars, outVars
<1>3. /\ Link(i).conv = t.conv /\ Link(i).trace = t.trace /\ Link(i).user = t.user /\ Link(i).ts = t.ts
      /\ t.user \in Users \cup {NoUser} /\ t.ts \in Time
  <2>1. t.user \in Users \cup {Unset} /\ t.ts \in Time
    BY <1>1, ItemSays
  <2> QED
    BY <2>1, JourneyAssumption DEF Link
<1>4. arrived' \subseteq exported' \cup DOMAIN Foreign
  BY <1>2 DEF TablesInv
<1>5. logs' = {LogEntry(j) : j \in Arrived("log")'} /\ spans' = {SpanEntry(j) : j \in Arrived("span")'}
  <2>1. \A kind : Arrived(kind)' = IF t.kind = kind THEN Arrived(kind) \cup {i} ELSE Arrived(kind)
    BY <1>2 DEF Arrived
  <2> QED
    BY <1>2, <2>1 DEF TablesInv
<1>6. map' \in Maps
  <2>1. Batch(<<Link(i)>>)
    BY <1>3 DEF Batch
  <2> QED
    BY <1>2, <2>1, UpsertAllType DEF TablesInv
<1>7. ASSUME NEW k \in Keys
      PROVE  /\ key # k => map'[k] = map[k]
             /\ key = k => /\ map'[k] \in Row
                           /\ map'[k].user = IF map[k] = NoRow THEN t.user ELSE Coalesce(map[k].user, t.user)
  BY <1>2, <1>3, OneLink DEF TablesInv
<1> HIDE DEF t
<1>8. ASSUME NEW k \in Keys
      PROVE  RowTells(k)'
  <2>1. Hitters(k)' = IF key = k THEN Hitters(k) \cup {i} ELSE Hitters(k)
    BY <1>2 DEF Hitters, t
  <2>2. RowTells(k)
    BY DEF TablesInv
  <2>3. CASE key # k
    BY <1>7, <2>1, <2>2, <2>3 DEF RowTells
  <2>4. CASE key = k
    <3>1. map'[k] # NoRow
      BY <1>7, <2>4, SentinelAssumption
    <3>2. CASE map[k] = NoRow
      <4>1. Hitters(k)' = {i} /\ map'[k].user = SaidBy(i).user
        BY <1>7, <2>1, <2>2, <2>4, <3>2 DEF RowTells, t
      <4> QED
        BY <3>1, <4>1 DEF RowTells
    <3>3. CASE map[k] # NoRow
      <4>1. map'[k].user = IF map[k].user = NoUser THEN SaidBy(i).user ELSE map[k].user
        BY <1>7, <2>4, <3>3 DEF Coalesce, t
      <4>2. Hitters(k)' = Hitters(k) \cup {i}
        BY <2>1, <2>4
      <4> QED
        BY <2>2, <3>1, <3>3, <4>1, <4>2 DEF RowTells
    <3> QED
      BY <3>2, <3>3
  <2> QED
    BY <2>3, <2>4
<1>9. IsFiniteSet(Rows(map'))
  <2>1. Rows(map') \subseteq Rows(map) \cup {key}
    BY <1>7 DEF Rows
  <2>2. IsFiniteSet(Rows(map) \cup {key})
    BY FS_AddElement DEF TablesInv
  <2> QED
    BY <2>1, <2>2, FS_Subset
<1> QED
  BY <1>2, <1>4, <1>5, <1>6, <1>8, <1>9 DEF TablesInv

----------------------------------------------------------------------------
(* Queries.                                                                *)

(* The map ties the trace of a record to the conversations that a record   *)
(* of it is tagged with, and gives it to users that were named on it: to   *)
(* the only one in any case.                                               *)
LEMMA ScopeFacts ==
    ASSUME ContextInv, TablesInv, NEW i \in arrived
    PROVE  LET t == TruthOf(i)
           IN  /\ \A c \in Conversations :
                     /\ t.trace \in TracesOf(map, c) => MayConcern(t, c)
                     /\ MustConcern(t, c) => t.trace \in TracesOf(map, c)
               /\ \A u \in Users :
                     /\ t.trace \in TracesOfUser(map, u) => MayBelong(t, u)
                     /\ MustBelong(t, u) => t.trace \in TracesOfUser(map, u)
<1> DEFINE t == TruthOf(i)
<1>1. /\ NoConv \notin Conversations /\ NoTrace \notin Traces /\ NoUser \notin Users
      /\ NoConv = Unset /\ NoTrace = Unset /\ NoUser = Unset
  BY SentinelAssumption, JourneyAssumption
<1>2. \A j \in arrived : Deliverable(j)
  BY ArrivedDeliverable DEF TablesInv
<1>3. \A j \in arrived : SaidBy(j).trace \in Traces \cup {NoTrace}
  BY <1>1, <1>2, ItemSays
<1>4. \A k \in Keys : k[1] \in Conversations /\ k[2] \in Traces /\ k = <<k[1], k[2]>>
  BY DEF Keys
<1>5. \A c \in Conversations, x \in Traces : <<c, x>> \in Keys
  BY DEF Keys
<1>6. ASSUME NEW k \in Keys, NEW j \in Hitters(k)
      PROVE  /\ j \in arrived /\ TruthOf(j) \in Tagged(k[2], k[1])
             /\ SaidBy(j).user # NoUser => SaidBy(j).user \in Namings(k[2], k[1])
  <2>1. j \in arrived /\ SaidBy(j).conv = k[1] /\ SaidBy(j).trace = k[2]
    BY <1>4 DEF Hitters
  <2>2. TruthOf(j) \in Truths /\ TruthOf(j).trace = k[2] /\ TagOf(TruthOf(j)) = k[1] /\ k[2] # NoTrace
    BY <1>1, <1>2, <1>4, <2>1, TagsTell DEF Truths
  <2>3. TruthOf(j) \in Tagged(k[2], k[1])
    BY <2>2 DEF Tagged
  <2>4. SaidBy(j).user # NoUser => SaidBy(j).user \in NamedUsers(TruthOf(j))
    BY <1>2, <2>1, TagsTell
  <2> QED
    BY <2>1, <2>3, <2>4 DEF Namings
<1>7. ASSUME NEW x, NEW c \in Conversations, NEW s \in Tagged(x, c)
      PROVE  <<c, x>> \in Keys /\ \E j \in Hitters(<<c, x>>) : TruthOf(j) = s
  <2>1. PICK j \in arrived : s = TruthOf(j) /\ x # NoTrace /\ s.trace = x /\ TagOf(s) = c
    BY DEF Tagged, Truths
  <2>2. SaidBy(j).conv = c /\ SaidBy(j).trace = x
    BY <1>2, <2>1, TagsTell
  <2> QED
    BY <1>3, <1>5, <2>1, <2>2 DEF Hitters
<1>8. ASSUME NEW s, NEW x, NEW c \in Conversations, s \in Tagged(x, c)
      PROVE  \E said \in Said(s) : said.conv = c
  <2>1. TagOf(s) = c /\ c # NoConv
    BY <1>1, <1>8 DEF Tagged
  <2>2. s.entered # <<>> /\ s.entered[Len(s.entered)].conv = c
    BY <2>1 DEF TagOf
  <2>3. Len(s.entered) \in DOMAIN s.entered
    <3>1. PICK j \in arrived : s = TruthOf(j)
      BY <1>8 DEF Tagged, Truths
    <3>2. s.entered \in Seq(Said(s))
      BY <1>2, <3>1, EnteredIsSequence
    <3> HIDE DEF t
    <3> QED
      BY <2>2, <3>2
  <2> QED
    BY <2>2, <2>3 DEF Said
<1>9. \A s : \A u \in NamedUsers(s) : \E said \in Said(s) : said.user = u
  BY DEF NamedUsers, Said
<1> HIDE DEF t
<1>10. ASSUME NEW c \in Conversations, t.trace \in TracesOf(map, c) PROVE MayConcern(t, c)
  <2>1. PICK k \in Keys : map[k] # NoRow /\ k[1] = c /\ k[2] = t.trace
    BY <1>10 DEF TracesOf, Rows
  <2>2. PICK j \in Hitters(k) : TRUE
    BY <2>1 DEF TablesInv, RowTells
  <2>3. TruthOf(j) \in Tagged(t.trace, c)
    BY <1>6, <2>1
  <2>4. TruthOf(j) \in Truths /\ SpeaksFor(TruthOf(j), t)
    BY <2>3 DEF Tagged, SpeaksFor
  <2> QED
    BY <1>8, <2>3, <2>4 DEF MayConcern
<1>11. ASSUME NEW c \in Conversations, MustConcern(t, c) PROVE t.trace \in TracesOf(map, c)
  <2>1. PICK s : s \in Tagged(t.trace, c)
    BY <1>11 DEF MustConcern
  <2>2. <<c, t.trace>> \in Keys /\ Hitters(<<c, t.trace>>) # {}
    BY <1>7, <2>1
  <2>3. map[<<c, t.trace>>] # NoRow
    BY <2>2 DEF TablesInv, RowTells
  <2>4. <<c, t.trace>>[1] = c /\ <<c, t.trace>>[2] = t.trace
    OBVIOUS
  <2> QED
    BY <2>2, <2>3, <2>4 DEF TracesOf, Rows
<1>12. ASSUME NEW u \in Users, t.trace \in TracesOfUser(map, u) PROVE MayBelong(t, u)
  <2>1. PICK k \in Keys : map[k] # NoRow /\ map[k].user = u /\ k[2] = t.trace
    BY <1>12 DEF TracesOfUser, Owned, Rows
  <2>2. PICK j \in Hitters(k) : SaidBy(j).user = u
    BY <1>1, <2>1 DEF TablesInv, RowTells
  <2>3. u \in Namings(t.trace, k[1])
    BY <1>1, <1>6, <2>1, <2>2
  <2>4. PICK s \in Tagged(t.trace, k[1]) : u \in NamedUsers(s)
    BY <2>3 DEF Namings
  <2>5. s \in Truths /\ SpeaksFor(s, t)
    BY <2>4 DEF Tagged, SpeaksFor
  <2> QED
    BY <1>9, <2>4, <2>5 DEF MayBelong
<1>13. ASSUME NEW u \in Users, MustBelong(t, u) PROVE t.trace \in TracesOfUser(map, u)
  <2>1. PICK c \in Conversations : Namings(t.trace, c) = {u}
    BY <1>13 DEF MustBelong
  <2>2. PICK s \in Tagged(t.trace, c) : u \in NamedUsers(s)
    BY <2>1 DEF Namings
  <2> DEFINE k == <<c, t.trace>>
  <2>3. PICK j \in Hitters(k) : TruthOf(j) = s /\ k \in Keys
    BY <1>7, <2>2
  <2>4. j \in arrived /\ SaidBy(j).user # NoUser
    <3>1. j \in arrived
      BY <2>3 DEF Hitters
    <3>2. SaidBy(j).user \in NamedUsers(s)
      BY <1>2, <2>2, <2>3, <3>1, TagsTell
    <3> QED
      BY <3>1, <3>2 DEF NamedUsers
  <2>5. map[k] # NoRow /\ map[k].user # NoUser
    BY <2>3, <2>4 DEF TablesInv, RowTells
  <2>6. PICK l \in Hitters(k) : SaidBy(l).user = map[k].user
    BY <2>3, <2>5 DEF TablesInv, RowTells
  <2>7. k[1] = c /\ k[2] = t.trace
    OBVIOUS
  <2>8. map[k].user \in Namings(t.trace, c)
    BY <1>6, <2>3, <2>5, <2>6, <2>7
  <2>9. map[k].user = u
    BY <2>1, <2>8
  <2> QED
    BY <2>3, <2>5, <2>7, <2>9 DEF TracesOfUser, Owned, Rows
<1> QED
  BY <1>10, <1>11, <1>12, <1>13 DEF t

(* The arguments of a query.                                               *)
LEMMA QueryType ==
    ASSUME NEW q \in Query
    PROVE  /\ q.conv \in Conversations \cup {Unasked} /\ q.user \in Users \cup {Unasked}
           /\ q.service = Unasked
<1>1. \/ \E c \in Conversations \cup {Unasked}, u \in Users \cup {Unasked} : q = ByScope(c, u)
      \/ \E l, s : q = ByLevel(l, s)
  BY DEF Query
<1> QED
  BY <1>1 DEF ByScope, ByLevel

(* A query answers with the rows of the records it asks for.               *)
LEMMA Answers ==
    ASSUME ContextInv, TablesInv, NEW rows, NEW kind \in {"log", "span"}, NEW q \in Query,
           {r.of : r \in rows} =
              {i \in Arrived(kind) :
                  /\ InScope(map, SaidBy(i).trace, q.conv, q.user)
                  /\ kind = "log" => /\ q.level = Unasked \/ AtLeast(SaidBy(i).severity, q.level)
                                     /\ q.since = Unasked \/ SaidBy(i).ts >= q.since}
    PROVE  TellsTheTruth(rows, kind, q)
<1> DEFINE found == {r.of : r \in rows}
           selected == {i \in arrived : TruthOf(i).kind = kind /\ Selected(TruthOf(i), q)}
<1>1. Unasked \notin Conversations /\ Unasked \notin Users
  BY QueriesAssumption
<1>2. q.conv \in Conversations \cup {Unasked} /\ q.user \in Users \cup {Unasked}
  BY QueryType
<1>3. \A i \in arrived : /\ TruthOf(i).kind = SaidBy(i).kind /\ TruthOf(i).trace = SaidBy(i).trace
                         /\ TruthOf(i).ts = SaidBy(i).ts /\ TruthOf(i).severity = SaidBy(i).severity
  BY ArrivedDeliverable, TagsTell DEF TablesInv
<1>4. ASSUME NEW i \in Arrived(kind)
      PROVE  /\ i \in arrived
             /\ i \in found <=> i \in selected /\ InScope(map, TruthOf(i).trace, q.conv, q.user)
  BY <1>3 DEF Arrived, Selected
<1>5. found \subseteq Arrived(kind) /\ selected \subseteq Arrived(kind)
  BY <1>3 DEF Arrived
<1>6. ASSUME NEW i \in arrived
      PROVE  /\ InScope(map, TruthOf(i).trace, q.conv, q.user) =>
                   /\ q.conv = Unasked \/ MayConcern(TruthOf(i), q.conv)
                   /\ q.user = Unasked \/ MayBelong(TruthOf(i), q.user)
             /\ /\ q.conv = Unasked \/ MustConcern(TruthOf(i), q.conv)
                /\ q.user = Unasked \/ MustBelong(TruthOf(i), q.user)
                => InScope(map, TruthOf(i).trace, q.conv, q.user)
  <2> DEFINE t == TruthOf(i)
  <2>1. /\ \A c \in Conversations :
              /\ t.trace \in TracesOf(map, c) => MayConcern(t, c)
              /\ MustConcern(t, c) => t.trace \in TracesOf(map, c)
        /\ \A u \in Users :
              /\ t.trace \in TracesOfUser(map, u) => MayBelong(t, u)
              /\ MustBelong(t, u) => t.trace \in TracesOfUser(map, u)
    BY ScopeFacts, Zenon
  <2> HIDE DEF t
  <2>2. /\ InScope(map, t.trace, q.conv, q.user) =>
             /\ q.conv = Unasked \/ MayConcern(t, q.conv)
             /\ q.user = Unasked \/ MayBelong(t, q.user)
        /\ /\ q.conv = Unasked \/ MustConcern(t, q.conv)
           /\ q.user = Unasked \/ MustBelong(t, q.user)
           => InScope(map, t.trace, q.conv, q.user)
    <3>1. q.conv # Unasked => /\ t.trace \in TracesOf(map, q.conv) => MayConcern(t, q.conv)
                              /\ MustConcern(t, q.conv) => t.trace \in TracesOf(map, q.conv)
      <4>1. q.conv # Unasked => q.conv \in Conversations
        BY <1>2
      <4> QED
        BY <2>1, <4>1, Zenon
    <3>2. q.user # Unasked => /\ t.trace \in TracesOfUser(map, q.user) => MayBelong(t, q.user)
                              /\ MustBelong(t, q.user) => t.trace \in TracesOfUser(map, q.user)
      <4>1. q.user # Unasked => q.user \in Users
        BY <1>2
      <4> QED
        BY <2>1, <4>1, Zenon
    <3> QED
      BY <3>1, <3>2, Zenon DEF InScope
  <2> QED
    BY <2>2 DEF t
<1> HIDE DEF found, selected
<1>7. /\ \A i \in found :
            /\ i \in selected
            /\ q.conv = Unasked \/ MayConcern(TruthOf(i), q.conv)
            /\ q.user = Unasked \/ MayBelong(TruthOf(i), q.user)
      /\ \A i \in selected :
            /\ q.conv = Unasked \/ MustConcern(TruthOf(i), q.conv)
            /\ q.user = Unasked \/ MustBelong(TruthOf(i), q.user)
            => i \in found
  BY <1>4, <1>5, <1>6
<1> QED
  BY <1>7 DEF TellsTheTruth, found, selected

(* The tables, being what was delivered, make the queries tell the truth.  *)
LEMMA TablesTellTheTruth ==
    ASSUME ContextInv, TablesInv
    PROVE  QueriesTellTheTruth
<1>1. \A i \in arrived : Deliverable(i)
  BY ArrivedDeliverable DEF TablesInv
<1>2. ASSUME NEW q \in Query PROVE TellsTheTruth(QueryLogs(logs, map, q), "log", q)
  <2>1. \A i \in Arrived("log") :
            /\ LogEntry(i).of = i /\ LogEntry(i).trace = SaidBy(i).trace
            /\ LogEntry(i).severity = SaidBy(i).severity /\ LogEntry(i).ts = SaidBy(i).ts
    <3>1. \A i \in Arrived("log") : Deliverable(i) /\ Item(i).kind = "log"
      BY <1>1, ItemSays DEF Arrived
    <3> QED
      BY <3>1, LogEntryFacts
  <2>2. \A r : r \in QueryLogs(logs, map, q) <=>
                 \E i \in Arrived("log") :
                    /\ r = LogEntry(i)
                    /\ InScope(map, SaidBy(i).trace, q.conv, q.user)
                    /\ q.level = Unasked \/ AtLeast(SaidBy(i).severity, q.level)
                    /\ q.since = Unasked \/ SaidBy(i).ts >= q.since
    BY <2>1, QueryType DEF QueryLogs, TablesInv
  <2>3. {r.of : r \in QueryLogs(logs, map, q)} =
           {i \in Arrived("log") :
              /\ InScope(map, SaidBy(i).trace, q.conv, q.user)
              /\ "log" = "log" => /\ q.level = Unasked \/ AtLeast(SaidBy(i).severity, q.level)
                                  /\ q.since = Unasked \/ SaidBy(i).ts >= q.since}
    BY <2>1, <2>2
  <2> QED
    BY <2>3, Answers
<1>3. ASSUME NEW q \in Query PROVE TellsTheTruth(QuerySpans(spans, map, q), "span", q)
  <2>1. \A i \in Arrived("span") : SpanEntry(i).of = i /\ SpanEntry(i).trace = SaidBy(i).trace
    <3>1. \A i \in Arrived("span") : Deliverable(i) /\ Item(i).kind # "log"
      BY <1>1, ItemSays DEF Arrived
    <3> QED
      BY <3>1, SpanEntryFacts
  <2>2. \A r : r \in QuerySpans(spans, map, q) <=>
                 \E i \in Arrived("span") :
                    r = SpanEntry(i) /\ InScope(map, SaidBy(i).trace, q.conv, q.user)
    BY <2>1 DEF QuerySpans, TablesInv
  <2>3. {r.of : r \in QuerySpans(spans, map, q)} =
           {i \in Arrived("span") :
              /\ InScope(map, SaidBy(i).trace, q.conv, q.user)
              /\ "span" = "log" => /\ q.level = Unasked \/ AtLeast(SaidBy(i).severity, q.level)
                                   /\ q.since = Unasked \/ SaidBy(i).ts >= q.since}
    BY <2>1, <2>2
  <2> QED
    BY <2>3, Answers
<1> QED
  BY <1>2, <1>3 DEF QueriesTellTheTruth

(* The tables are of their types, since the rows of records are.           *)
LEMMA TablesTypes ==
    ASSUME ClientTypeOK, ContextInv, TablesInv
    PROVE  TypeOK
<1>1. /\ \A i \in arrived : Deliverable(i)
      /\ NoTrace = Unset
  BY ArrivedDeliverable, JourneyAssumption DEF TablesInv
<1>2. ASSUME NEW l \in logs PROVE l.ts \in Time /\ l.trace \in Traces \cup {NoTrace}
  <2>1. PICK i \in Arrived("log") : l = LogEntry(i)
    BY DEF TablesInv
  <2>2. Deliverable(i) /\ Item(i).kind = "log"
    BY <1>1, ItemSays DEF Arrived
  <2> QED
    BY <1>1, <2>1, <2>2, ItemSays, LogEntryFacts
<1>3. ASSUME NEW s \in spans PROVE s.trace \in Traces
  <2>1. PICK i \in Arrived("span") : s = SpanEntry(i)
    BY DEF TablesInv
  <2>2. Deliverable(i) /\ Item(i).kind # "log"
    BY <1>1, ItemSays DEF Arrived
  <2>3. SpanRow(i).trace = SaidBy(i).trace /\ SpanRow(i).trace # NoTrace
    BY <2>2, SpanRowFacts
  <2> QED
    BY <1>1, <2>1, <2>2, <2>3, ItemSays, SpanEntryFacts
<1> QED
  BY <1>2, <1>3 DEF TypeOK, TablesInv

(* No log is stored with a sensitive word.                                 *)
LEMMA TablesMasked ==
    ASSUME ContextInv, TablesInv
    PROVE  StoredLogsAreMasked
<1> SUFFICES ASSUME Masking, NEW l \in logs
             PROVE  Sensitive \cap (l.body.words \cup UNION {TextsOf(l.attrs[k]) : k \in AttrKeys}) = {}
  BY DEF StoredLogsAreMasked
<1>1. PICK i \in Arrived("log") : l = LogEntry(i)
  BY DEF TablesInv
<1>2. Deliverable(i) /\ Item(i).kind = "log"
  BY ArrivedDeliverable, ItemSays DEF Arrived, TablesInv
<1>3. l.body.words \cap Sensitive = {} /\ \A k \in AttrKeys : TextsOf(l.attrs[k]) \cap Sensitive = {}
  BY <1>1, <1>2, LogEntryFacts
<1> QED
  BY <1>3

(* As many conversations are listed as there are in the rows of a scope.   *)
LEMMA ListedOnce ==
    ASSUME IsFiniteSet(Rows(map)), NEW u
    PROVE  LET scope == ScopedRows(map, u)
               list == QueryConversations(map, u)
           IN  /\ Cardinality({k[1] : k \in scope}) = Cardinality(list)
               /\ {k[2] : k \in scope} = UNION {c.traces : c \in list}
<1> DEFINE S == ScopedRows(map, u)
           C == {k[1] : k \in S}
           Of(c) == {k \in S : k[1] = c}
           entry(c) == [conv   |-> c,
                        first  |-> Min({map[k].first : k \in Of(c)}),
                        traces |-> {k[2] : k \in Of(c)}]
           L == QueryConversations(map, u)
<1>1. L = {entry(c) : c \in C}
  BY DEF QueryConversations
<1>2. IsFiniteSet(S)
  BY FS_Subset DEF ScopedRows
<1>3. IsFiniteSet(C)
  <2> DEFINE f == [k \in S |-> k[1]]
  <2>1. f \in Surjection(S, C)
    BY DEF Surjection
  <2> HIDE DEF f, S, C
  <2> QED
    BY <1>2, <2>1, FS_Surjection
<1>4. \A c : entry(c).conv = c /\ entry(c).traces = {k[2] : k \in Of(c)}
  OBVIOUS
<1> HIDE DEF L, entry
<1>5. Cardinality(L) = Cardinality(C)
  <2> DEFINE g == [c \in C |-> entry(c)]
  <2>1. g \in [C -> L] /\ \A c \in C : g[c] = entry(c)
    BY <1>1
  <2>2. \A c, d \in C : g[c] = g[d] => c = d
    BY <1>4, <2>1
  <2>3. \A l \in L : \E c \in C : g[c] = l
    BY <1>1, <2>1
  <2> HIDE DEF g, C
  <2>4. g \in Bijection(C, L)
    BY <2>1, <2>2, <2>3 DEF Bijection, Injection, IsInjective, Surjection
  <2> QED
    BY <1>3, <2>4, FS_Bijection DEF ExistsBijection
<1>6. {k[2] : k \in S} = UNION {c.traces : c \in L}
  <2>1. ASSUME NEW k \in S PROVE \E c \in L : k[2] \in c.traces
    BY <1>1, <1>4
  <2>2. ASSUME NEW c \in L, NEW x \in c.traces PROVE \E k \in S : x = k[2]
    BY <1>1, <1>4
  <2> QED
    BY <2>1, <2>2
<1> QED
  BY <1>5, <1>6 DEF L

(* The tables make the statistics, the list and the error logs agree.      *)
LEMMA TablesAgree ==
    ASSUME TablesInv
    PROVE  AnswersAgree
<1> SUFFICES ASSUME NEW u \in Users \cup {Unasked}, NEW since \in Time
             PROVE  LET stats == QueryStats(map, logs, u, since)
                        list == QueryConversations(map, u)
                        errors == [conv |-> Unasked, user |-> u, level |-> "ERROR", since |-> since, service |-> Unasked]
                    IN  /\ stats.errors = Cardinality(QueryLogs(logs, map, errors))
                        /\ since = 0 => /\ stats.conversations = Cardinality(list)
                                        /\ stats.turns = Cardinality(UNION {c.traces : c \in list})
  BY Zenon DEF AnswersAgree
<1> DEFINE stats == QueryStats(map, logs, u, since)
           list == QueryConversations(map, u)
           errors == [conv |-> Unasked, user |-> u, level |-> "ERROR", since |-> since, service |-> Unasked]
           scope == {k \in ScopedRows(map, u) : map[k].first >= since}
           failures == {l \in logs : /\ AtLeast(l.severity, "ERROR") /\ l.ts >= since
                                     /\ u = Unasked \/ l.trace \in TracesOfUser(map, u)}
<1>1. /\ stats.conversations = Cardinality({k[1] : k \in scope})
      /\ stats.turns = Cardinality({k[2] : k \in scope})
      /\ stats.errors = Cardinality(failures)
  BY Zenon DEF QueryStats
<1>2. QueryLogs(logs, map, errors) = failures
  <2>1. Unasked # "ERROR" /\ Unasked # since
    BY QueriesAssumption
  <2>2. errors.conv = Unasked /\ errors.user = u /\ errors.level = "ERROR"
        /\ errors.since = since /\ errors.service = Unasked
    OBVIOUS
  <2> HIDE DEF errors
  <2> QED
    BY <2>1, <2>2 DEF QueryLogs, InScope
<1>3. since = 0 => scope = ScopedRows(map, u)
  <2>1. ASSUME NEW k \in ScopedRows(map, u) PROVE map[k].first \in Nat
    <3>1. map[k] \in Row
      BY DEF ScopedRows, Rows, TablesInv, Maps
    <3> QED
      BY <3>1, TimesAreNaturals DEF Row
  <2> QED
    BY <2>1
<1>4. IsFiniteSet(Rows(map))
  BY DEF TablesInv
<1> HIDE DEF stats, list, errors, scope, failures
<1>5. /\ stats.errors = Cardinality(QueryLogs(logs, map, errors))
      /\ since = 0 => /\ stats.conversations = Cardinality(list)
                      /\ stats.turns = Cardinality(UNION {c.traces : c \in list})
  BY <1>1, <1>2, <1>3, <1>4, ListedOnce DEF list
<1> QED
  BY <1>5 DEF stats, list, errors

----------------------------------------------------------------------------
(* The specification.                                                      *)

(* What is kept by every step: the claims about the client's records, by   *)
(* the invariants they rest on as long as it runs, and the tables.         *)
ClientClaims ==
    IF ended THEN ActiveBridgeExports /\ OneCopyWithoutOverlap /\ OneDestination /\ MessagesLeaveScrubbed
    ELSE BridgeInv /\ OneCopyInv /\ DestinationInv /\ ScrubInv

JourneyInv == ClientTypeOK /\ ContextInv /\ ClientClaims /\ TablesInv

(* The invariants of the running client imply the claims.                  *)
LEMMA ClaimsFollow ==
    ASSUME ClientClaims
    PROVE  ActiveBridgeExports /\ OneCopyWithoutOverlap /\ OneDestination /\ MessagesLeaveScrubbed
  BY OneCopyFollows DEF ClientClaims, BridgeInv, DestinationInv, Settled, OneDestination, ScrubInv,
                        MessagesLeaveScrubbed

(* A store without rows and an application that has done nothing satisfy   *)
(* JourneyInv.                                                             *)
LEMMA JourneyStarts == Init => JourneyInv
<1> SUFFICES ASSUME Init PROVE JourneyInv
  OBVIOUS
<1>1. ClientInit /\ ClientTypeOK
  BY ClientTypeInit DEF Init
<1>2. BridgeInv /\ OneCopyInv /\ DestinationInv /\ ScrubInv
  BY <1>1 DEF ClientInit, BridgeInv, ActiveBridgeExports, OneCopyInv, Alone, SettingUp,
              DestinationInv, Settled, ScrubInv, ExportedLogs
<1>3. ContextInv
  <2>1. ContextOf(<<>>) = NoContext
    <3>1. UserOf(<<>>) = Unset
      BY DEF UserOf
    <3> QED
      BY <3>1 DEF ContextOf, NoContext
  <2>2. WellTagged(NoWork)
    BY StartedUntagged DEF NoWork
  <2> QED
    BY <1>1, <2>1, <2>2 DEF ClientInit, ContextInv
<1>4. TablesInv
  <2>1. map \in Maps /\ \A k \in Keys : map[k] = NoRow
    BY DEF Init, Maps
  <2>2. \A k : Hitters(k) = {}
    BY DEF Init, Hitters
  <2>3. Rows(map) = {}
    BY <2>1 DEF Rows
  <2>4. \A kind : Arrived(kind) = {}
    BY DEF Init, Arrived
  <2> QED
    BY <2>1, <2>2, <2>3, <2>4, FS_EmptySet DEF Init, TablesInv, RowTells
<1> QED
  BY <1>1, <1>2, <1>3, <1>4 DEF Init, JourneyInv, ClientClaims

(* What is exported stays exported.                                        *)
LEMMA ExportedGrows ==
    ASSUME ClientTypeOK, [ClientNext]_clientVars
    PROVE  exported \subseteq exported'
<1>1. CASE UNCHANGED clientVars
  BY <1>1 DEF clientVars, outVars
<1>2. CASE AdkInstalls
  BY <1>2 DEF AdkInstalls, outVars
<1>3. ASSUME NEW t \in Thread, t \in DOMAIN left.ask, InitStep(t) \/ WorkStep(t)
      PROVE  exported \subseteq exported'
  BY <1>3 DEF InitStep, Configure, SetDefault, Check, FindProvider, InstallProvider, Attach, Remember, GiveUp,
              CallAgain, WorkStep, Enter, Leave, StartSpan, EndSpan, LogRecord, outVars
<1> QED
  BY <1>1, <1>2, <1>3, ClientSteps

(* The tables are not the client's: they stay what they are.               *)
LEMMA TablesKept ==
    ASSUME TablesInv, exported \subseteq exported', UNCHANGED serverVars
    PROVE  TablesInv'
  BY DEF TablesInv, serverVars, Arrived, RowTells, Hitters

(* Every step of the client, its end and every delivery keep JourneyInv.   *)
LEMMA JourneyInductive == JourneyInv /\ [Next]_vars => JourneyInv'
<1> SUFFICES ASSUME JourneyInv, [Next]_vars PROVE JourneyInv'
  OBVIOUS
<1>1. ClientTypeOK /\ ContextInv /\ ClientClaims /\ TablesInv
  BY DEF JourneyInv
<1>2. ASSUME [ClientNext]_clientVars, UNCHANGED <<ended, serverVars>>, ~ended
      PROVE  JourneyInv'
  <2>1. ClientTypeOK' /\ ContextInv'
    BY <1>1, <1>2, ClientTypeInductive, ContextInductive
  <2>2. BridgeInv' /\ OneCopyInv' /\ DestinationInv' /\ ScrubInv'
    BY <1>1, <1>2, BridgeInductive, OneCopyInductive, DestinationInductive, ScrubInductive
       DEF ClientClaims
  <2>3. TablesInv'
    BY <1>1, <1>2, ExportedGrows, TablesKept
  <2> QED
    BY <1>2, <2>1, <2>2, <2>3 DEF JourneyInv, ClientClaims
<1>3. ASSUME UNCHANGED <<clientVars, ended>>
      PROVE  ClientTypeOK' /\ ContextInv' /\ ClientClaims'
  BY <1>1, <1>3 DEF ClientTypeOK, ContextInv, ClientClaims, ActiveBridgeExports, OneCopyWithoutOverlap,
     OneDestination, MessagesLeaveScrubbed, AllAskForPatterns, Patterns, Endpoint, BridgeInv, OneCopyInv,
     Alone, DestinationInv, Settled, ScrubInv, CopiesOf, ExportedLogs, clientVars, initVars, contextVars, outVars
<1>4. CASE UNCHANGED vars
  <2>1. TablesInv'
    BY <1>1, <1>4, TablesKept DEF vars, clientVars, outVars
  <2> QED
    BY <1>3, <1>4, <2>1 DEF JourneyInv, vars
<1>5. CASE End
  <2>1. Exit /\ ended' = TRUE /\ UNCHANGED serverVars
    BY <1>5 DEF End
  <2>2. ClientTypeOK'
    BY <1>1, <2>1, ExitType
  <2>3. ContextInv' /\ exported' = exported
    BY <1>1, <2>1 DEF Exit, ContextInv, contextVars
  <2>4. ClientClaims'
    BY <1>1, <2>1, ExitFacts, ClaimsFollow DEF ClientClaims
  <2> QED
    BY <1>1, <2>1, <2>2, <2>3, <2>4, TablesKept DEF JourneyInv
<1>6. ASSUME NEW i \in exported \cup DOMAIN Foreign, Deliver(i)
      PROVE  JourneyInv'
  <2>1. UNCHANGED <<clientVars, ended>>
    BY <1>6 DEF Deliver
  <2>2. TablesInv'
    BY <1>1, <1>6, DeliverKeepsTables
  <2> QED
    BY <1>3, <2>1, <2>2 DEF JourneyInv
<1> QED
  BY <1>2, <1>4, <1>5, <1>6 DEF Next

(* JourneyInv holds throughout.                                            *)
LEMMA JourneyHolds == Spec => []JourneyInv
  BY JourneyStarts, JourneyInductive, PTL DEF Spec

(* The conversation map, the times and the traces of the tables have their *)
(* types, in whatever order the records arrive and whatever form their ids *)
(* and times have.                                                         *)
THEOREM JourneyTypeCorrect == Spec => []TypeOK
<1>1. JourneyInv => TypeOK
  BY TablesTypes DEF JourneyInv
<1> QED
  BY <1>1, JourneyHolds, PTL

(* Whatever the order of delivery, the forms of ids and times, the nesting *)
(* of conversations and the masking: a query finds nothing of a trace on   *)
(* which nothing was done in a block of its conversation or of its user,   *)
(* and everything of a trace on which something is tagged, by right, with  *)
(* its conversation, or with some conversation and its user alone.         *)
THEOREM QueriesAreTrue == Spec => []QueriesTellTheTruth
<1>1. JourneyInv => QueriesTellTheTruth
  BY TablesTellTheTruth DEF JourneyInv
<1> QED
  BY <1>1, JourneyHolds, PTL

(* The statistics count the conversations and turns that the list of       *)
(* conversations shows, and the error logs that the query for errors       *)
(* returns.                                                                *)
THEOREM PagesAgree == Spec => []AnswersAgree
<1>1. JourneyInv => AnswersAgree
  BY TablesAgree DEF JourneyInv
<1> QED
  BY <1>1, JourneyHolds, PTL

(* With masking on, the table of logs never holds a sensitive word,        *)
(* neither in a body nor at any depth of an attribute, whatever a service  *)
(* sends.                                                                  *)
THEOREM LogsAreMasked == Spec => []StoredLogsAreMasked
<1>1. JourneyInv => StoredLogsAreMasked
  BY TablesMasked DEF JourneyInv
<1> QED
  BY <1>1, JourneyHolds, PTL

(* What is claimed of the exported records (that they are exported, once,  *)
(* to one collector, with a scrubbed message) holds while the application  *)
(* runs and after it has ended.                                          *)
THEOREM RecordsKeepTheirClaims ==
    Spec => [](ActiveBridgeExports /\ OneCopyWithoutOverlap /\ OneDestination /\ MessagesLeaveScrubbed)
<1>1. JourneyInv => ActiveBridgeExports /\ OneCopyWithoutOverlap /\ OneDestination /\ MessagesLeaveScrubbed
  BY ClaimsFollow DEF JourneyInv
<1> QED
  BY <1>1, JourneyHolds, PTL
=============================================================================
