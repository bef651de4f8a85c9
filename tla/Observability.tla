--------------------------- MODULE Observability ---------------------------
(***************************************************************************)
(* The library inside an application: threads that call                    *)
(* init_observability, at once or one after the other, enter and leave     *)
(* conversations, work under spans and log.  What leaves the process is    *)
(* collected in exported.                                                  *)
(*                                                                         *)
(* The SDK is external: its global provider can be set once, its handlers  *)
(* hand every record to their provider, and the context of a thread (the   *)
(* current span and the baggage) is the thread's own.  Batches are left    *)
(* out: what a handler was given counts as exported.                       *)
(***************************************************************************)
EXTENDS Naturals, Sequences, SequencesExt

CONSTANTS
    Thread,
    Endpoints,    \* what a call may name as its endpoint
    Names,        \* conversations that are entered
    People,       \* users that are named on entering
    Work,         \* the traces that spans are started on
    Unset,        \* no endpoint, conversation, user, span or provider
    Adk,          \* the provider that the agent framework installs itself
    Plans         \* bounds: how often an application does what, in any order,
                  \* in .env the endpoint that the environment has for it, and
                  \* in .ask what the call of each of its threads asks for

Asking == [endpoint : Endpoints \cup {Unset}, patterns : {"none", "good", "bad"}]

Plan == [ask : UNION {[T -> Asking] : T \in SUBSET Thread}, env : Endpoints \cup {Unset},
         adk : Nat, enters : Nat, spans : Nat, logs : Nat, faults : Nat]

ASSUME ObservabilityAssumption ==
    /\ Unset \notin Names \cup People \cup Endpoints \cup Work \cup Thread \cup {Adk}
    /\ Adk \notin Thread
    /\ Plans \subseteq Plan

VARIABLES
    env,       \* OTEL_EXPORTER_OTLP_ENDPOINT
    provider,  \* the global provider, once an SDK one is set
    target,    \* target[p]: the endpoint of provider p's exporter
    handlers,  \* the handlers that the root logger has been given, in order
    state,     \* _state["handler"]
    call,      \* call[t]: how far t's call has come, and what it returned
    mine,      \* mine[t]: the provider that t's call has got hold of
    overlap,   \* history: where two calls passed the same test at once
    baggage,   \* baggage[t]: conversation and user in t's context
    tokens,    \* tokens[t]: the contexts to return to
    frames,    \* history: what the conversations t is in were entered with
    span,      \* span[t]: the span that t works under
    exported,  \* what the handlers exported, and the spans that ended
    printed,   \* what the console handler printed
    left       \* what is left of the plan

initVars == <<env, provider, target, handlers, state, call, mine, overlap>>
contextVars == <<baggage, tokens, frames, span>>
outVars == <<exported, printed>>
clientVars == <<initVars, contextVars, outVars, left>>

Provider == Thread \cup {Adk}
Calls == {"before", "default", "check", "find", "install", "attach", "remember", "true", "false"}
InCall(t) == call[t] \in {"default", "check", "find", "install", "attach", "remember"}
Context == [conv : Names \cup {Unset}, user : People \cup {Unset}]
NoContext == [conv |-> Unset, user |-> Unset]

(* A span: its trace and the two attributes it is tagged with.  History:   *)
(* what it was started in, and the conversations entered under it, in      *)
(* order, each with the user it was entered with.                          *)
WorkSpan == [trace : Work \cup {Unset}, conv : Names \cup {Unset}, user : People \cup {Unset},
             around : Context, entered : Seq(Context)]
Started(x, context) == [trace |-> x, conv |-> Unset, user |-> Unset,
                        around |-> context, entered |-> <<>>]
NoWork == Started(Unset, NoContext)

Handler == [provider : Provider, scrubs : BOOLEAN]

ClientTypeOK ==
    /\ env \in Endpoints \cup {Unset}
    /\ provider \in Provider \cup {Unset}
    /\ target \in [Provider -> Endpoints \cup {Unset}]
    /\ handlers \in Seq(Handler)
    /\ state \in Thread \cup {Unset}
    /\ call \in [Thread -> Calls]
    /\ mine \in [Thread -> Provider \cup {Unset}]
    /\ \A t \in Thread : call[t] \in {"install", "attach", "remember"} => mine[t] # Unset
    /\ overlap \subseteq {"endpoint", "handler"}
    /\ baggage \in [Thread -> Context]
    /\ tokens \in [Thread -> Seq(Context)] /\ frames \in [Thread -> Seq(Context)]
    /\ \A t \in Thread : Len(tokens[t]) = Len(frames[t])
    /\ span \in [Thread -> WorkSpan]
    /\ \A e \in exported : e.kind = "log" => e.id \in Nat
    /\ \A p \in printed : p.id \in Nat
    /\ left \in Plan

ClientInit ==
    /\ left \in Plans
    /\ env = left.env
    /\ provider = Unset
    /\ target = [p \in Provider |-> Unset]
    /\ handlers = <<>>
    /\ state = Unset
    /\ call = [t \in Thread |-> "before"]
    /\ mine = [t \in Thread |-> Unset]
    /\ overlap = {}
    /\ baggage = [t \in Thread |-> NoContext]
    /\ tokens = [t \in Thread |-> <<>>]
    /\ frames = [t \in Thread |-> <<>>]
    /\ span = [t \in Thread |-> NoWork]
    /\ exported = {} /\ printed = {}

----------------------------------------------------------------------------
(* init_observability.                                                     *)

Goto(t, c) == call' = [call EXCEPT ![t] = c]

Endpoint(t) == left.ask[t].endpoint
Patterns(t) == left.ask[t].patterns

Spend(what) == [left EXCEPT ![what] = @ - 1]

(* Mutant: the endpoint of the call replaces the one of the environment.   *)
ConfigureOverriding(t) ==
    /\ call[t] = "before"
    /\ Goto(t, IF Endpoint(t) # Unset THEN "default" ELSE IF env # Unset THEN "check" ELSE "false")
    /\ UNCHANGED <<env, provider, target, handlers, state, mine, overlap,
                   contextVars, outVars, left>>

(* The endpoint of the call counts only where the environment has none.    *)
(* setdefault looks first and writes then, and threads run in between.     *)
Configure(t) ==
    /\ call[t] = "before"
    /\ Goto(t, IF env # Unset THEN "check" ELSE IF Endpoint(t) # Unset THEN "default" ELSE "false")
    /\ UNCHANGED <<env, provider, target, handlers, state, mine, overlap,
                   contextVars, outVars, left>>

SetDefault(t) ==
    /\ call[t] = "default"
    /\ env' = Endpoint(t)
    /\ Goto(t, "check")
    /\ overlap' = IF env \in {Unset, Endpoint(t)} THEN overlap ELSE overlap \cup {"endpoint"}
    /\ UNCHANGED <<provider, target, handlers, state, mine, contextVars, outVars, left>>

Check(t) ==
    /\ call[t] = "check"
    /\ Goto(t, IF state # Unset THEN "true" ELSE "find")
    /\ overlap' = IF state = Unset /\ \E u \in Thread \ {t} :
                         call[u] \in {"find", "install", "attach", "remember"}
                  THEN overlap \cup {"handler"} ELSE overlap
    /\ UNCHANGED <<env, provider, target, handlers, state, mine,
                   contextVars, outVars, left>>

(* An SDK provider that is there is used, otherwise one is made, with an   *)
(* exporter to the endpoint of the environment.                            *)
FindProvider(t) ==
    /\ call[t] = "find"
    /\ IF provider # Unset
       THEN /\ mine' = [mine EXCEPT ![t] = provider]
            /\ Goto(t, "attach")
            /\ UNCHANGED target
       ELSE /\ mine' = [mine EXCEPT ![t] = t]
            /\ target' = [target EXCEPT ![t] = env]
            /\ Goto(t, "install")
    /\ UNCHANGED <<env, provider, handlers, state, overlap,
                   contextVars, outVars, left>>

(* The global provider is set once; who comes late keeps to his own.       *)
InstallProvider(t) ==
    /\ call[t] = "install"
    /\ provider' = IF provider = Unset THEN t ELSE provider
    /\ Goto(t, "attach")
    /\ UNCHANGED <<env, target, handlers, state, mine, overlap,
                   contextVars, outVars, left>>

(* Mutant: the handler is attached before its filters are complete.        *)
AttachUnfiltered(t) ==
    /\ call[t] = "attach" /\ Patterns(t) # "bad"
    /\ handlers' = Append(handlers, [provider |-> mine[t], scrubs |-> FALSE])
    /\ Goto(t, "remember")
    /\ UNCHANGED <<env, provider, target, state, mine, overlap,
                   contextVars, outVars, left>>

(* Mutant: the handler is remembered before it is attached.                *)
AttachLate(t) ==
    /\ call[t] = "attach" /\ Patterns(t) # "bad"
    /\ state' = t
    /\ IF state = t
       THEN /\ handlers' = Append(handlers, [provider |-> mine[t], scrubs |-> Patterns(t) = "good"])
            /\ Goto(t, "remember")
       ELSE UNCHANGED <<handlers, call>>
    /\ UNCHANGED <<env, provider, target, mine, overlap,
                   contextVars, outVars, left>>

(* The handler gets its filters, which fails on patterns that do not       *)
(* compile, and then its place behind the ones attached before.            *)
Attach(t) ==
    /\ call[t] = "attach" /\ Patterns(t) # "bad"
    /\ handlers' = Append(handlers, [provider |-> mine[t], scrubs |-> Patterns(t) = "good"])
    /\ Goto(t, "remember")
    /\ UNCHANGED <<env, provider, target, state, mine, overlap,
                   contextVars, outVars, left>>

(* Mutant: the handler is not kept.                                        *)
ForgetHandler(t) ==
    /\ call[t] = "remember"
    /\ Goto(t, "true")
    /\ UNCHANGED <<env, provider, target, handlers, state, mine, overlap,
                   contextVars, outVars, left>>

Remember(t) ==
    /\ call[t] = "remember"
    /\ state' = t
    /\ Goto(t, "true")
    /\ mine' = [mine EXCEPT ![t] = Unset]
    /\ UNCHANGED <<env, provider, target, handlers, overlap,
                   contextVars, outVars, left>>

(* Anything that raises is caught by the caller of _init: what was done    *)
(* stays, and the call returns False.                                      *)
GiveUp(t) ==
    /\ call[t] \in {"find", "install", "attach"}
    /\ \/ call[t] = "attach" /\ Patterns(t) = "bad" /\ UNCHANGED left
       \/ left.faults > 0 /\ left' = Spend("faults")
    /\ Goto(t, "false")
    /\ mine' = [mine EXCEPT ![t] = Unset]
    /\ UNCHANGED <<env, provider, target, handlers, state, overlap, contextVars, outVars>>

(* A call that failed, or found no endpoint, may be made again.            *)
CallAgain(t) ==
    /\ call[t] = "false"
    /\ Goto(t, "before")
    /\ UNCHANGED <<env, provider, target, handlers, state, mine, overlap,
                   contextVars, outVars, left>>

(* The agent framework installs a provider of its own, if it is told of an *)
(* endpoint by the environment.                                            *)
AdkInstalls ==
    /\ provider = Unset /\ env # Unset
    /\ left.adk > 0 /\ left' = Spend("adk")
    /\ provider' = Adk
    /\ target' = [target EXCEPT ![Adk] = env]
    /\ UNCHANGED <<env, handlers, state, call, mine, overlap, contextVars, outVars>>

----------------------------------------------------------------------------
(* conversation_context, spans and records.                                *)

(* A thread sees to its call first.                                        *)
Free(t) == call[t] \in {"true", "false"}

Named(a, b) == IF a = Unset THEN b ELSE a

(* A span that records is tagged anew by every conversation entered under  *)
(* it, and keeps its user where none is named.                             *)
TagSpan(w, c, u) ==
    [w EXCEPT !.conv = c, !.user = Named(u, w.user),
              !.entered = Append(w.entered, [conv |-> c, user |-> u])]

(* Mutant: a span that is tagged already keeps its first conversation.     *)
EnterOnce(t, c, u) ==
    /\ Free(t)
    /\ left.enters > 0 /\ left' = Spend("enters")
    /\ baggage' = [baggage EXCEPT ![t] = [conv |-> c, user |-> Named(u, @.user)]]
    /\ tokens' = [tokens EXCEPT ![t] = Append(@, baggage[t])]
    /\ frames' = [frames EXCEPT ![t] = Append(@, [conv |-> c, user |-> u])]
    /\ span' = [span EXCEPT ![t] =
                   IF @.trace = Unset THEN @
                   ELSE [TagSpan(@, c, u) EXCEPT !.conv = Named(span[t].conv, c),
                                                 !.user = Named(span[t].user, u)]]
    /\ UNCHANGED <<initVars, outVars>>

(* The context of the block: its conversation, and its user or else the    *)
(* one already in the baggage.  A span that records is tagged as well.     *)
Enter(t, c, u) ==
    /\ Free(t)
    /\ left.enters > 0 /\ left' = Spend("enters")
    /\ baggage' = [baggage EXCEPT ![t] = [conv |-> c, user |-> Named(u, @.user)]]
    /\ tokens' = [tokens EXCEPT ![t] = Append(@, baggage[t])]
    /\ frames' = [frames EXCEPT ![t] = Append(@, [conv |-> c, user |-> u])]
    /\ span' = [span EXCEPT ![t] = IF @.trace = Unset THEN @ ELSE TagSpan(@, c, u)]
    /\ UNCHANGED <<initVars, outVars>>

Leave(t) ==
    /\ frames[t] # <<>>
    /\ baggage' = [baggage EXCEPT ![t] = Last(tokens[t])]
    /\ tokens' = [tokens EXCEPT ![t] = Front(@)]
    /\ frames' = [frames EXCEPT ![t] = Front(@)]
    /\ UNCHANGED <<initVars, outVars, span, left>>

(* The user that the conversations a thread is in name, innermost first.   *)
UserOf(fs) ==
    LET naming == {i \in DOMAIN fs : fs[i].user # Unset}
    IN  IF naming = {} THEN Unset
        ELSE fs[CHOOSE i \in naming : \A j \in naming : j <= i].user

(* What the blocks that a thread is in say of what it does.                *)
Truth(t) ==
    [conv |-> IF frames[t] = <<>> THEN Unset ELSE Last(frames[t]).conv,
     user |-> UserOf(frames[t])]

StartSpan(t, x) ==
    /\ Free(t) /\ span[t] = NoWork
    /\ left.spans > 0 /\ left' = Spend("spans")
    /\ span' = [span EXCEPT ![t] = Started(x, Truth(t))]
    /\ UNCHANGED <<initVars, outVars, baggage, tokens, frames>>

(* The span is exported by the tracing side, which is not this library's.  *)
SpanExport(w) ==
    [kind |-> "span", trace |-> w.trace, conv |-> w.conv, user |-> w.user,
     around |-> w.around, entered |-> w.entered]

EndSpan(t) ==
    /\ span[t] # NoWork
    /\ span' = [span EXCEPT ![t] = NoWork]
    /\ exported' = exported \cup {SpanExport(span[t])}
    /\ UNCHANGED <<initVars, printed, baggage, tokens, frames, left>>

(* Every record holds a secret, which the patterns of all calls match, in  *)
(* its message and in what it is given besides (extra attributes, the text *)
(* of an exception); a handler exports both.  A record passes the handlers *)
(* in order; it is one object, so a filter that rewrites its message has   *)
(* rewritten it for the handlers behind as well.  No filter looks at the   *)
(* rest.                                                                   *)
Copy(t, i) ==
    [kind |-> "log", id |-> left.logs, by |-> i, to |-> target[handlers[i].provider],
     trace |-> span[t].trace, conv |-> baggage[t].conv, user |-> baggage[t].user,
     secret |-> {"extra"} \cup (IF \E j \in 1..i : handlers[j].scrubs THEN {} ELSE {"message"}),
     truth |-> Truth(t)]

Copies(t) == {Copy(t, i) : i \in DOMAIN handlers}

LogRecord(t) ==
    /\ Free(t)
    /\ left.logs > 0 /\ left' = Spend("logs")
    /\ printed' = printed \cup {[id |-> left.logs, active |-> call[t] = "true"]}
    /\ exported' = exported \cup Copies(t)
    /\ UNCHANGED <<initVars, contextVars>>

(* The process ends, and what it kept goes with it.                        *)
Exit ==
    /\ \A t \in Thread : ~InCall(t) /\ span[t] = NoWork /\ frames[t] = <<>>
    /\ env' = Unset /\ provider' = Unset /\ state' = Unset
    /\ target' = [p \in Provider |-> Unset]
    /\ handlers' = <<>>
    /\ call' = [t \in Thread |-> "before"]
    /\ mine' = [t \in Thread |-> Unset]
    /\ printed' = {}
    /\ left' = [k \in DOMAIN left |-> IF k \in {"ask", "env"} THEN left[k] ELSE 0]
    /\ UNCHANGED <<overlap, contextVars, exported>>

----------------------------------------------------------------------------
InitStep(t) ==
    \/ Configure(t) \/ SetDefault(t) \/ Check(t) \/ FindProvider(t) \/ InstallProvider(t)
    \/ Attach(t) \/ Remember(t) \/ GiveUp(t) \/ CallAgain(t)

WorkStep(t) ==
    \/ \E c \in Names, u \in People \cup {Unset} : Enter(t, c, u)
    \/ Leave(t)
    \/ \E x \in Work : StartSpan(t, x)
    \/ EndSpan(t)
    \/ LogRecord(t)

ClientNext == AdkInstalls \/ \E t \in DOMAIN left.ask : InitStep(t) \/ WorkStep(t)

ClientSpec == ClientInit /\ [][ClientNext]_clientVars

----------------------------------------------------------------------------
(* Properties.                                                             *)

ExportedLogs == {e \in exported : e.kind = "log"}
CopiesOf(id) == {e \in ExportedLogs : e.id = id}

(* Once a call has returned True in a thread, every record the thread logs *)
(* is exported, whichever thread's call set the bridge up.                 *)
ActiveBridgeExports ==
    \A p \in printed : p.active => CopiesOf(p.id) # {}

(* A record is exported twice only if two calls were inside the set-up at  *)
(* once: calls one after the other, failed ones included, attach one       *)
(* handler.                                                                *)
OneCopyWithoutOverlap ==
    "handler" \notin overlap => \A p \in printed : Cardinality(CopiesOf(p.id)) <= 1

(* The records of a process go to the collector that the environment named *)
(* from the start, if it named one; if not, to one collector, whatever     *)
(* endpoints the calls name, fail after and whoever installs the provider, *)
(* unless two calls that name different ones found none there at once.     *)
OneDestination ==
    \A d, e \in ExportedLogs : /\ left.env \in {d.to, Unset}
                               /\ "endpoint" \notin overlap => d.to = e.to

AllAskForPatterns == \A t \in DOMAIN left.ask : Patterns(t) # "none"

(* If every call asked for patterns, no record leaves with its secret in   *)
(* the message, whichever of its calls failed half way and however many    *)
(* handlers there are.                                                     *)
MessagesLeaveScrubbed == AllAskForPatterns => \A e \in ExportedLogs : "message" \notin e.secret

(* What the documentation says of redaction: exported records, all that    *)
(* leaves the process, are scrubbed.                                       *)
RecordsLeaveScrubbed == AllAskForPatterns => \A e \in ExportedLogs : e.secret = {}
=============================================================================
