----------------------------- MODULE MCJourney -----------------------------
(***************************************************************************)
(* For TLC: an application of two threads that name different endpoints,   *)
(* and two records of other services, on the trace of the first thread: a  *)
(* span whose conversation is a number and whose times are useless, and an *)
(* error whose trace id is in upper case, whose time is that of its        *)
(* observation and which holds a secret deep in its attributes.  The user  *)
(* u1 has a name that the patterns match.                                  *)
(***************************************************************************)
EXTENDS Journey, TLC

CONSTANTS ta, tb, x1, x2, u1, u2, app, adkSpan, errorLog

Seven == "7"

Call(endpoint, patterns) == [endpoint |-> endpoint, patterns |-> patterns]

MCPlans ==
    {[env |-> Unset, ask |-> (ta :> Call("a", "good")) @@ (tb :> Call("b", "good")),
      adk |-> 1, enters |-> 0, spans |-> 0, logs |-> 2, faults |-> 1],
     [env |-> "c", ask |-> (ta :> Call("a", "bad")) @@ (tb :> Call(Unset, "good")),
      adk |-> 1, enters |-> 1, spans |-> 0, logs |-> 1, faults |-> 0],
     [env |-> Unset, ask |-> (ta :> Call("a", "none")),
      adk |-> 0, enters |-> 2, spans |-> 1, logs |-> 1, faults |-> 0],
     [env |-> Unset, ask |-> (ta :> Call("a", "none")),
      adk |-> 0, enters |-> 2, spans |-> 2, logs |-> 0, faults |-> 0],
     [env |-> Unset, ask |-> (ta :> Call("a", "good")),
      adk |-> 0, enters |-> 1, spans |-> 1, logs |-> 2, faults |-> 0]}
MCConversations == {Seven, "c2"}
MCSensitive == {u1}
MCWords == MCConversations \cup {u1, u2, "hello", Mask}
MCAttrKeys == {ConversationAttr, UserAttr, "extra", "to"}

Pair(key, value) == [key |-> key, value |-> value]
List(items) == [kind |-> "arrayValue", items |-> items]

MCForeign ==
    (adkSpan :> [wire  |-> [kind |-> "span", time |-> 0, trace |-> [id |-> x1, upper |-> FALSE],
                            span |-> [id |-> x1, upper |-> TRUE],
                            attrs |-> <<Pair(ConversationAttr, [kind |-> "intValue", words |-> {Seven}]),
                                        Pair(UserAttr, Str(u2))>>],
                 truth |-> [kind |-> "span", trace |-> x1, ts |-> Arrival, severity |-> Absent,
                            conv |-> Seven, user |-> u2]])
 @@ (errorLog :> [wire |-> [kind |-> "log", time |-> 0, observed |-> 1, severity |-> 17,
                            service |-> app, trace |-> [id |-> x1, upper |-> TRUE],
                            body |-> List(<<Str("hello"), Str(u1)>>),
                            attrs |-> <<Pair(Absent, Str("hello")),
                                        Pair("extra", [kind |-> "kvlistValue",
                                                       entries |-> <<Pair("to", List(<<Str(u1)>>))>>])>>],
                 truth |-> [kind |-> "log", trace |-> x1, ts |-> 1, severity |-> 17,
                            conv |-> NoConv, user |-> NoUser]])
=============================================================================
