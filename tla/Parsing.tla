------------------------------ MODULE Parsing ------------------------------
(***************************************************************************)
(* From the wire to rows: what the parser makes of one OTLP record.  A     *)
(* text is the set of its words; an id, which may come in either case, is  *)
(* [id, upper]; a name such as a conversation id is a text of one word.    *)
(***************************************************************************)
EXTENDS ConversationMap

CONSTANTS
    Numerals,   \* words that read as numbers
    Absent,     \* the key is not there, or it is JSON's null
    Zeros,      \* an id of zeros only
    Words,      \* what texts are made of
    AttrKeys,   \* the keys of attributes
    Nesting     \* bound: how deep values nest

ConversationAttr == "gen_ai.conversation.id"
UserAttr == "user.id"

ScalarKinds == {"stringValue", "bytesValue", "intValue", "doubleValue", "boolValue"}

ScalarWire == [kind : ScalarKinds, words : SUBSET Words]

RawIds == [id : Traces, upper : BOOLEAN]

ASSUME ParsingAssumption ==
    /\ Nesting \in Nat
    /\ {ConversationAttr, UserAttr} \subseteq AttrKeys
    /\ Absent \notin Nat /\ Absent \notin ScalarWire /\ Absent \notin Traces \cup AttrKeys
    /\ {Absent, Zeros} \cap RawIds = {}

----------------------------------------------------------------------------
(* Values.  A wire value is a scalar, a list or a list of keys and values; *)
(* a parsed one is null, text, number (any other scalar), list or map, and *)
(* a map has null for the keys it lacks, as the get of a dict does.        *)

Null == [type |-> "null", words |-> {}]
Text(words) == [type |-> "text", words |-> words]
Number(words) == [type |-> "number", words |-> words]

WireLevel[n \in Nat] ==
    IF n = 0
    THEN {Absent} \cup ScalarWire
    ELSE WireLevel[n - 1]
         \cup [kind : {"arrayValue"}, items : Seq(WireLevel[n - 1])]
         \cup [kind : {"kvlistValue"},
               entries : Seq([key : AttrKeys \cup {Absent}, value : WireLevel[n - 1]])]

ValueLevel[n \in Nat] ==
    IF n = 0
    THEN {Null} \cup [type : {"text", "number"}, words : SUBSET Words]
    ELSE ValueLevel[n - 1]
         \cup [type : {"list"}, items : Seq(ValueLevel[n - 1])]
         \cup [type : {"map"}, entries : [AttrKeys -> ValueLevel[n - 1]]]

Wire == WireLevel[Nesting]
Value == ValueLevel[Nesting]

(* A list of keys and values, and what it has for a key: the last, if the  *)
(* key is given twice; entries without a key are skipped.                  *)
Entries == Seq([key : AttrKeys \cup {Absent}, value : Wire])

Under(list, key) == {i \in DOMAIN list : list[i].key = key /\ key # Absent}

ParseScalar(w) ==
    CASE w.kind \in {"stringValue", "bytesValue"} -> Text(w.words)
      [] w.kind = "intValue" ->
            IF w.words \subseteq Numerals THEN Number(w.words) ELSE Text(w.words)
      [] w.kind \in {"doubleValue", "boolValue"} -> Number(w.words)

AnyValue[w \in Wire] ==
    IF w = Absent THEN Null
    ELSE CASE w.kind = "arrayValue" ->
                 [type |-> "list", items |-> [i \in DOMAIN w.items |-> AnyValue[w.items[i]]]]
           [] w.kind = "kvlistValue" ->
                 [type |-> "map", entries |-> [k \in AttrKeys |->
                     IF Under(w.entries, k) = {} THEN Null
                     ELSE AnyValue[w.entries[Max(Under(w.entries, k))].value]]]
           [] w.kind \in ScalarKinds -> ParseScalar(w)

Attributes(list) ==
    [k \in AttrKeys |-> IF Under(list, k) = {} THEN Null
                        ELSE AnyValue[list[Max(Under(list, k))].value]]

(* The scalars of a value, at any depth.                                   *)
Leaves[v \in Value] ==
    CASE v.type = "list" -> UNION {Leaves[v.items[i]] : i \in DOMAIN v.items}
      [] v.type = "map" -> UNION {Leaves[v.entries[k]] : k \in AttrKeys}
      [] v.type \in {"null", "text", "number"} -> {v}

WordsOf(v) == UNION {leaf.words : leaf \in Leaves[v]}
TextsOf(v) == UNION {leaf.words : leaf \in {l \in Leaves[v] : l.type = "text"}}

(* A body that is no text is dumped as JSON.                               *)
BodyText(w) == Text(WordsOf(AnyValue[w]))

----------------------------------------------------------------------------
(* Ids, times and levels.                                                  *)

(* An id of either case is one id, and one of zeros is none.               *)
HexId(raw, none) == IF raw \in {Absent, Zeros} THEN none ELSE raw.id

(* The first of the times that is a positive number, or else the present.  *)
Ts(nanos, fallback, now) ==
    IF nanos \in Nat \ {0} THEN nanos
    ELSE IF fallback \in Nat \ {0} THEN fallback ELSE now

SeverityFloor == [TRACE |-> 1, DEBUG |-> 5, INFO |-> 9, WARN |-> 13, WARNING |-> 13,
                  ERROR |-> 17, FATAL |-> 21, CRITICAL |-> 21]

----------------------------------------------------------------------------
(* Records.                                                                *)

Name(v) == CHOOSE w \in v.words : TRUE

(* Values that say nothing and the number zero count as no conversation,   *)
(* not so for a user.                                                      *)
Falsy(v) == WordsOf(v) = {} \/ v = Number({"0"})

LinkFromAttrs(attrs, trace, ts) ==
    [conv  |-> IF Falsy(attrs[ConversationAttr]) THEN NoConv
               ELSE Name(attrs[ConversationAttr]),
     trace |-> trace,
     user  |-> IF attrs[UserAttr] = Null THEN NoUser
               ELSE Name(attrs[UserAttr]),
     ts    |-> ts]

ParseLog(w, now) ==
    [ts       |-> Ts(w.time, w.observed, now),
     severity |-> w.severity,
     service  |-> w.service,
     trace    |-> HexId(w.trace, NoTrace),
     body     |-> BodyText(w.body),
     attrs    |-> Attributes(w.attrs)]

(* Of a span, what the reads and the masking look at.                      *)
ParseSpan(w, now) ==
    [ts    |-> Ts(w.time, Absent, now),
     trace |-> HexId(w.trace, NoTrace),
     span  |-> HexId(w.span, Absent),
     attrs |-> Attributes(w.attrs)]

LinkOf(row) == LinkFromAttrs(row.attrs, row.trace, row.ts)
=============================================================================
