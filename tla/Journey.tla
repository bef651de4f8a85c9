------------------------------ MODULE Journey ------------------------------
(***************************************************************************)
(* A record's way from the line that logs it to the page that shows it:    *)
(* an application that uses the library (Observability), services with     *)
(* exporters of their own, the parser, the masking, the store and the read *)
(* side (Queries).  The collector delivers in any order; repeated and      *)
(* failed deliveries are the subject of Ingest, expiry that of PulseStore. *)
(***************************************************************************)
EXTENDS Observability, Queries

CONSTANTS
    Foreign,   \* Foreign[f]: a record of another service, its wire form and truth
    Service,   \* service.name of the application
    LoggedAt   \* the time at which the application logs

ASSUME JourneyAssumption ==
    /\ {NoConv, NoTrace, NoUser} = {Unset}
    /\ Names \subseteq Conversations /\ People \subseteq Users /\ Work \subseteq Traces
    /\ Names \cup People \cup Sensitive \cup {"hello"} \subseteq Words
    /\ "extra" \in AttrKeys \ {ConversationAttr, UserAttr}
    /\ LoggedAt \in Time \ {0}

VARIABLES
    ended,    \* the application has come to its end
    arrived,  \* what has been delivered: exported and foreign records
    logs,     \* pulse_logs, each row with the record it came from
    spans,    \* pulse_spans
    map       \* pulse_conversation_map

serverVars == <<arrived, logs, spans, map>>
vars == <<clientVars, ended, serverVars>>

(* The time of every delivery: later than any record's own.                *)
Arrival == Horizon

Init ==
    /\ ClientInit
    /\ ended = FALSE
    /\ arrived = {} /\ logs = {} /\ spans = {}
    /\ map = [k \in Keys |-> NoRow]

----------------------------------------------------------------------------
(* The wire.                                                               *)

Str(word) == [kind |-> "stringValue", words |-> {word}]

Attr(key, name) == IF name = Unset THEN <<>> ELSE <<[key |-> key, value |-> Str(name)]>>

RawId(id) == IF id = Unset THEN Absent ELSE [id |-> id, upper |-> FALSE]

Content(secret) == [kind |-> "stringValue",
                    words |-> IF secret THEN {"hello"} \cup Sensitive ELSE {"hello"}]

(* What the exporters of the application send.  What a record is given     *)
(* besides its message is an attribute.                                    *)
WireOf(e) ==
    LET tags == Attr(ConversationAttr, e.conv) \o Attr(UserAttr, e.user)
    IN  IF e.kind = "log"
        THEN [kind |-> "log", time |-> LoggedAt, observed |-> Absent, severity |-> SeverityFloor.INFO,
              service |-> Service, trace |-> RawId(e.trace), body |-> Content("message" \in e.secret),
              attrs |-> tags \o <<[key |-> "extra", value |-> Content("extra" \in e.secret)]>>]
        ELSE [kind |-> "span", time |-> LoggedAt, trace |-> RawId(e.trace), span |-> RawId(e.trace),
              attrs |-> tags]

(* The truth of an exported record is the history of the thread that made  *)
(* it, not what it was exported with: what the blocks around it said, for  *)
(* a span those entered under it as well, in order.                        *)
TruthOfExport(e) ==
    [kind |-> e.kind, trace |-> e.trace, ts |-> LoggedAt, severity |-> SeverityFloor.INFO,
     around  |-> IF e.kind = "log" THEN e.truth ELSE e.around,
     entered |-> IF e.kind = "log" THEN <<e.truth>> ELSE e.entered]

(* A record of another service, as the protocol has it, and what it says:  *)
(* an id may come in either case or, of no trace, not at all or as zeros;  *)
(* the first useful time counts; a name is the last value of its key, a    *)
(* text or a number.  Spans have both ids, and no conversation is named by *)
(* the number zero.                                                        *)
SaysId(raw, id) ==
    \/ id = Unset /\ raw \in {Absent, Zeros}
    \/ id \in Traces /\ raw \in [id : {id}, upper : BOOLEAN]

SaysTime(times, ts) ==
    LET useful == {i \in DOMAIN times : times[i] \in Nat \ {0}}
    IN  ts = IF useful = {} THEN Arrival ELSE times[Min(useful)]

SaysName(attrs, key, name) ==
    IF Under(attrs, key) = {} THEN name = Unset
    ELSE /\ name # Unset
         /\ attrs[Max(Under(attrs, key))].value \in
                {w \in ScalarWire : w.kind \in {"stringValue", "intValue"} /\ w.words = {name}}

Zero == [kind |-> "intValue", words |-> {"0"}]

Says(wire, truth) ==
    /\ wire.kind = truth.kind
    /\ wire.attrs \in Entries
    /\ SaysId(wire.trace, truth.trace)
    /\ SaysName(wire.attrs, ConversationAttr, truth.conv)
    /\ \A i \in Under(wire.attrs, ConversationAttr) : wire.attrs[i].value # Zero
    /\ SaysName(wire.attrs, UserAttr, truth.user)
    /\ \/ /\ wire.kind = "log"
          /\ SaysTime(<<wire.time, wire.observed>>, truth.ts)
          /\ wire.severity = truth.severity
          /\ wire.body \in Wire
       \/ /\ wire.kind = "span"
          /\ SaysTime(<<wire.time>>, truth.ts)
          /\ truth.trace # Unset /\ wire.span \in RawIds

ASSUME ForeignAssumption ==
    \A f \in DOMAIN Foreign :
        LET truth == Foreign[f].truth
        IN  /\ truth.conv \in Conversations \cup {Unset} /\ truth.user \in Users \cup {Unset}
            /\ truth.ts \in Time
            /\ Says(Foreign[f].wire, truth)

(* What another service says of a record is said once.                     *)
TruthOfForeign(truth) ==
    LET named == [conv |-> truth.conv, user |-> truth.user]
    IN  [kind |-> truth.kind, trace |-> truth.trace, ts |-> truth.ts, severity |-> truth.severity,
         around |-> named, entered |-> <<named>>]

Item(i) == IF i \in DOMAIN Foreign THEN Foreign[i].wire ELSE WireOf(i)
TruthOf(i) == IF i \in DOMAIN Foreign THEN TruthOfForeign(Foreign[i].truth) ELSE TruthOfExport(i)

----------------------------------------------------------------------------
(* The service.                                                            *)

MaskedLog(row) == IF Masking THEN MaskLogRow(row) ELSE row
MaskedSpan(row) == IF Masking THEN MaskSpanRow(row) ELSE row

(* A row with the record that it is of.                                    *)
Stored(row, i) ==
    [k \in DOMAIN row \cup {"of"} |-> IF k = "of" THEN i ELSE row[k]]

(* Mutant: the links are taken from the masked rows.                       *)
IngestLogMaskedFirst(i) ==
    LET row == MaskedLog(ParseLog(Item(i), Arrival))
    IN  /\ logs' = logs \cup {Stored(row, i)}
        /\ map' = UpsertAll(map, <<LinkOf(row)>>)
        /\ UNCHANGED spans

(* The link is taken from the record as it came, the row stored masked.    *)
IngestLog(i) ==
    LET row == ParseLog(Item(i), Arrival)
    IN  /\ logs' = logs \cup {Stored(MaskedLog(row), i)}
        /\ map' = UpsertAll(map, <<LinkOf(row)>>)
        /\ UNCHANGED spans

IngestSpan(i) ==
    LET row == ParseSpan(Item(i), Arrival)
    IN  /\ spans' = IF row.trace = NoTrace \/ row.span = Absent THEN spans
                    ELSE spans \cup {Stored(MaskedSpan(row), i)}
        /\ map' = UpsertAll(map, <<LinkOf(row)>>)
        /\ UNCHANGED logs

(* Nothing of the store comes back to the application, so deliveries are   *)
(* put behind its end: the tables and the answers are the same.            *)
Deliver(i) ==
    /\ ended
    /\ i \notin arrived
    /\ arrived' = arrived \cup {i}
    /\ IF Item(i).kind = "log" THEN IngestLog(i) ELSE IngestSpan(i)
    /\ UNCHANGED <<clientVars, ended>>

End == ~ended /\ Exit /\ ended' = TRUE /\ UNCHANGED serverVars

Next ==
    \/ ~ended /\ ClientNext /\ UNCHANGED <<ended, serverVars>>
    \/ End
    \/ \E i \in exported \cup DOMAIN Foreign : Deliver(i)

Spec == Init /\ [][Next]_vars

----------------------------------------------------------------------------
(* Properties.                                                             *)

TypeOK ==
    /\ ClientTypeOK
    /\ arrived \subseteq exported \cup DOMAIN Foreign
    /\ map \in Maps
    /\ \A l \in logs : l.ts \in Time /\ l.trace \in Traces \cup {NoTrace}
    /\ \A s \in spans : s.trace \in Traces

(* A scope, or a level and a time: the conditions of a query are a         *)
(* conjunction, of which each is looked at.                                *)
ByScope(c, u) == [conv |-> c, user |-> u, level |-> Unasked, since |-> Unasked, service |-> Unasked]

ByLevel(l, s) == [conv |-> Unasked, user |-> Unasked, level |-> l, since |-> s, service |-> Unasked]

Query ==
    {ByScope(c, u) : c \in Conversations \cup {Unasked}, u \in Users \cup {Unasked}}
    \cup {ByLevel(l, s) : l \in {"INFO", "ERROR", Unasked}, s \in Time}

(* The contexts a record was made in, or that were entered under it.       *)
Said(t) == {t.around} \cup {t.entered[n] : n \in DOMAIN t.entered}

(* The one it is to be tagged with: the last of them under it.             *)
TagOf(t) == IF t.entered = <<>> THEN NoConv ELSE t.entered[Len(t.entered)].conv

(* The users who were named under it.                                      *)
NamedUsers(t) == {t.entered[n].user : n \in DOMAIN t.entered} \ {NoUser}

Truths == {TruthOf(i) : i \in arrived}

(* A record that has a trace speaks for every record of the trace.         *)
SpeaksFor(s, t) == s = t \/ (t.trace # NoTrace /\ s.trace = t.trace)

MayConcern(t, c) == \E s \in Truths : SpeaksFor(s, t) /\ \E said \in Said(s) : said.conv = c
MayBelong(t, u) == \E s \in Truths : SpeaksFor(s, t) /\ \E said \in Said(s) : said.user = u

(* The records of a trace that are to be tagged with a conversation.       *)
Tagged(trace, c) == {s \in Truths : trace # NoTrace /\ s.trace = trace /\ TagOf(s) = c}
Namings(trace, c) == UNION {NamedUsers(s) : s \in Tagged(trace, c)}

MustConcern(t, c) == Tagged(t.trace, c) # {}
MustBelong(t, u) == \E c \in Conversations : Namings(t.trace, c) = {u}

Selected(t, q) ==
    t.kind = "log" => /\ q.level = Unasked \/ AtLeast(t.severity, q.level)
                      /\ q.since = Unasked \/ t.ts >= q.since

(* The rows found are of records that may be meant, and of all those that  *)
(* must be.                                                                *)
TellsTheTruth(rows, kind, q) ==
    LET found == {r.of : r \in rows}
        selected == {i \in arrived : TruthOf(i).kind = kind /\ Selected(TruthOf(i), q)}
    IN  /\ \A i \in found :
              /\ i \in selected
              /\ q.conv = Unasked \/ MayConcern(TruthOf(i), q.conv)
              /\ q.user = Unasked \/ MayBelong(TruthOf(i), q.user)
        /\ \A i \in selected :
              /\ q.conv = Unasked \/ MustConcern(TruthOf(i), q.conv)
              /\ q.user = Unasked \/ MustBelong(TruthOf(i), q.user)
              => i \in found

(* Whatever the order of delivery, the form of ids and times, the nesting  *)
(* of conversations and the masking: a query for a conversation finds no   *)
(* log or span of a trace on which nothing was done in a block of it, and  *)
(* all those of a trace on which something was logged in it, or on which   *)
(* it was the last conversation entered under a span; a user's query finds *)
(* nothing of a trace on which no block named the user, and everything of  *)
(* one on which the user alone was named by what is tagged with some       *)
(* conversation.                                                           *)
QueriesTellTheTruth ==
    arrived # {} =>
        \A q \in Query : /\ TellsTheTruth(QueryLogs(logs, map, q), "log", q)
                         /\ TellsTheTruth(QuerySpans(spans, map, q), "span", q)

(* The pages agree with each other: the statistics count the conversations *)
(* and the turns that the list shows, once each, and the error logs that a *)
(* query for them returns.                                                 *)
AnswersAgree ==
    \A u \in Users \cup {Unasked}, since \in Time :
        LET stats == QueryStats(map, logs, u, since)
            list == QueryConversations(map, u)
            errors == [conv |-> Unasked, user |-> u, level |-> "ERROR", since |-> since, service |-> Unasked]
        IN  /\ stats.errors = Cardinality(QueryLogs(logs, map, errors))
            /\ since = 0 => /\ stats.conversations = Cardinality(list)
                            /\ stats.turns = Cardinality(UNION {c.traces : c \in list})

(* No text of a log, in its body or at any depth of its attributes, is     *)
(* stored with a word that a pattern matches, even where the same word     *)
(* names the user whose queries find the log.                              *)
StoredLogsAreMasked ==
    Masking => \A l \in logs :
        Sensitive \cap (l.body.words \cup UNION {TextsOf(l.attrs[k]) : k \in AttrKeys}) = {}
=============================================================================
