------------------------------ MODULE MCIngest ------------------------------
(***************************************************************************)
(* Payloads for TLC: spans and logs that link the same two traces in       *)
(* opposite orders, so that their transactions can block each other in a   *)
(* circle, one posted at each ceiling; spans of which the database refuses *)
(* one, after their link has taken its row; a body over the ceiling; a     *)
(* trace payload none of whose records can be stored; and a body that the  *)
(* parser raises on.                                                       *)
(***************************************************************************)
EXTENDS Ingest, TLC

CONSTANTS pSpans, pLogs, pEmpty, pBad, pBig, pOdd, secret, c1, t1, t2, u1, u2, s1

L(trace, user, ts) == [conv |-> c1, trace |-> trace, user |-> user, ts |-> ts]

Plain == [token |-> secret, json |-> TRUE, size |-> 1, gzip |-> FALSE,
          broken |-> FALSE, inflated |-> 0, content |-> "payload"]
Zipped(n) == [Plain EXCEPT !.gzip = TRUE, !.inflated = n]

AllPayloads ==
    (pSpans :> [kind |-> "traces", request |-> Zipped(MaxInflated), bad |-> 0, tries |-> 4,
                rows |-> <<[trace |-> t1, span |-> s1, ts |-> 1]>>,
                links |-> <<L(t1, u1, 1), L(t2, NoUser, 0)>>])
 @@ (pLogs  :> [kind |-> "logs", request |-> [Plain EXCEPT !.size = MaxBody], bad |-> 0, tries |-> 4,
                rows |-> <<[trace |-> t2, ts |-> 1], [trace |-> t1, ts |-> 0]>>,
                links |-> <<L(t2, u2, 1), L(t1, u2, 0)>>])
 @@ (pEmpty :> [kind |-> "traces", request |-> Plain, bad |-> 0, tries |-> 2,
                rows |-> <<>>, links |-> <<>>])
 @@ (pBad   :> [kind |-> "traces", request |-> Plain, bad |-> 2, tries |-> 1,
                rows |-> <<[trace |-> t1, span |-> s1, ts |-> 0]>>, links |-> <<L(t1, u2, 0)>>])
 @@ (pBig   :> [kind |-> "logs", request |-> Zipped(MaxInflated + 1), bad |-> 0, tries |-> 1,
                rows |-> <<[trace |-> t1, ts |-> 0]>>, links |-> <<L(t1, u2, 0)>>])
 @@ (pOdd   :> [kind |-> "traces", request |-> [Plain EXCEPT !.content = "malformed"], bad |-> 0,
                tries |-> 1, rows |-> <<>>, links |-> <<>>])

MCKind == [p \in Payload |-> AllPayloads[p].kind]
MCRowsOf == [p \in Payload |-> AllPayloads[p].rows]
MCLinksOf == [p \in Payload |-> AllPayloads[p].links]
MCRequestOf == [p \in Payload |-> AllPayloads[p].request]
MCBadAt == [p \in Payload |-> AllPayloads[p].bad]
MCMaxTries == [p \in Payload |-> AllPayloads[p].tries]
=============================================================================
