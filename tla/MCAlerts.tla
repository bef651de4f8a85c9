------------------------------ MODULE MCAlerts ------------------------------
(***************************************************************************)
(* A little telemetry for TLC: the two turns it takes for a percentile to  *)
(* interpolate, one of which failed; a failed span whose token attribute   *)
(* is no number; and two error logs.                                       *)
(***************************************************************************)
EXTENDS Alerts, TLC

CONSTANTS c1, t1, t2, fast, slow, poison, err, old

Fact(trace, ts, failed, broken, turn, tokens) ==
    [trace |-> trace, ts |-> ts, failed |-> failed, broken |-> broken,
     turn |-> turn, tokens |-> tokens]

AllSpans ==
    (fast    :> Fact(t1, 1, FALSE, FALSE, 0, 3))
 @@ (slow    :> Fact(t1, 1, TRUE, FALSE, 30, None))
 @@ (poison  :> Fact(t2, 0, FALSE, TRUE, None, NotNumeric))

MCSpanOf == [s \in Spans |-> AllSpans[s]]

(* An error log of the trace of the conversation, and an older one of a    *)
(* trace that no conversation is linked to.                                *)
AllLogs ==
    (err :> [trace |-> t1, ts |-> 1, error |-> TRUE])
 @@ (old :> [trace |-> t2, ts |-> 0, error |-> TRUE])

MCLogOf == [l \in Logs |-> AllLogs[l]]

MCLinks == {<<c1, t1>>}
=============================================================================
