------------------------------ MODULE Requests ------------------------------
(***************************************************************************)
(* What a post must pass before it reaches the store: the token of the     *)
(* write side, the media type, the ceilings on the body as sent and as     *)
(* inflated, the JSON and the parser, in the order of the code.  Sizes are *)
(* in units of the model; only their relation to the ceilings matters.     *)
(***************************************************************************)
EXTENDS Naturals, FiniteSetsExt

CONSTANTS
    Tokens,       \* the secrets a caller may present
    NoToken,      \* no token: not configured, or not presented
    IngestToken,  \* the configured secret, or NoToken
    MaxBody,      \* MAX_BODY_BYTES
    MaxInflated   \* MAX_DECOMPRESSED_BYTES

(* size: of the body as sent, declared in a header or not; inflated: what  *)
(* the gzip stream yields, up to its end or to where it is broken.  A      *)
(* malformed content is JSON that the parser raises on.                    *)
Request == [token : Tokens \cup {NoToken}, json : BOOLEAN, size : Nat,
            gzip : BOOLEAN, broken : BOOLEAN, inflated : Nat,
            content : {"payload", "malformed", "garbage"}]

ASSUME RequestAssumption ==
    /\ NoToken \notin Tokens
    /\ IngestToken \in Tokens \cup {NoToken}
    /\ {MaxBody, MaxInflated} \subseteq Nat

(* Without a configured token every caller is let in.                      *)
TokenPasses(req) == IngestToken = NoToken \/ req.token = IngestToken

(* Mutant: a stream that yields exactly the ceiling is refused.            *)
GunzipBelow(req) ==
    IF req.inflated >= MaxInflated THEN 413
    ELSE IF req.broken THEN 400 ELSE 200

(* One byte more than the ceiling is asked for, and refused if it comes; a *)
(* break behind that byte is never reached.                                *)
Gunzip(req) ==
    IF req.inflated > MaxInflated THEN 413
    ELSE IF req.broken THEN 400 ELSE 200

(* The checks in their order, each with the status that its failure gets.  *)
Checks(req) ==
    << [passes |-> TokenPasses(req),                  status |-> 401],
       [passes |-> req.json,                          status |-> 415],
       [passes |-> req.size <= MaxBody,               status |-> 413],
       [passes |-> req.gzip => Gunzip(req) = 200,     status |-> Gunzip(req)],
       [passes |-> req.content # "garbage",           status |-> 400],
       [passes |-> req.content # "malformed",         status |-> 500] >>

Status(req) ==
    LET failed == {i \in DOMAIN Checks(req) : ~Checks(req)[i].passes}
    IN  IF failed = {} THEN 200 ELSE Checks(req)[Min(failed)].status

(* What the documentation asks of a post: the configured token, JSON, no   *)
(* more than the ceilings before and after inflating, whole and well       *)
(* formed.                                                                 *)
WellFormed(req) ==
    /\ IngestToken \in {NoToken, req.token}
    /\ req.json
    /\ req.size <= MaxBody
    /\ req.gzip => req.inflated <= MaxInflated /\ ~req.broken
    /\ req.content = "payload"
=============================================================================
