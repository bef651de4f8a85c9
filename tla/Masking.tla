------------------------------ MODULE Masking ------------------------------
(***************************************************************************)
(* Masking of parsed rows before they are stored.  The patterns are an     *)
(* arbitrary set of sensitive words.                                       *)
(***************************************************************************)
EXTENDS Parsing

CONSTANTS
    Sensitive,  \* words that a pattern matches
    Mask,       \* what stands in their place
    Masking     \* TH2PULSE_MASKING is not off

ASSUME MaskingAssumption == Mask \in Words \ Sensitive

MaskText(words) == {IF w \in Sensitive THEN Mask ELSE w : w \in words}

MaskValue[v \in Value] ==
    CASE v.type = "list" ->
            [type |-> "list", items |-> [i \in DOMAIN v.items |-> MaskValue[v.items[i]]]]
      [] v.type = "map" ->
            [type |-> "map", entries |-> [k \in AttrKeys |-> MaskValue[v.entries[k]]]]
      [] v.type = "text" -> Text(MaskText(v.words))
      [] v.type \in {"null", "number"} -> v

(* Mutant: texts inside of lists and maps are left as they are.            *)
MaskLogRowShallow(row) ==
    [row EXCEPT !.body = Text(MaskText(row.body.words)),
                !.attrs = [k \in AttrKeys |-> IF row.attrs[k].type = "text"
                                              THEN MaskValue[row.attrs[k]] ELSE row.attrs[k]]]

MaskLogRow(row) ==
    [row EXCEPT !.body = Text(MaskText(row.body.words)),
                !.attrs = [k \in AttrKeys |-> MaskValue[row.attrs[k]]]]

MaskedSpanAttrs == {"gcp.vertex.agent.tool_call_args", "gcp.vertex.agent.tool_response",
                    "gcp.vertex.agent.llm_request", "gcp.vertex.agent.llm_response"}

(* Of a span, the texts of the attributes that hold content.               *)
MaskSpanRow(row) ==
    [row EXCEPT !.attrs =
        [k \in AttrKeys |-> IF k \in MaskedSpanAttrs /\ row.attrs[k].type = "text"
                           THEN Text(MaskText(row.attrs[k].words)) ELSE row.attrs[k]]]
=============================================================================
