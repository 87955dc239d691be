---------------------------- MODULE MCGbMessage ----------------------------
(* Messages of up to three pieces, or two if a text holds a quotation mark:*)
(* calls with texts of no group, a part of one, one, and more than one,    *)
(* between characters that are not encoded.  They may say, and be read as, *)
(* anything: for every type, and one that the program does not know, few   *)
(* or nearly all of the fields, with one that is in no structure, and with *)
(* or without the type; one field of another kind among all; and what is   *)
(* no JSON.                                                                *)
EXTENDS GbMessage

MCPieces == {[kind |-> "plain", text |-> <<"x">>]}
            \cup [kind : {"atob"},
                  text : {<<>>, <<"x">>, <<"x", "y", "blank">>, <<"y", "x", "y", "blank", "x">>}]
MCQuoted == [kind |-> "atob", text |-> <<"x", "quote">>]
MCMessages == UNION {[1..n -> MCPieces] : n \in 1..3}
              \cup UNION {[1..n -> MCPieces \cup {MCQuoted}] : n \in 1..2}

Schema(t) == IF t \in type_map THEN Desc(t) ELSE <<>>
Names(t) == {Schema(t)[i].name : i \in DOMAIN Schema(t)}
Right(t, n) == IF \E i \in DOMAIN Schema(t) : Schema(t)[i].name = n /\ Schema(t)[i].tok = "NUMBER"
               THEN "number" ELSE "string"
Object(t, S, wrong, kind, malformed) ==
  [t |-> t, malformed |-> malformed,
   fields |-> [n \in S \cup {"x"} |-> IF n = wrong THEN kind ELSE Right(t, n)]]
OfType(t) ==
  LET all == Names(t) \cup {"t"}
  IN {Object(t, S, "", "string", FALSE) :
        S \in {s \in SUBSET all : Cardinality(s) <= 1 \/ Cardinality(all \ s) <= 1}}
     \cup {Object(t, all, wrong, kind, FALSE) : wrong \in all, kind \in Kinds}
     \cup {Object(t, all, "", "string", TRUE)}
MCObjects == UNION {OfType(t) : t \in type_map \cup {"weather"}}
=============================================================================
