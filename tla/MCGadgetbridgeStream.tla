------------------------ MODULE MCGadgetbridgeStream ------------------------
(* Messages shorter than, as long as and longer than a four byte buffer,   *)
(* in packets of one to four bytes.                                        *)
EXTENDS GadgetbridgeStream

MCByte == {"dle", "nl", "G", "B", "s", "x"}
MCGB == <<"G", "B">>
MCSetTime == <<"s">>
MCBodies == {<<>>, <<"x">>, <<"s">>, <<"x", "B">>, <<"s", "x", "G">>}
MCPackets == UNION {[1..n -> MCByte] : n \in 1..4}
=============================================================================
