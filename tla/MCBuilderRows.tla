--------------------------- MODULE MCBuilderRows ---------------------------
(* Two keys with one hash, one that shares only their bucket and low half, one apart from
   them, and one that is too long. *)
EXTENDS BuilderRows

MCKeys == {<<1>>, <<2>>, <<1, 2>>, <<2, 2>>, <<3, 3, 3>>}
MCValues == {<<>>, <<7, 7>>}
MCHash == [k \in MCKeys |-> CASE k = <<1>> -> <<0, 5>> [] k = <<2>> -> <<0, 5>>
                              [] k = <<1, 2>> -> <<3, 5>> [] k = <<2, 2>> -> <<1, 6>>
                              [] OTHER -> <<1, 1>>]
MCRow == [key : MCKeys, val : {<<7, 7>>}]
MCSources == [rows : UNION {[1 .. n -> MCRow] : n \in 0 .. 2}, end : {"eof", "malformed"}]
=============================================================================
