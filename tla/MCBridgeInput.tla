---------------------------- MODULE MCBridgeInput ----------------------------
(* The initial texts of the BridgeInput runs. *)
EXTENDS BridgeInput

NoText == {<<>>}
\* None, one that leaves room, and one that ends its own read.
ShortTexts == {<<>>, <<"a">>, <<"Tab", "CR">>}
=============================================================================
