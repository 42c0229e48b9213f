-------------------------- MODULE MCBridgeRegistry --------------------------
(* Small instances of BridgeRegistry: two windows of one server.           *)
EXTENDS BridgeRegistry

OneServer == [w \in Windows |-> "server"]
TwoLabels == [w \in Windows |-> IF w = CHOOSE x \in Windows : TRUE THEN "folder" ELSE "other"]
=============================================================================
