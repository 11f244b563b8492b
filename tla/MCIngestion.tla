---------------------------- MODULE MCIngestion ----------------------------
(* Instance of Ingestion for TLC: a crypto pair and a forex pair.          *)
EXTENDS Ingestion

MCPairs == {"BTCUSD", "EURUSD"}
MCKindOf == ("BTCUSD" :> "crypto") @@ ("EURUSD" :> "forex")
=============================================================================
