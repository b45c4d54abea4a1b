------------------------------ MODULE MCBridge ------------------------------
(* Model-checking instance of ProjectStream over BridgeServer.             *)
EXTENDS ProjectStream
=============================================================================
