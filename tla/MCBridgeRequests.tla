-------------------------- MODULE MCBridgeRequests -------------------------
(* BridgeRequests on a small instance: two requests, files of up to        *)
(* MaxChunks chunks, and a connection that is lost MaxLosses times.        *)
EXTENDS BridgeRequests

ReqSpec == ReqSafeSpec /\ ReqFairness
=============================================================================
