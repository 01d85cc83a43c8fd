-------------------------- MODULE MCGatewayBridge --------------------------
(* GatewayBridge on small instances.  The messages of users and those for  *)
(* users share the connection but no other state, so each kind is checked  *)
(* under all failures by itself: focus says which.                         *)
EXTENDS GatewayBridge

VARIABLE focus

MCInit == Init /\ focus \in {"inbound", "outbound"}

Focused == /\ focus = "inbound" => pushed' = {}
           /\ focus = "outbound" => \A m \in Inbound : caller'[m] = "idle"
           /\ UNCHANGED focus

MCNext == Next /\ Focused

MCSpec == MCInit /\ [][MCNext]_<<vars, focus>> /\ Fairness
=============================================================================
