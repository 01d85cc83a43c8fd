------------------------- MODULE MCSessionScheduler -------------------------
(* SessionScheduler on small instances.                                    *)
EXTENDS SessionScheduler
=============================================================================
