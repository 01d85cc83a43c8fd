----------------------------- MODULE MCEventBus -----------------------------
(* EventBus on a small instance: MaxQueued bounds the events waiting in    *)
(* one session's queue; publishers stop at the bound and go on when a      *)
(* worker has taken an event.                                              *)
EXTENDS EventBus

CONSTANT MaxQueued

MCPublishAny == /\ \E s \in Session, e \in Event :
                      Len(queue[s]) < MaxQueued /\ Publish(s, e)
                /\ UNCHANGED workerVars

MCNext == \/ MCPublishAny
          \/ \E w \in Worker : Take(w) \/ HandlerStep(w) \/ Reschedule(w)

MCSpec == BusInit /\ [][MCNext]_busVars /\ BusFairness
=============================================================================
