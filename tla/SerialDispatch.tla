--------------------------- MODULE SerialDispatch ---------------------------
(***************************************************************************)
(* What the session event bus promises to its publishers and subscribers   *)
(* (header of src/fairyclaw/core/events/bus.py): the events of one session *)
(* are handled one at a time and in the order they were published, and     *)
(* sessions do not wait for one another's events.  Nothing is said here of *)
(* workers, of a ready queue or of which sessions are scheduled: those are *)
(* how EventBus keeps the promise.                                         *)
(***************************************************************************)
EXTENDS Sequences

CONSTANTS Session, Event

VARIABLES
    pending,    \* pending[s]: the published events of s no handler has seen
    handling    \* the <<session, event>> pairs being handled now

abstractVars == <<pending, handling>>

Busy(s) == \E h \in handling : h[1] = s

Init == /\ pending = [s \in Session |-> <<>>]
        /\ handling = {}

Publish(s, e) == /\ pending' = [pending EXCEPT ![s] = Append(@, e)]
                 /\ UNCHANGED handling

Begin(s) == /\ ~Busy(s)
            /\ pending[s] # <<>>
            /\ pending' = [pending EXCEPT ![s] = Tail(@)]
            /\ handling' = handling \cup {<<s, Head(pending[s])>>}

End(s) == /\ Busy(s)
          /\ handling' = {h \in handling : h[1] # s}
          /\ UNCHANGED pending

Next == \E s \in Session : \/ \E e \in Event : Publish(s, e)
                           \/ Begin(s)
                           \/ End(s)

SafeSpec == Init /\ [][Next]_abstractVars

(* A session with work that nobody is handling is served.                  *)
Spec == SafeSpec /\ \A s \in Session : WF_abstractVars(Begin(s))
=============================================================================
