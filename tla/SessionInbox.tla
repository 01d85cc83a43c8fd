---------------------------- MODULE SessionInbox ----------------------------
(***************************************************************************)
(* What the session scheduler promises to whoever submits a message to a   *)
(* session (a user through a gateway, a timer, a finished sub-task): it is *)
(* kept, in order, until a planner turn of that session consumes it; a     *)
(* turn consumes a non-empty prefix of what is kept, holding at least one  *)
(* message that asks for a turn; a session runs one turn at a time; and a  *)
(* session that keeps such a message eventually runs one.                  *)
(***************************************************************************)
EXTENDS Naturals, Sequences

CONSTANTS Session, Message

VARIABLES
    inbox,      \* inbox[s]: the messages of s no turn has consumed
    turns       \* the sessions that are running a turn

abstractVars == <<inbox, turns>>

AsksForTurn(q) == \E i \in 1..Len(q) : q[i].trig

Init == /\ inbox = [s \in Session |-> <<>>]
        /\ turns = {}

Accept(s, m) == /\ inbox' = [inbox EXCEPT ![s] = Append(@, m)]
                /\ UNCHANGED turns

StartTurn(s) ==
    /\ s \notin turns
    /\ turns' = turns \cup {s}
    /\ \E n \in 1..Len(inbox[s]) :
         /\ AsksForTurn(SubSeq(inbox[s], 1, n))
         /\ inbox' = [inbox EXCEPT ![s] = SubSeq(@, n + 1, Len(@))]

EndTurn(s) == /\ s \in turns
              /\ turns' = turns \ {s}
              /\ UNCHANGED inbox

Next == \E s \in Session : \/ \E m \in Message : Accept(s, m)
                           \/ StartTurn(s)
                           \/ EndTurn(s)

SafeSpec == Init /\ [][Next]_abstractVars

Spec == /\ SafeSpec
        /\ \A s \in Session : /\ WF_abstractVars(StartTurn(s))
                              /\ WF_abstractVars(EndTurn(s))
=============================================================================
