----------------------------- MODULE Delegation -----------------------------
(***************************************************************************)
(* How a sub-session comes to its first turn, and to later ones: the steps *)
(* of delegate_task and message_subtask between their awaits, each of      *)
(* which may fail, and run_session up to the turn, with the routing of the *)
(* capability groups that waits for a model.                               *)
(*                                                                         *)
(* Every task belongs to a session of its own, so its parent makes one     *)
(* call at a time about it, while its own runs go on beside.  Of the row   *)
(* of a sub-session only whether its groups are still to be routed is      *)
(* kept; kill_subtask's own write to it is left out.  The events of a      *)
(* session are one message or none (SessionInbox).                         *)
(***************************************************************************)
EXTENDS Naturals

CONSTANTS
    DelTask,        \* sub-sessions, each made by one call of delegate_task
    MaxSegments     \* bound: the instruction and its attachments

ASSUME DelegationAssumption == MaxSegments \in Nat \ {0}

VARIABLES
    del_call,       \* the parent's call: where it is, attachments, segments left
    del_pending,    \* routing_pending of the stored sub-session
    del_read,       \* what message_subtask has read of it
    del_status,     \* status in the registry
    del_event,      \* there is an event for the sub-session
    del_run,        \* run_session: "idle", "resolving", "routing", "turn"
    del_cause       \* history: why nothing was sent or followed, last time

del_task == <<del_status, del_event, del_cause>>
del_row == <<del_pending, del_read>>
del_vars == <<del_call, del_row, del_task, del_run>>

NoCallYet == [at |-> "new", attach |-> 0, left |-> 0]

Calling(s, at) == del_call[s].at = at

CallGoes(s, at) == del_call' = [del_call EXCEPT ![s].at = at]

DelInit == /\ del_call = [s \in DelTask |-> NoCallYet]
           /\ del_pending = [s \in DelTask |-> FALSE]
           /\ del_read = [s \in DelTask |-> FALSE]
           /\ del_status = [s \in DelTask |-> "none"]
           /\ del_event = [s \in DelTask |-> FALSE]
           /\ del_run = [s \in DelTask |-> "idle"]
           /\ del_cause = [s \in DelTask |-> "none"]

SetStatus(s, status) == del_status' = [del_status EXCEPT ![s] = status]

Explain(s, cause) == del_cause' = [del_cause EXCEPT ![s] = cause]

Publish(s) == /\ del_event' = [del_event EXCEPT ![s] = TRUE]
              /\ Explain(s, "none")

(***************************************************************************)
(* delegate_task: an error before the task is registered is the answer,    *)
(* and what was stored stays behind.                                       *)
(***************************************************************************)
Refuse(s) == /\ del_call[s].at \in {"new", "attaching", "storing"}
             /\ CallGoes(s, "refused")
             /\ UNCHANGED <<del_row, del_task, del_run>>

\* The arguments, the depth and the attachments are checked, then the
\* sub-session and its route are stored.
CreateSubSession(s, attachments) ==
    /\ Calling(s, "new")
    /\ del_call' = [del_call EXCEPT ![s] =
          [at |-> "attaching", attach |-> attachments, left |-> attachments + 1]]
    /\ UNCHANGED <<del_row, del_task, del_run>>

\* A file is copied to the sub-session, other attachments are read.
CopyAttachment(s) ==
    /\ Calling(s, "attaching") /\ del_call[s].attach > 0
    /\ del_call' = [del_call EXCEPT ![s].attach = @ - 1]
    /\ UNCHANGED <<del_row, del_task, del_run>>

\* A failure is only a warning: the groups are not routed then.
PersistRouting(s) ==
    /\ Calling(s, "attaching") /\ del_call[s].attach = 0
    /\ CallGoes(s, "storing")
    /\ \E stored \in BOOLEAN : del_pending' = [del_pending EXCEPT ![s] = stored]
    /\ UNCHANGED <<del_read, del_task, del_run>>

\* Every segment of the instruction is a message of its own.
StoreSegment(s) ==
    /\ Calling(s, "storing") /\ del_call[s].left > 0
    /\ del_call' = [del_call EXCEPT ![s].left = @ - 1]
    /\ UNCHANGED <<del_row, del_task, del_run>>

RegisterTask(s) ==
    /\ Calling(s, "storing") /\ del_call[s].left = 0
    /\ SetStatus(s, "running")
    /\ CallGoes(s, "showing")
    /\ UNCHANGED <<del_row, del_event, del_cause, del_run>>

\* The snapshot of the tasks for the browsers; an error ends the tool.
ShowTasks(s) ==
    /\ Calling(s, "showing")
    /\ \/ CallGoes(s, "publishing") /\ UNCHANGED del_cause
       \/ CallGoes(s, "done") /\ Explain(s, "raised")
    /\ UNCHANGED <<del_row, del_status, del_event, del_run>>

\* Mutant: the task is left running when there is no bus.
PublishOrForget(s) ==
    /\ Calling(s, "publishing")
    /\ CallGoes(s, "done")
    /\ \/ Publish(s)
       \/ UNCHANGED <<del_event, del_cause>>
    /\ UNCHANGED <<del_row, del_status, del_run>>

\* Without a bus the task is marked as failed.
PublishTask(s) ==
    /\ Calling(s, "publishing")
    /\ CallGoes(s, "done")
    /\ \/ Publish(s) /\ UNCHANGED del_status
       \/ SetStatus(s, "failed") /\ UNCHANGED <<del_event, del_cause>>
    /\ UNCHANGED <<del_row, del_run>>

(***************************************************************************)
(* Later calls of the parent.                                              *)
(***************************************************************************)
\* message_subtask has the task running before anything is awaited, ...
MessageTask(s) ==
    /\ Calling(s, "done")
    /\ SetStatus(s, "running")
    /\ CallGoes(s, "appending")
    /\ UNCHANGED <<del_row, del_event, del_cause, del_run>>

\* ... appends the message, reads the row, ...
AppendMessageAndRead(s) ==
    /\ Calling(s, "appending")
    /\ CallGoes(s, "saving")
    /\ del_read' = [del_read EXCEPT ![s] = del_pending[s]]
    /\ UNCHANGED <<del_pending, del_task, del_run>>

\* ... writes it back as it was, but for the status, and publishes, unless
\* there is no bus.
SaveAndPublish(s) ==
    /\ Calling(s, "saving")
    /\ CallGoes(s, "done")
    /\ del_pending' = [del_pending EXCEPT ![s] = del_read[s]]
    /\ Publish(s) \/ (Explain(s, "unsent") /\ UNCHANGED del_event)
    /\ UNCHANGED <<del_read, del_status, del_run>>

\* The snapshot cannot be sent, or the message or the row not be stored.
MessageFails(s) ==
    /\ del_call[s].at \in {"appending", "saving"}
    /\ CallGoes(s, "done")
    /\ Explain(s, "unsent")
    /\ UNCHANGED <<del_row, del_status, del_event, del_run>>

KillDelegated(s) ==
    /\ Calling(s, "done") /\ del_status[s] = "running"
    /\ SetStatus(s, "cancelled")
    /\ UNCHANGED <<del_call, del_row, del_event, del_cause, del_run>>

(***************************************************************************)
(* The runs of the sub-session.                                            *)
(***************************************************************************)
RunGoes(s, to) == del_run' = [del_run EXCEPT ![s] = to]

\* run_session takes the events; the session is in flight from here.
BeginRun(s) ==
    /\ del_run[s] = "idle" /\ del_event[s]
    /\ del_event' = [del_event EXCEPT ![s] = FALSE]
    /\ RunGoes(s, "resolving")
    /\ UNCHANGED <<del_call, del_row, del_status, del_cause>>

\* resolve_sub_session_groups reads the row; if that fails, or there is
\* nothing to route, the turn has the groups of the row or of the event.
ReadRouting(s) ==
    /\ del_run[s] = "resolving"
    /\ RunGoes(s, "turn") \/ (del_pending[s] /\ RunGoes(s, "routing"))
    /\ UNCHANGED <<del_call, del_row, del_task>>

\* Mutant: a row that cannot be written ends the run where it is.
RouteOrRaise(s) ==
    /\ del_run[s] = "routing"
    /\ \/ /\ del_pending' = [del_pending EXCEPT ![s] = FALSE]
          /\ RunGoes(s, "turn")
       \/ /\ RunGoes(s, "raised")
          /\ UNCHANGED del_pending
    /\ UNCHANGED <<del_call, del_read, del_task>>

\* The router answers, or fails and all groups are taken; the row is written,
\* or cannot be, and the groups of the event are taken.
RouteGroups(s) ==
    /\ del_run[s] = "routing"
    /\ \E stored \in BOOLEAN :
          del_pending' = [del_pending EXCEPT ![s] = ~stored]
    /\ RunGoes(s, "turn")
    /\ UNCHANGED <<del_call, del_read, del_task>>

\* The turn is skipped for a terminal task.  Any other ends with an outcome,
\* with a follow-up, or with neither (SubAgentTurn).
EndRun(s) ==
    /\ del_run[s] = "turn"
    /\ RunGoes(s, "idle")
    /\ \/ /\ del_status[s] # "running"
          /\ UNCHANGED del_task
       \/ /\ del_status[s] = "running"
          /\ \/ /\ \E status \in {"completed", "failed"} : SetStatus(s, status)
                /\ UNCHANGED <<del_event, del_cause>>
             \/ Publish(s) /\ UNCHANGED del_status
             \/ Explain(s, "stalled") /\ UNCHANGED <<del_status, del_event>>
    /\ UNCHANGED <<del_call, del_row>>

DelegateStep(s) == \/ Refuse(s) \/ CopyAttachment(s) \/ PersistRouting(s)
                   \/ StoreSegment(s) \/ RegisterTask(s) \/ ShowTasks(s) \/ PublishTask(s)
                   \/ \E attachments \in 0..MaxSegments - 1 : CreateSubSession(s, attachments)

MessageStep(s) == \/ MessageTask(s) \/ AppendMessageAndRead(s)
                  \/ SaveAndPublish(s) \/ MessageFails(s)

RunStep(s) == BeginRun(s) \/ ReadRouting(s) \/ RouteGroups(s) \/ EndRun(s)

DelNext == \E s \in DelTask :
              DelegateStep(s) \/ MessageStep(s) \/ KillDelegated(s) \/ RunStep(s)

DelSpec == DelInit /\ [][DelNext]_del_vars

\* Reads, writes and calls of the model end, and events are taken.
DelFairness == \A s \in DelTask : WF_del_vars(RunStep(s))

(***************************************************************************)
(* Properties.                                                             *)
(***************************************************************************)
CallAt == {"new", "attaching", "storing", "showing", "publishing", "done",
           "refused", "appending", "saving"}

\* Every variable has its type.
DelTypeOK ==
    /\ del_call \in [DelTask -> [at : CallAt, attach : Nat, left : Nat]]
    /\ del_pending \in [DelTask -> BOOLEAN]
    /\ del_read \in [DelTask -> BOOLEAN]
    /\ del_status \in [DelTask -> {"none", "running", "completed", "failed", "cancelled"}]
    /\ del_event \in [DelTask -> BOOLEAN]
    /\ del_run \in [DelTask -> {"idle", "resolving", "routing", "turn"}]
    /\ del_cause \in [DelTask -> {"none", "raised", "unsent", "stalled"}]

Wakes(s) == del_event[s] \/ del_run[s] # "idle"

\* A running task that nothing will wake is one whose snapshot could not be
\* shown, whose message could not be sent, or whose turn ended with nothing:
\* no answer of delegate_task, whatever step of it fails, leaves another for
\* the barrier to wait for (delegate_task.execute, message_subtask.execute).
OrphansAreKnown ==
    \A s \in DelTask : del_status[s] = "running" /\ ~Wakes(s) =>
        \/ del_call[s].at \in {"showing", "publishing", "appending", "saving"}
        \/ del_cause[s] # "none"

\* Whatever becomes of the routing, every run that takes an event comes to its
\* turn and ends, so that later events are taken as well: no error leaves the
\* session in flight (resolve_sub_session_groups is called before the try of
\* run_session, whose finally ends the flight).
StartedTasksRun ==
    \A s \in DelTask : /\ del_event[s] ~> ~del_event[s]
                       /\ del_run[s] = "resolving" ~> del_run[s] = "turn"
=============================================================================
