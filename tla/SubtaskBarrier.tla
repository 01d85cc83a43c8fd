--------------------------- MODULE SubtaskBarrier ---------------------------
(***************************************************************************)
(* The sub-tasks of one main session: SessionSubTaskState of               *)
(* core/agent/session/global_state.py, the SubtaskCoordinator, the turn    *)
(* policy of sub-sessions and the tools delegate_task, kill_subtask,       *)
(* message_subtask and report_subtask_done.                                *)
(*                                                                         *)
(* The main session runs one tool call at a time, and every sub-task one   *)
(* turn at a time.  The registry itself is only touched between awaits;    *)
(* an action goes from one await (model, database, gateway) to the next.   *)
(* Of SessionScheduler only its promise is used (SessionInbox): a message  *)
(* published to a sub-session is consumed by a later turn of it.           *)
(*                                                                         *)
(* A summary is only empty or not; "running:<task_type>" is "running".     *)
(***************************************************************************)
EXTENDS Naturals

CONSTANTS
    Task,           \* sub-session ids the main session may delegate to
    Main,           \* the main session
    MaxCalls,       \* bound: tool calls of the main session
    IoMayFail       \* whether writes to a history and sends to the gateway
                    \* may fail

ASSUME BarrierAssumption == /\ Main \notin Task
                            /\ MaxCalls \in Nat
                            /\ IoMayFail \in BOOLEAN

Actor == Task \cup {Main}

VARIABLES
    status,         \* status of the task's record, "none" without one
    batch,          \* batch_id of the record
    worded,         \* the tasks whose record has a summary
    current_batch,  \* current_batch_id
    emitted,        \* emitted_batch_ids
    notified,       \* immediate_failure_notified
    cancel,         \* _sub_session_cancel_requested
    unread,         \* the sub-sessions with a message no turn has consumed
    unseen,         \* those whose history has a message no model call saw
    pc,             \* pc[a]: where the tool call or turn of a is
    back,           \* back[a]: where a goes when its announcement is done
    told,           \* told[a]: the batch a is announcing and its tasks
    target,         \* the task of the main session's tool call
    calls,          \* tool calls made by the main session
    announced,      \* history: the batches announced to the main session
    owed            \* history: the tasks whose result it has not been told

registry == <<status, batch, worded, current_batch, emitted, notified, cancel>>
inbox == <<unread, unseen>>
history == <<announced, owed>>
vars == <<registry, inbox, pc, back, told, target, calls, history>>

Terminal == {"completed", "failed", "cancelled"}

MainPC == {"tools", "starting", "messaging", "posting", "killed", "announcing"}

TaskPC == {"asleep", "woken", "thinking", "texting", "tools", "texted",
           "reported", "failing", "notifying", "announcing"}

(* The main session's tool call goes on to write or post to its target.    *)
Addressing == pc[Main] \in {"starting", "messaging", "posting"}

NoBatch == [batch |-> 0, tasks |-> {}]

TypeOK == /\ status \in [Task -> {"none", "running"} \cup Terminal]
          /\ batch \in [Task -> Nat]
          /\ worded \in SUBSET Task
          /\ current_batch \in Nat
          /\ emitted \in SUBSET Nat
          /\ notified \in SUBSET Task
          /\ cancel \in SUBSET Task
          /\ unread \in SUBSET Task
          /\ unseen \in SUBSET Task
          /\ pc \in [Actor -> MainPC \cup TaskPC]
          /\ back \in [Actor -> {"tools", "asleep"}]
          /\ told \in [Actor -> [batch : Nat, tasks : SUBSET Task]]
          /\ target \in Actor
          /\ Addressing => target \in Task
          /\ calls \in 0..MaxCalls
          /\ announced \in SUBSET Nat
          /\ owed \in SUBSET Task

Init == /\ status = [t \in Task |-> "none"]
        /\ batch = [t \in Task |-> 0]
        /\ worded = {}
        /\ current_batch = 0
        /\ emitted = {}
        /\ notified = {}
        /\ cancel = {}
        /\ unread = {}
        /\ unseen = {}
        /\ pc = [a \in Actor |-> IF a = Main THEN "tools" ELSE "asleep"]
        /\ back = [a \in Actor |-> "tools"]
        /\ told = [a \in Actor |-> NoBatch]
        /\ target = Main
        /\ calls = 0
        /\ announced = {}
        /\ owed = {}

Goto(a, to) == pc' = [pc EXCEPT ![a] = to]

(* list_records(batch_id) and all_terminal(batch_id).                       *)
Records(b) == {t \in Task : status[t] # "none" /\ batch[t] = b}

AllTerminal(b) == /\ Records(b) # {}
                  /\ \A t \in Records(b) : status[t] \in Terminal
-----------------------------------------------------------------------------
(* The barrier.                                                            *)

(* publish_subtask_barrier_if_ready up to its first await, and what is     *)
(* announced when it goes on: nothing to say is not announced.             *)
BarrierReady == /\ AllTerminal(current_batch)
                /\ current_batch \notin emitted
                /\ Records(current_batch) \cap worded # {}

Barrier(a, to) ==
    IF BarrierReady
      THEN /\ Goto(a, "announcing")
           /\ back' = [back EXCEPT ![a] = to]
           /\ told' = [told EXCEPT ![a] =
                         [batch |-> current_batch,
                          tasks |-> Records(current_batch) \cap worded]]
      ELSE Goto(a, to) /\ UNCHANGED <<back, told>>

(* Mutant of Announce: the flag is set but nothing is published.           *)
AnnounceSilently(a) ==
    /\ pc[a] = "announcing"
    /\ emitted' = emitted \cup {current_batch}
    /\ Goto(a, back[a])
    /\ told' = [told EXCEPT ![a] = NoBatch]
    /\ UNCHANGED <<status, batch, worded, current_batch, notified, cancel,
                   inbox, back, target, calls, history>>

(* The write to the main session's history is done and SUBTASK_COMPLETED   *)
(* published; the flag set is that of the batch that is current now.       *)
Announce(a) ==
    /\ pc[a] = "announcing"
    /\ emitted' = emitted \cup {current_batch}
    /\ announced' = announced \cup {told[a].batch}
    /\ owed' = owed \ told[a].tasks
    /\ Goto(a, back[a])
    /\ told' = [told EXCEPT ![a] = NoBatch]
    /\ UNCHANGED <<status, batch, worded, current_batch, notified, cancel,
                   inbox, back, target, calls>>

(* The write failed: the error is logged.                                  *)
AnnounceFails(a) ==
    /\ IoMayFail
    /\ pc[a] = "announcing"
    /\ Goto(a, back[a])
    /\ told' = [told EXCEPT ![a] = NoBatch]
    /\ UNCHANGED <<registry, inbox, back, target, calls, history>>

(* Mutant of CanFinish: the record is not looked at.                       *)
CanAlwaysFinish(t) == status[t] # "none"

(* is_terminal, with which every change to a terminal status begins.       *)
CanFinish(t) == status[t] = "running"

(* Mutant of Normalised: any word is a status.                             *)
AsReported(st) == st

(* mark_terminal takes a status it does not know for "completed".          *)
Normalised(st) == IF st \in Terminal THEN st ELSE "completed"

(* mark_terminal: say tells whether there is a summary.                    *)
Mark(t, st, say) ==
    /\ status' = [status EXCEPT ![t] = Normalised(st)]
    /\ worded' = IF say THEN worded \cup {t} ELSE worded
    /\ owed' = IF say \/ t \in worded THEN owed \cup {t} ELSE owed
-----------------------------------------------------------------------------
(* Tool calls of the main session.                                         *)

Calls == /\ pc[Main] = "tools"
         /\ calls < MaxCalls
         /\ calls' = calls + 1

(* The batch a task joins: a new one if the current one is all terminal.   *)
JoinBatch == current_batch' =
                IF AllTerminal(current_batch) THEN current_batch + 1
                                              ELSE current_batch

(* delegate_task once the sub-session is stored: register_task,            *)
(* bind_sub_session and update_status; then it waits for the gateway.      *)
Delegate(t) ==
    /\ Calls
    /\ status[t] = "none"
    /\ JoinBatch
    /\ status' = [status EXCEPT ![t] = "running"]
    /\ batch' = [batch EXCEPT ![t] = current_batch']
    /\ emitted' = emitted \ {current_batch'}
    /\ notified' = notified \ {t}
    /\ target' = t
    /\ Goto(Main, "starting")
    /\ UNCHANGED <<worded, cancel, inbox, back, told, history>>

(* Mutant of Reopen: the record stays in its batch.                        *)
ReopenInPlace(t) ==
    /\ JoinBatch
    /\ UNCHANGED batch
    /\ worded' = worded \ {t}

(* reopen_task of a terminal record: it joins the batch and loses its      *)
(* summary.                                                                *)
Reopen(t) ==
    /\ JoinBatch
    /\ batch' = [batch EXCEPT ![t] = current_batch']
    /\ worded' = worded \ {t}

(* Mutant of ClearCancel: the request stays.                               *)
KeepCancel(t) == UNCHANGED cancel

ClearCancel(t) == cancel' = cancel \ {t}

(* message_subtask reopens a terminal record and updates any other.        *)
Message(t) ==
    /\ Calls
    /\ status[t] # "none"
    /\ IF status[t] \in Terminal
         THEN Reopen(t)
         ELSE UNCHANGED <<batch, worded, current_batch>>
    /\ status' = [status EXCEPT ![t] = "running"]
    /\ emitted' = emitted \ {batch'[t]}
    /\ notified' = notified \ {t}
    /\ ClearCancel(t)
    /\ owed' = owed \ {t}
    /\ target' = t
    /\ Goto(Main, "messaging")
    /\ UNCHANGED <<inbox, back, told, announced>>

(* The message is written to the history of the sub-session.               *)
AppendMessage ==
    /\ pc[Main] = "messaging"
    /\ unseen' = unseen \cup {target}
    /\ Goto(Main, "posting")
    /\ UNCHANGED <<registry, unread, back, told, target, calls, history>>

(* delegate_task and message_subtask end with the event that wakes the     *)
(* sub-session.                                                            *)
Post ==
    /\ pc[Main] \in {"starting", "posting"}
    /\ unread' = unread \cup {target}
    /\ Goto(Main, "tools")
    /\ UNCHANGED <<registry, unseen, back, told, target, calls, history>>

(* kill_subtask; the barrier is called once the status is stored.          *)
Kill(t) ==
    /\ Calls
    /\ status[t] = "running"
    /\ cancel' = cancel \cup {t}
    /\ Mark(t, "cancelled", TRUE)
    /\ target' = t
    /\ Goto(Main, "killed")
    /\ UNCHANGED <<batch, current_batch, emitted, notified, inbox, back, told,
                   announced>>

(* Mutant of KillDone: the barrier is not called.                          *)
KillDoneSilently ==
    /\ pc[Main] = "killed"
    /\ Goto(Main, "tools")
    /\ UNCHANGED <<registry, inbox, back, told, target, calls, history>>

KillDone ==
    /\ pc[Main] = "killed"
    /\ Barrier(Main, "tools")
    /\ UNCHANGED <<registry, inbox, target, calls, history>>

(* The message could not be written, or the snapshot of the tasks not sent *)
(* to the gateway: the tool call ends with an error where it is.           *)
CallFails ==
    /\ IoMayFail
    /\ pc[Main] \in {"starting", "messaging", "killed"}
    /\ Goto(Main, "tools")
    /\ UNCHANGED <<registry, inbox, back, told, target, calls, history>>
-----------------------------------------------------------------------------
(* Turns of a sub-session.                                                 *)

Quiet == UNCHANGED <<target, calls, announced>>

(* run_session consumes the mailbox.                                       *)
Wake(t) ==
    /\ pc[t] = "asleep"
    /\ t \in unread
    /\ unread' = unread \ {t}
    /\ Goto(t, "woken")
    /\ UNCHANGED <<registry, unseen, back, told, owed>> /\ Quiet

(* should_skip: no turn for a terminal task.                               *)
Skip(t) ==
    /\ pc[t] = "woken"
    /\ status[t] \in Terminal
    /\ Goto(t, "asleep")
    /\ UNCHANGED <<registry, inbox, back, told, owed>> /\ Quiet

(* _prepare_turn reads the history and calls the model.                    *)
Think(t) ==
    /\ pc[t] = "woken"
    /\ status[t] \notin Terminal
    /\ unseen' = unseen \ {t}
    /\ Goto(t, "thinking")
    /\ UNCHANGED <<registry, unread, back, told, owed>> /\ Quiet

(* The model answers with text, which is written to the history, or with   *)
(* tool calls.                                                             *)
Answer(t) ==
    /\ pc[t] = "thinking"
    /\ Goto(t, "texting") \/ Goto(t, "tools")
    /\ UNCHANGED <<registry, inbox, back, told, owed>> /\ Quiet

(* The turn ends without an outcome: an empty answer, or a hook that       *)
(* forces it to finish and may have published a message to go on with.     *)
GiveUp(t) ==
    /\ pc[t] \in {"thinking", "tools"}
    /\ Goto(t, "asleep")
    /\ unread' \in {unread, unread \cup {t}}
    /\ UNCHANGED <<registry, unseen, back, told, owed>> /\ Quiet

(* handle_text_response of a running task: it is completed, and the        *)
(* barrier is called when the status is stored; of any other, at once.     *)
Text(t) ==
    /\ pc[t] = "texting"
    /\ IF CanFinish(t)
         THEN /\ Mark(t, "completed", TRUE)
              /\ Goto(t, "texted")
              /\ UNCHANGED <<back, told>>
         ELSE Barrier(t, "asleep") /\ UNCHANGED <<status, worded, owed>>
    /\ UNCHANGED <<batch, current_batch, emitted, notified, cancel, inbox>>
    /\ Quiet

TextDone(t) ==
    /\ pc[t] = "texted"
    /\ Barrier(t, "asleep")
    /\ UNCHANGED <<registry, inbox, owed>> /\ Quiet

(* report_subtask_done, with whatever status the model writes.  A report   *)
(* of a terminal task changes nothing.                                     *)
Report(t) ==
    /\ pc[t] = "tools"
    /\ CanFinish(t)
    /\ \E st \in {"completed", "failed", "done"} : Mark(t, st, TRUE)
    /\ ClearCancel(t)
    /\ Goto(t, "reported")
    /\ UNCHANGED <<batch, current_batch, emitted, notified, inbox, back, told>>
    /\ Quiet

ReportDone(t) ==
    /\ pc[t] = "reported"
    /\ Barrier(t, "tools")
    /\ UNCHANGED <<registry, inbox, owed>> /\ Quiet

(* The report's snapshot could not be sent.                                *)
ReportFails(t) ==
    /\ IoMayFail
    /\ pc[t] = "reported"
    /\ Goto(t, "tools")
    /\ UNCHANGED <<registry, inbox, back, told, owed>> /\ Quiet

(* handle_tool_follow_up: a terminal task calls the barrier, another one   *)
(* publishes the message of its next turn.                                 *)
FollowUp(t) ==
    /\ pc[t] = "tools"
    /\ IF status[t] \in Terminal
         THEN Barrier(t, "asleep") /\ UNCHANGED unread
         ELSE /\ Goto(t, "asleep")
              /\ unread' = unread \cup {t}
              /\ UNCHANGED <<back, told>>
    /\ UNCHANGED <<registry, unseen, owed>> /\ Quiet

(* A failed task is notified at once, unless it has been.                  *)
MustNotify(t) == status[t] = "failed" /\ t \notin notified

AfterFailure(t) ==
    IF MustNotify(t) THEN Goto(t, "notifying") /\ UNCHANGED <<back, told>>
                     ELSE Barrier(t, "asleep")

(* handle_failure: an exception ends the turn.  Its text may be empty.     *)
Fail(t) ==
    /\ pc[t] \in {"thinking", "texting", "tools"}
    /\ IF CanFinish(t)
         THEN /\ \E say \in BOOLEAN : Mark(t, "failed", say)
              /\ Goto(t, "failing")
              /\ UNCHANGED <<back, told>>
         ELSE AfterFailure(t) /\ UNCHANGED <<status, worded, owed>>
    /\ UNCHANGED <<batch, current_batch, emitted, notified, cancel, inbox>>
    /\ Quiet

FailDone(t) ==
    /\ pc[t] = "failing"
    /\ AfterFailure(t)
    /\ UNCHANGED <<registry, inbox, owed>> /\ Quiet

(* notify_main_session_subtask_failure after its write, which may fail;    *)
(* the barrier comes next either way.                                      *)
Notify(t) ==
    /\ pc[t] = "notifying"
    /\ \/ notified' = notified \cup {t}
       \/ IoMayFail /\ UNCHANGED notified
    /\ Barrier(t, "asleep")
    /\ UNCHANGED <<status, batch, worded, current_batch, emitted, cancel,
                   inbox, owed>> /\ Quiet
-----------------------------------------------------------------------------
ToolCall(t) == Delegate(t) \/ Message(t) \/ Kill(t)

MainGoesOn == AppendMessage \/ Post \/ KillDone \/ CallFails

TurnGoesOn(t) == \/ Wake(t) \/ Skip(t) \/ Think(t) \/ Answer(t) \/ GiveUp(t)
                 \/ Text(t) \/ TextDone(t)
                 \/ Report(t) \/ ReportDone(t) \/ ReportFails(t) \/ FollowUp(t)
                 \/ Fail(t) \/ FailDone(t) \/ Notify(t)

Announcement(a) == Announce(a) \/ AnnounceFails(a)

Next == \/ \E t \in Task : ToolCall(t) \/ TurnGoesOn(t)
        \/ MainGoesOn
        \/ \E a \in Actor : Announcement(a)

SafeSpec == Init /\ [][Next]_vars

(* Writes and model calls return, and a message is consumed by a turn; no  *)
(* tool call need ever be made.                                            *)
Fairness == /\ WF_vars(MainGoesOn)
            /\ \A t \in Task : WF_vars(TurnGoesOn(t))
            /\ \A a \in Actor : WF_vars(Announcement(a))

Spec == SafeSpec /\ Fairness
-----------------------------------------------------------------------------
(* The barrier looks only at the current batch.  A running task of an      *)
(* older one could end without anybody noticing, so there must be none,    *)
(* whatever reopening, registering and finishing interleave.               *)
OnlyCurrentBatchRuns ==
    \A t \in Task : /\ status[t] = "running" => batch[t] = current_batch
                    /\ batch[t] <= current_batch

(* A cancellation request is pending only for a cancelled task: a resumed  *)
(* one would have its commands and scripts aborted by a stale request.     *)
CancelMeansCancelled == \A t \in cancel : status[t] = "cancelled"

(* A terminal status is left only by a message of the main session: the    *)
(* text, report or failure of a turn that was still running when its task  *)
(* was killed does not replace the verdict.                                *)
OnlyMessagesReopen ==
    [][\A t \in Task : status[t] \in Terminal /\ status'[t] # status[t]
                         => pc[Main] = "tools" /\ pc'[Main] = "messaging"]_vars

(* A current batch that has come to its end, has something to say and is   *)
(* not flagged has somebody on the way to the barrier, or announcing it.   *)
CurrentBatchIsCared ==
    BarrierReady =>
       \E a \in Actor :
          \/ pc[a] \in {"texted", "reported", "failing", "notifying", "killed"}
          \/ pc[a] = "announcing" /\ told[a].batch = current_batch

(* Somebody is announcing a batch that is no longer the current one: what  *)
(* he will set is the flag of the current one.                             *)
MisflagComing ==
    \E a \in Actor : pc[a] = "announcing" /\ told[a].batch # current_batch

(* A batch that has come to its end, has something to say and is not       *)
(* flagged, by itself or by mistake, is announced to the main session,     *)
(* unless that opens the next batch first (publish_subtask_barrier_if_     *)
(* ready).  FlaggedOnlyIfAnnounced is about the mistake.                   *)
FinishedBatchIsAnnounced ==
    \A b \in 0..MaxCalls :
        current_batch = b /\ BarrierReady /\ ~MisflagComing
           ~> b \in announced \/ current_batch # b
-----------------------------------------------------------------------------
AtRest == /\ pc[Main] = "tools"
          /\ \A t \in Task : /\ pc[t] = "asleep"
                             /\ status[t] # "running"
          /\ unread = {}

(* What delegate_task tells the planner: it will receive a notification    *)
(* when the task completes.  When everything has come to rest the main     *)
(* session has been told the result of every task.                         *)
ResultsReachMain == AtRest => owed = {}

(* The guide: the barrier flag is set only after the aggregation event is  *)
(* published, to prevent missed aggregations.                              *)
FlaggedOnlyIfAnnounced == emitted \subseteq announced

(* barrier_notified and emitted_batch_ids are one-shot: a batch is         *)
(* announced once.                                                         *)
AnnouncedOnce ==
    [][\A a \in Actor : Announce(a) => told[a].batch \notin announced]_vars

(* What message_subtask tells the planner: the message is sent to the task *)
(* and the task remains active.  When everything has come to rest the      *)
(* model has seen every message of a task that was not killed.             *)
MessagesAreSeen == AtRest => \A t \in unseen : status[t] = "cancelled"
=============================================================================
