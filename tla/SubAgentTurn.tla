---------------------------- MODULE SubAgentTurn -----------------------------
(***************************************************************************)
(* The turns of one session: Planner._run_turn_with_policy with its two    *)
(* policies and the hooks that the groups SubAgentTools and CodeRepairOps  *)
(* put around a sub-session's answers and tool calls.                      *)
(*                                                                         *)
(* A message wakes the session, and messages that come while it runs wake  *)
(* it once more (SessionInbox).  What the main session may do to the task  *)
(* meanwhile is to kill it; SubtaskBarrier has the rest.  A call of the    *)
(* model ends with a reply or an error (ModelClient).  A hook that is not  *)
(* said to be late finishes in its time.  The model may call any tool that *)
(* is registered, whether it was offered or not; which tool a call names   *)
(* is settled when its turn comes.                                         *)
(***************************************************************************)
EXTENDS Naturals, ModelReply, DeliverableContract, CodeRepair

CONSTANT MaxBatch       \* bound: tool calls in an answer

ASSUME TurnAssumption == MaxBatch \in Nat

VARIABLES
    turn_kind,      \* "main" or "sub"
    turn_at,        \* where the turn is
    turn_woken,     \* there is a message for another turn
    turn_task,      \* status of the sub-task
    turn_answer,    \* locals of the turn: the answer and what is left of it
    turn_tool,      \* the tool of the next call, where it is settled
    turn_outcome,   \* how the tool that was run last ended
    turn_end        \* history: how the last turn ended

turn_work == <<turn_answer, turn_tool, turn_outcome>>
turn_vars == <<turn_kind, turn_at, turn_woken, turn_task, turn_work, turn_end>>
agent_vars == <<turn_vars, dc_vars, rep_state>>

\* left: its calls that are left; args: the arguments of the last of them.
\* usage: still to be recorded.  recorded and paid are history: it has a
\* record, and how many have its usage.
NoAnswer == [text |-> FALSE, left |-> 0, args |-> "whole", usage |-> FALSE,
             recorded |-> FALSE, paid |-> 0]

TurnTerminal == turn_task \in {"completed", "failed", "cancelled"}

AgentInit == /\ DcInit /\ RepInit
             /\ turn_kind \in {"main", "sub"}
             /\ turn_kind = "main" => dc_rules = {} /\ ~rep_state.on
             /\ turn_at = "asleep" /\ turn_woken = FALSE
             /\ turn_task = IF turn_kind = "main" THEN "none" ELSE "running"
             /\ turn_answer = NoAnswer /\ turn_tool = "none"
             /\ turn_outcome = "none" /\ turn_end = "none"

Forgets == turn_answer' = NoAnswer /\ turn_tool' = "none" /\ turn_outcome' = "none"

Ends(how) == turn_at' = "asleep" /\ turn_end' = how /\ Forgets

Goes(where) == turn_at' = where /\ UNCHANGED turn_end

(***************************************************************************)
(* The model is called.                                                    *)
(***************************************************************************)
\* A message is put in the mailbox of the session.
MessageArrives ==
    /\ ~turn_woken
    /\ turn_woken' = TRUE
    /\ UNCHANGED <<turn_kind, turn_at, turn_task, turn_work, turn_end, dc_vars, rep_state>>

\* A sub-session whose task is terminal does not run (should_skip).
StartTurn ==
    /\ turn_at = "asleep" /\ turn_woken
    /\ turn_woken' = FALSE
    /\ turn_at' = IF TurnTerminal THEN "asleep" ELSE "thinking"
    /\ turn_end' = IF TurnTerminal THEN "skipped" ELSE "none"
    /\ dc_last' = "none"
    /\ UNCHANGED <<turn_kind, turn_task, turn_work, dc_rules, dc_count, rep_state>>

\* Only an answer that is cut has lost arguments of its last call.
Reply == {r \in [text : BOOLEAN, calls : 0..MaxBatch, reasoned : 0..1, cut : BOOLEAN,
                  args : {"whole", "part", "empty", "absent"}] :
             r.args # "whole" => r.cut /\ r.calls > 0}

\* Arguments that are no JSON; {} is.
Malformed(answer) == answer.args \in {"part", "empty"}

NeedsRepair(result) == result.finish = "length" /\ Malformed(result)

\* An answer with a malformed call is asked for again, once; when the calls
\* of the second are no use either, a text says so instead.  The profile that
\* answers, or its fallback, has one API or the other.
TakeReply ==
    /\ turn_at \in {"thinking", "repairing"}
    /\ \E reply \in Reply : \E result \in {ChatResult(reply), ResponsesResult(reply)} :
         LET useless == result.calls = 0 \/ Malformed(result)
             apology == turn_at = "repairing" /\ useless
         IN IF turn_at = "thinking" /\ NeedsRepair(result)
            THEN Goes("repairing") /\ UNCHANGED turn_work
            ELSE /\ Goes("answered")
                 /\ turn_answer' = [NoAnswer EXCEPT !.text = result.text \/ apology,
                                                    !.left = IF apology THEN 0 ELSE result.calls,
                                                    !.args = IF apology THEN "whole" ELSE result.args,
                                                    !.usage = TRUE]
                 /\ UNCHANGED <<turn_tool, turn_outcome>>
    /\ UNCHANGED <<turn_kind, turn_woken, turn_task, dc_vars, rep_state>>

(***************************************************************************)
(* How a task ends.                                                        *)
(***************************************************************************)
\* mark_terminal: the first outcome stands.
Concludes(status) == turn_task' = IF turn_task = "running" THEN status ELSE turn_task

\* handle_failure: an exception fails a sub-task, and is only logged for a
\* main session.
Fails == Concludes("failed") /\ Ends("failed")

ModelFails ==
    /\ turn_at \in {"thinking", "repairing"}
    /\ Fails
    /\ UNCHANGED <<turn_kind, turn_woken, dc_vars, rep_state>>

\* A write to the history fails, or the gateway cannot be told.
StoreFails ==
    /\ turn_at \in {"texting", "closing", "prefacing", "recording"}
    /\ Fails
    /\ UNCHANGED <<turn_kind, turn_woken, dc_vars, rep_state>>

\* kill_subtask of the main session.
KillTask == /\ turn_task = "running"
            /\ turn_task' = "cancelled"
            /\ UNCHANGED <<turn_kind, turn_at, turn_woken, turn_work, turn_end, dc_vars, rep_state>>

(***************************************************************************)
(* The answer: the hooks of after_llm_response, the contract's first.      *)
(***************************************************************************)
\* The contract looks at an answer that is only text; what it makes of it is
\* what the repair workflow gets to see.
HookAnswer ==
    LET checked == turn_kind = "sub" /\ turn_answer.left = 0
        fails == checked /\ GivesUp
        steers == rep_state.on /\ turn_answer.left = 0 /\ ~fails
        forced == (checked /\ SendsBack) \/ (steers /\ MustResolve(rep_state))
        made == CASE fails -> "failed"
                  [] steers -> ForcedCall(rep_state)
                  [] OTHER -> "none"
        left == IF made # "none" THEN 1 ELSE turn_answer.left
    IN /\ turn_at = "answered"
       /\ IF checked THEN CheckContract ELSE UNCHANGED dc_vars
       /\ turn_woken' = (turn_woken \/ forced)
       /\ \/ /\ forced /\ ~turn_answer.text
             /\ Ends("forced")
          \/ /\ ~forced /\ left = 0 /\ ~turn_answer.text
             /\ Ends("empty")
          \/ /\ turn_answer.text /\ (forced \/ left = 0)
             /\ Goes(IF forced THEN "closing" ELSE "texting")
             /\ UNCHANGED turn_work
          \/ /\ ~forced /\ left > 0
             /\ Goes("tools") \/ (turn_answer.text /\ Goes("prefacing"))
             /\ turn_answer' = [turn_answer EXCEPT !.left = left]
             /\ turn_tool' = made
             /\ UNCHANGED turn_outcome
    /\ UNCHANGED <<turn_kind, turn_task, rep_state>>

\* Mutant: the usage is recorded with every record.
RecordedAgain(answer) == [answer EXCEPT !.recorded = TRUE, !.paid = @ + 1]

\* A record takes the usage of the answer with it, if no other has.
Recorded(answer) == [answer EXCEPT !.usage = FALSE, !.recorded = TRUE,
                                   !.paid = @ + IF answer.usage THEN 1 ELSE 0]

\* The text that comes with calls, unless it is only a thought.
StorePreface ==
    /\ turn_at = "prefacing"
    /\ Goes("tools")
    /\ turn_answer' = Recorded(turn_answer)
    /\ UNCHANGED <<turn_kind, turn_woken, turn_task, turn_tool, turn_outcome, dc_vars, rep_state>>

\* Mutant: that the turn was forced to finish is not looked at.
StoreTextAnyway ==
    /\ turn_at \in {"texting", "closing"}
    /\ Goes(IF turn_kind = "sub" THEN "concluding" ELSE "closed")
    /\ turn_answer' = Recorded(turn_answer)
    /\ UNCHANGED <<turn_kind, turn_woken, turn_task, turn_tool, turn_outcome, dc_vars, rep_state>>

\* The text is stored; it completes a sub-task unless the turn was forced to
\* finish.
StoreText ==
    /\ turn_at \in {"texting", "closing"}
    /\ Goes(IF turn_at = "texting" /\ turn_kind = "sub" THEN "concluding" ELSE "closed")
    /\ turn_answer' = Recorded(turn_answer)
    /\ UNCHANGED <<turn_kind, turn_woken, turn_task, turn_tool, turn_outcome, dc_vars, rep_state>>

FinishText ==
    /\ turn_at \in {"concluding", "closed"}
    /\ Ends("text")
    /\ IF turn_at = "concluding" THEN Concludes("completed") ELSE UNCHANGED turn_task
    /\ UNCHANGED <<turn_kind, turn_woken, dc_vars, rep_state>>

(***************************************************************************)
(* Tool calls.                                                             *)
(***************************************************************************)
\* report_subtask_done with either outcome, the tools of the repair, and any
\* other.
Report == {"done", "failed"}
Tool == {"work"} \cup (IF turn_kind = "sub" THEN Report ELSE {})
                 \cup (IF rep_state.on THEN RepairTool ELSE {})

\* The hooks of before_tool_call: the contract looks at a report, and may
\* send the model back or have the report say "failed"; the repair workflow
\* may redirect a call or end the turn, without a message for another.
HookCall ==
    /\ turn_at = "tools" /\ turn_answer.left > 0
    /\ \E tool \in IF turn_tool = "none" THEN Tool ELSE {turn_tool} :
         LET report == turn_kind = "sub" /\ tool \in Report
         IN /\ IF report THEN CheckContract ELSE UNCHANGED dc_vars
            /\ turn_woken' = (turn_woken \/ (report /\ SendsBack))
            /\ CASE report /\ SendsBack -> Ends("forced")
                 [] Hopeless(tool) -> Ends("halted")
                 [] OTHER -> /\ Goes("running")
                             /\ turn_tool' = IF report /\ GivesUp THEN "failed"
                                             ELSE Redirected(tool)
                             /\ UNCHANGED <<turn_answer, turn_outcome>>
    /\ UNCHANGED <<turn_kind, turn_task, rep_state>>

BrokenCall == Malformed(turn_answer) /\ turn_answer.left = 1

\* A call with malformed arguments is not run but gets the text of an error.
RunTool ==
    /\ turn_at = "running"
    /\ \E outcome \in IF BrokenCall THEN {"error"} ELSE Outcome :
         /\ turn_outcome' = outcome
         /\ rep_state' = ToolDone(rep_state, turn_tool, outcome)
         /\ CASE outcome = "good" /\ turn_tool = "done" -> Concludes("completed")
              [] outcome = "good" /\ turn_tool = "failed" -> Concludes("failed")
              [] OTHER -> UNCHANGED turn_task
    /\ Goes("recording")
    /\ UNCHANGED <<turn_kind, turn_woken, turn_answer, turn_tool, dc_vars>>

\* The call and its result are recorded; then come the hooks of
\* after_tool_call and the next call.
RecordTool ==
    /\ turn_at = "recording"
    /\ \E missing \in BOOLEAN :
          rep_state' = IF rep_state.on
                       THEN AfterTool(rep_state, turn_tool, turn_outcome # "broken", missing)
                       ELSE rep_state
    /\ Goes("tools")
    /\ turn_answer' = [Recorded(turn_answer) EXCEPT !.left = @ - 1]
    /\ turn_tool' = "none"
    /\ UNCHANGED <<turn_kind, turn_woken, turn_task, turn_outcome, dc_vars>>

\* Mutant: no follow-up is published.
FollowUpSilently ==
    /\ turn_at = "tools" /\ turn_answer.left = 0
    /\ Ends("tools")
    /\ UNCHANGED <<turn_kind, turn_woken, turn_task, dc_vars, rep_state>>

\* The batch is done: another turn follows, unless the task is terminal.
FollowUp ==
    /\ turn_at = "tools" /\ turn_answer.left = 0
    /\ Ends("tools")
    /\ turn_woken' = (turn_woken \/ ~TurnTerminal)
    /\ UNCHANGED <<turn_kind, turn_task, dc_vars, rep_state>>

AgentNext == \/ MessageArrives \/ StartTurn \/ TakeReply \/ ModelFails \/ StoreFails \/ KillTask
             \/ HookAnswer \/ StorePreface \/ StoreText \/ FinishText
             \/ HookCall \/ RunTool \/ RecordTool \/ FollowUp

AgentSpec == AgentInit /\ [][AgentNext]_agent_vars

(***************************************************************************)
(* Properties.                                                             *)
(***************************************************************************)
AnswerRecord == [text : BOOLEAN, left : Nat, args : {"whole", "part", "empty", "default"},
                 usage : BOOLEAN, recorded : BOOLEAN, paid : Nat]

RepairRecord == [on : BOOLEAN, phase : {"reproduce", "patch", "verify", "report"},
                 verified : BOOLEAN, pending : BOOLEAN]

\* Every variable has its type.
AgentTypeOK ==
    /\ turn_kind \in {"main", "sub"}
    /\ turn_at \in {"asleep", "thinking", "repairing", "answered", "texting", "closing",
                    "concluding", "closed", "prefacing", "tools", "running", "recording"}
    /\ turn_woken \in BOOLEAN
    /\ turn_task \in {"none", "running", "completed", "failed", "cancelled"}
    /\ turn_answer \in AnswerRecord
    /\ turn_tool \in {"none", "work"} \cup Report \cup RepairTool
    /\ turn_outcome \in {"none"} \cup Outcome
    /\ turn_end \in {"none", "skipped", "failed", "forced", "empty", "text", "halted", "tools"}
    /\ dc_rules \subseteq Rule /\ dc_count \in 0..Threshold
    /\ dc_last \in {"none", "pass", "fail", "late"}
    /\ rep_state \in RepairRecord

\* Of what an answer leaves in the history exactly one record has its usage,
\* whether it is text, a preface or the first of several calls
\* (Planner._process_tool_calls).
UsageCountedOnce == /\ turn_answer.paid <= 1
                    /\ turn_answer.recorded => turn_answer.paid = 1

\* A call that was cut off in the middle of its arguments, or with the chat
\* API before them, is asked for again or given up, in the second answer as in
\* the first: what gets as far as a tool is whole, or has lost all of its
\* arguments to a parser that puts {} in their place
\* (_repair_length_truncated_tool_calls_if_needed).
MalformedCallsNeverRun ==
    turn_at = "running" /\ turn_answer.left = 1 => turn_answer.args \in {"whole", "default"}

\* "Retry once with a compact repair prompt when tool-call arguments are
\* truncated." (_repair_length_truncated_tool_calls_if_needed).  It does not
\* hold: {} in place of the arguments is well-formed, and the tool is run
\* without them.
TruncatedCallsNeverRun ==
    turn_at = "running" /\ turn_answer.left = 1 => turn_answer.args = "whole"

\* A sub-task with a contract is completed only in a turn in which its rules
\* were found to hold, or the look was not finished in time (the hooks of the
\* deliverable contract).
UnmetIsNeverCompleted ==
    [][turn_task # "completed" /\ turn_task' = "completed" /\ dc_rules # {}
          => dc_last \in {"pass", "late"}]_agent_vars

\* A repair is completed by a text only at a stage the workflow does not hold
\* on to, or once its checks have passed (code_repair_state).
TextDoesNotSkipTheGate ==
    [][turn_at = "concluding" /\ turn_task # "completed" /\ turn_task' = "completed" /\ rep_state.on
          => rep_state.phase = "patch" \/ rep_state.verified]_agent_vars

\* "Only advance to verify when patching actually succeeds."
\* (repair_after_tool_call).  It does not hold: a tool that returned an error
\* has started.
VerifyMeansPatched ==
    [][rep_state.phase # "verify" /\ rep_state'.phase = "verify"
          => turn_outcome' = "good"]_agent_vars

\* A running sub-task that sleeps with nothing to wake it has not had a turn,
\* or was left by an empty answer or by a call the repair workflow stopped:
\* every other end of a turn has an outcome or a next turn
\* (SubSessionTurnPolicy).
StallsAreKnown ==
    turn_kind = "sub" /\ turn_at = "asleep" /\ ~turn_woken /\ ~TurnTerminal
       => turn_end \in {"none", "empty", "halted"}
=============================================================================
