---------------------------- MODULE Agent_proofs ----------------------------
(***************************************************************************)
(* A turn of the agent, for any contract, any number of calls in an answer *)
(* and any number of tries of the endpoint.                                *)
(***************************************************************************)
EXTENDS SubAgentTurn, ModelClient, ContextWindow, Induction, SequenceTheorems,
        FiniteSetTheorems, TLAPS

(***************************************************************************)
(* SubAgentTurn: UsageCountedOnce, MalformedCallsNeverRun, StallsAreKnown, *)
(* UnmetIsNeverCompleted and TextDoesNotSkipTheGate.                       *)
(***************************************************************************)

\* While an answer is worked on its usage is to be recorded or has been; a
\* call that is run is one of its calls that are left.
AnswerInHand ==
    /\ turn_answer.recorded \/ turn_answer.usage => turn_answer.paid = IF turn_answer.usage THEN 0 ELSE 1
    /\ turn_answer.recorded => ~turn_answer.usage
    /\ ~turn_answer.recorded => turn_answer.paid = 0
    /\ turn_at \in {"answered", "texting", "closing", "prefacing", "tools", "running",
                    "recording"} => turn_answer.recorded \/ turn_answer.usage
    /\ turn_at \in {"running", "recording"} => turn_answer.left > 0

\* An answer with a malformed call is repaired or replaced before anybody
\* looks at it.
NoMalformedAnswer == ~Malformed(turn_answer)

\* What a turn that is about to end, or has, leaves behind.
EndsWell ==
    /\ turn_kind = "sub" => turn_task # "none"
    /\ turn_kind = "sub" /\ turn_at \in {"closing", "closed"} => turn_woken
    /\ StallsAreKnown

\* Who is about to complete the task has looked at the contract.
ContractWasLookedAt ==
    /\ turn_kind = "main" => dc_rules = {}
    /\ dc_rules # {} /\ turn_at \in {"texting", "concluding"} => dc_last \in {"pass", "late"}
    /\ dc_rules # {} /\ turn_at = "running" /\ turn_tool = "done" => dc_last \in {"pass", "late"}

AgentInv == AgentTypeOK /\ AnswerInHand /\ NoMalformedAnswer /\ EndsWell /\ ContractWasLookedAt

LEMMA AgentInvInit == AgentInit => AgentInv
<1> SUFFICES ASSUME AgentInit PROVE AgentInv
  OBVIOUS
<1>1. AgentTypeOK
  <2>1. dc_rules \subseteq Rule /\ dc_count \in 0..Threshold /\ dc_last = "none"
    BY ContractAssumption DEF AgentInit, DcInit
  <2>2. rep_state \in RepairRecord
    BY DEF AgentInit, RepInit, RepairRecord
  <2>3. turn_answer \in AnswerRecord
    BY DEF AgentInit, NoAnswer, AnswerRecord
  <2> QED BY <2>1, <2>2, <2>3 DEF AgentInit, AgentTypeOK
<1>2. AnswerInHand /\ NoMalformedAnswer
  BY DEF AgentInit, AnswerInHand, NoMalformedAnswer, Malformed, NoAnswer
<1>3. EndsWell
  BY DEF AgentInit, EndsWell, StallsAreKnown
<1>4. ContractWasLookedAt
  BY DEF AgentInit, ContractWasLookedAt
<1> QED BY <1>1, <1>2, <1>3, <1>4 DEF AgentInv

LEMMA RecordTypes ==
  /\ NoAnswer \in AnswerRecord
  /\ \A a \in AnswerRecord :
        /\ Recorded(a) \in AnswerRecord
        /\ Recorded(a).left = a.left /\ Recorded(a).args = a.args
        /\ Recorded(a).recorded /\ ~Recorded(a).usage
        /\ Recorded(a).paid = a.paid + IF a.usage THEN 1 ELSE 0
<1>1. NoAnswer \in AnswerRecord
  BY DEF NoAnswer, AnswerRecord
<1>2. ASSUME NEW a \in AnswerRecord
      PROVE  /\ Recorded(a) \in AnswerRecord
             /\ Recorded(a).left = a.left /\ Recorded(a).args = a.args
             /\ Recorded(a).recorded /\ ~Recorded(a).usage
             /\ Recorded(a).paid = a.paid + IF a.usage THEN 1 ELSE 0
  <2> DEFINE n == a.paid + IF a.usage THEN 1 ELSE 0
  <2>1. n \in Nat
    BY <1>2 DEF AnswerRecord
  <2>2. Recorded(a) = [a EXCEPT !.usage = FALSE, !.recorded = TRUE, !.paid = n]
    BY DEF Recorded
  <2> HIDE DEF n
  <2>3. /\ Recorded(a) \in AnswerRecord
        /\ Recorded(a).left = a.left /\ Recorded(a).args = a.args
        /\ Recorded(a).recorded /\ ~Recorded(a).usage
        /\ Recorded(a).paid = n
    BY <1>2, <2>1, <2>2 DEF AnswerRecord
  <2> QED BY <2>3 DEF n
<1> QED BY <1>1, <1>2

LEMMA QuietKeeps ==
  ASSUME AgentInv, MessageArrives \/ StartTurn \/ ModelFails \/ StoreFails \/ KillTask
  PROVE  AgentInv'
<1>1. CASE MessageArrives
  <2>1. AgentTypeOK'
    BY <1>1 DEF AgentInv, AgentTypeOK, MessageArrives, turn_work, TurnTerminal, dc_vars
  <2>2. AnswerInHand' /\ NoMalformedAnswer'
    BY <1>1
       DEF AgentInv, AgentTypeOK, AnswerRecord, AnswerInHand, NoMalformedAnswer, Malformed,
           MessageArrives, turn_work, dc_vars
  <2>3. EndsWell'
    BY <1>1
       DEF AgentInv, AgentTypeOK, EndsWell, StallsAreKnown, TurnTerminal, MessageArrives,
           dc_vars
  <2>4. ContractWasLookedAt'
    BY <1>1
       DEF AgentInv, AgentTypeOK, ContractWasLookedAt, MessageArrives, turn_work, dc_vars
  <2> QED BY <2>1, <2>2, <2>3, <2>4 DEF AgentInv
<1>2. CASE StartTurn
  <2>1. AgentTypeOK'
    BY <1>2 DEF AgentInv, AgentTypeOK, StartTurn, turn_work, TurnTerminal
  <2>2. AnswerInHand' /\ NoMalformedAnswer'
    BY <1>2
       DEF AgentInv, AgentTypeOK, AnswerRecord, AnswerInHand, NoMalformedAnswer, Malformed,
           StartTurn,
           turn_work
  <2>3. EndsWell'
    BY <1>2 DEF AgentInv, AgentTypeOK, EndsWell, StallsAreKnown, TurnTerminal, StartTurn
  <2>4. ContractWasLookedAt'
    BY <1>2 DEF AgentInv, AgentTypeOK, ContractWasLookedAt, StartTurn, dc_vars
  <2> QED BY <2>1, <2>2, <2>3, <2>4 DEF AgentInv
<1>3. CASE ModelFails \/ StoreFails
  <2>1. AgentTypeOK'
    BY <1>3, RecordTypes
       DEF AgentInv, AgentTypeOK, ModelFails, StoreFails, Fails, Concludes, Ends, Forgets, dc_vars
  <2>2. AnswerInHand' /\ NoMalformedAnswer'
    BY <1>3
       DEF AgentInv, AgentTypeOK, AnswerRecord, AnswerInHand, NoMalformedAnswer, Malformed,
           ModelFails,
           StoreFails, turn_work, Fails, Concludes, Ends, Forgets, NoAnswer, dc_vars
  <2>3. EndsWell'
    BY <1>3
       DEF AgentInv, AgentTypeOK, EndsWell, StallsAreKnown, TurnTerminal, ModelFails,
           StoreFails, Fails, Concludes, Ends, Forgets, NoAnswer, dc_vars
  <2>4. ContractWasLookedAt'
    BY <1>3
       DEF AgentInv, AgentTypeOK, ContractWasLookedAt, ModelFails, StoreFails, Fails,
           Concludes, Ends, Forgets, NoAnswer, dc_vars
  <2> QED BY <2>1, <2>2, <2>3, <2>4 DEF AgentInv
<1>4. CASE KillTask
  <2>1. AgentTypeOK'
    BY <1>4 DEF AgentInv, AgentTypeOK, KillTask, turn_work, TurnTerminal, dc_vars
  <2>2. AnswerInHand' /\ NoMalformedAnswer'
    BY <1>4
       DEF AgentInv, AgentTypeOK, AnswerRecord, AnswerInHand, NoMalformedAnswer, Malformed,
           KillTask,
           turn_work, dc_vars
  <2>3. EndsWell'
    BY <1>4
       DEF AgentInv, AgentTypeOK, EndsWell, StallsAreKnown, TurnTerminal, KillTask, dc_vars
  <2>4. ContractWasLookedAt'
    BY <1>4 DEF AgentInv, AgentTypeOK, ContractWasLookedAt, KillTask, turn_work, dc_vars
  <2> QED BY <2>1, <2>2, <2>3, <2>4 DEF AgentInv
<1> QED BY <1>1, <1>2, <1>3, <1>4

(* Both parsers say that a reply that was cut has the finish "length", and *)
(* only arguments that were cut can be malformed.                          *)
LEMMA CutIsLength ==
  ASSUME NEW reply \in Reply, reply.cut
  PROVE  ChatResult(reply).finish = "length" /\ ResponsesResult(reply).finish = "length"
  BY DEF ChatResult, ResponsesResult

LEMMA ResultArgs ==
  ASSUME NEW reply \in Reply, NEW result \in {ChatResult(reply), ResponsesResult(reply)}
  PROVE  /\ result.args \in {"whole", "part", "empty", "default"}
         /\ result.args # "whole" => reply.cut
<1>1. reply.args \in {"whole", "part", "empty", "absent"} /\ (reply.args # "whole" => reply.cut)
  BY DEF Reply
<1>2. ChatResult(reply).args = IF reply.args = "absent" THEN "default" ELSE reply.args
  BY DEF ChatResult
<1>3. ResponsesResult(reply).args = OrNone(reply.args)
  BY DEF ResponsesResult
<1>4. CASE result = ChatResult(reply)
  BY <1>1, <1>2, <1>4
<1>5. CASE result = ResponsesResult(reply)
  BY <1>1, <1>3, <1>5 DEF OrNone
<1> QED BY <1>4, <1>5

LEMMA ResultTypes ==
  ASSUME NEW reply \in Reply, NEW result \in {ChatResult(reply), ResponsesResult(reply)}
  PROVE  /\ result.text \in BOOLEAN
         /\ result.calls \in Nat
         /\ result.args \in {"whole", "part", "empty", "default"}
         /\ Malformed(result) => result.finish = "length"
<1>1. result.text \in BOOLEAN /\ result.calls \in Nat
  BY TurnAssumption DEF Reply, ChatResult, ResponsesResult
<1>2. Malformed(result) => result.finish = "length"
  BY CutIsLength, ResultArgs DEF Malformed
<1> QED BY <1>1, <1>2, ResultArgs

\* What TakeReply makes of a reply.
Took(reply, result) ==
    LET useless == result.calls = 0 \/ Malformed(result)
        apology == turn_at = "repairing" /\ useless
    IN IF turn_at = "thinking" /\ NeedsRepair(result)
       THEN Goes("repairing") /\ UNCHANGED turn_work
       ELSE /\ Goes("answered")
            /\ turn_answer' = [NoAnswer EXCEPT !.text = result.text \/ apology,
                                               !.left = IF apology THEN 0 ELSE result.calls,
                                               !.args = IF apology THEN "whole" ELSE result.args,
                                               !.usage = TRUE]
            /\ UNCHANGED <<turn_tool, turn_outcome>>

LEMMA ReplyKeeps == ASSUME AgentInv, TakeReply PROVE AgentInv'
<1> USE DEF AgentInv, AgentTypeOK, AnswerInHand, NoMalformedAnswer, Malformed,
            EndsWell, StallsAreKnown,
            ContractWasLookedAt, TurnTerminal, turn_work, dc_vars, Goes
<1>1. PICK reply \in Reply : \E result \in {ChatResult(reply), ResponsesResult(reply)} :
                                  Took(reply, result)
  BY DEF TakeReply, Took
<1>a. PICK result \in {ChatResult(reply), ResponsesResult(reply)} : Took(reply, result)
  BY <1>1
<1>2. /\ UNCHANGED <<turn_kind, turn_woken, turn_task, dc_vars, rep_state>>
      /\ turn_at \in {"thinking", "repairing"}
  BY DEF TakeReply
<1>3. /\ result.text \in BOOLEAN /\ result.calls \in Nat
      /\ result.args \in {"whole", "part", "empty", "default"}
      /\ Malformed(result) => result.finish = "length"
  BY ResultTypes
<1>4. CASE turn_at = "thinking" /\ NeedsRepair(result)
  BY <1>a, <1>2, <1>4 DEF Took
<1>5. CASE ~(turn_at = "thinking" /\ NeedsRepair(result))
  <2> DEFINE apology == turn_at = "repairing" /\ (result.calls = 0 \/ Malformed(result))
  <2>1. ~(Malformed(result) /\ ~apology)
    BY <1>2, <1>3, <1>5 DEF NeedsRepair
  <2>2. /\ turn_answer' = [NoAnswer EXCEPT !.text = result.text \/ apology,
                                           !.left = IF apology THEN 0 ELSE result.calls,
                                           !.args = IF apology THEN "whole" ELSE result.args,
                                           !.usage = TRUE]
        /\ Goes("answered") /\ UNCHANGED <<turn_tool, turn_outcome>>
    BY <1>a, <1>5 DEF Took
  <2>3. /\ turn_answer' \in AnswerRecord
        /\ ~Malformed(turn_answer') /\ turn_answer'.usage
        /\ ~turn_answer'.recorded /\ turn_answer'.paid = 0
    <3> HIDE DEF apology
    <3>1. apology \in BOOLEAN
      BY DEF apology
    <3> QED BY <1>3, <2>1, <2>2, <3>1 DEF NoAnswer, AnswerRecord, Malformed
  <2> HIDE DEF apology
  <2> QED BY <1>2, <2>2, <2>3
<1> QED BY <1>4, <1>5

(* A look at the contract leaves the rules alone and says "fail", to the   *)
(* model or to the report, or lets the turn go on.                         *)
LEMMA ContractTypes ==
  ASSUME AgentTypeOK, CheckContract
  PROVE  /\ dc_rules' = dc_rules
         /\ dc_count' \in 0..Threshold
         /\ dc_last' \in {"none", "pass", "fail", "late"}
         /\ dc_rules # {} => dc_last' # "none"
         /\ dc_last' = "fail" => SendsBack \/ GivesUp
         /\ ~(SendsBack /\ GivesUp)
  BY ContractAssumption DEF AgentTypeOK, CheckContract, Verdict, SendsBack, GivesUp, TooMany

LEMMA AnswerKeeps == ASSUME AgentInv, HookAnswer PROVE AgentInv'
<1> DEFINE checked == turn_kind = "sub" /\ turn_answer.left = 0
           fails == checked /\ GivesUp
           steers == rep_state.on /\ turn_answer.left = 0 /\ ~fails
           forced == (checked /\ SendsBack) \/ (steers /\ MustResolve(rep_state))
           made == CASE fails -> "failed"
                     [] steers -> ForcedCall(rep_state)
                     [] OTHER -> "none"
           left == IF made # "none" THEN 1 ELSE turn_answer.left
<1>1. /\ turn_at = "answered"
      /\ IF checked THEN CheckContract ELSE UNCHANGED dc_vars
      /\ turn_woken' = (turn_woken \/ forced)
      /\ UNCHANGED <<turn_kind, turn_task, rep_state>>
  BY DEF HookAnswer
<1>2. /\ made \in {"none", "failed", "collect", "verify"}
      /\ left \in Nat
  BY DEF ForcedCall, AgentInv, AgentTypeOK, AnswerRecord
<1>3. \/ /\ forced /\ ~turn_answer.text
         /\ Ends("forced")
      \/ /\ ~forced /\ left = 0 /\ ~turn_answer.text
         /\ Ends("empty")
      \/ /\ turn_answer.text /\ (forced \/ left = 0)
         /\ Goes(IF forced THEN "closing" ELSE "texting")
         /\ UNCHANGED turn_work
      \/ /\ ~forced /\ left > 0
         /\ Goes("tools") \/ (turn_answer.text /\ Goes("prefacing"))
         /\ turn_answer' = [turn_answer EXCEPT !.left = left]
         /\ turn_tool' = made
         /\ UNCHANGED turn_outcome
  BY DEF HookAnswer
<1>4. /\ dc_rules' = dc_rules
      /\ dc_count' \in 0..Threshold
      /\ dc_last' \in {"none", "pass", "fail", "late"}
  BY <1>1, ContractTypes DEF AgentInv, AgentTypeOK, dc_vars
<1>5. ASSUME ~forced, left = 0, dc_rules # {}
      PROVE  dc_last' \in {"pass", "late"}
  <2>1. checked /\ CheckContract
    BY <1>1, <1>5 DEF AgentInv, AgentTypeOK, ContractWasLookedAt
  <2>2. ~GivesUp /\ ~SendsBack
    BY <1>5, <2>1
  <2> QED BY <1>4, <1>5, <2>1, <2>2, ContractTypes DEF AgentInv
<1>6. forced \in BOOLEAN
  BY DEF MustResolve, SendsBack
<1> HIDE DEF forced, made, left, fails, steers, checked
<1>7. AgentTypeOK'
  <2>1. [turn_answer EXCEPT !.left = left] \in AnswerRecord
    BY <1>2 DEF AgentInv, AgentTypeOK, AnswerRecord
  <2>2. /\ turn_at' \in {"asleep", "closing", "texting", "tools", "prefacing"}
        /\ turn_end' = turn_end \/ turn_end' \in {"forced", "empty"}
    BY <1>3 DEF Ends, Goes
  <2>3. /\ turn_answer' \in AnswerRecord
        /\ turn_tool' \in {"none", "work"} \cup Report \cup RepairTool
        /\ turn_outcome' \in {"none"} \cup Outcome
    BY <1>2, <1>3, <2>1, RecordTypes
       DEF AgentInv, AgentTypeOK, Ends, Forgets, turn_work, RepairTool, Report
  <2>4. turn_woken' \in BOOLEAN
    BY <1>1, <1>6 DEF AgentInv, AgentTypeOK
  <2> QED BY <1>1, <1>4, <2>2, <2>3, <2>4 DEF AgentInv, AgentTypeOK
<1>8. AnswerInHand' /\ NoMalformedAnswer'
  BY <1>1, <1>2, <1>3
     DEF AgentInv, AgentTypeOK, AnswerRecord, AnswerInHand, NoMalformedAnswer, Malformed,
         Ends, Goes, Forgets, NoAnswer,
         turn_work
<1>9. EndsWell'
  BY <1>1, <1>3, <1>6
     DEF AgentInv, AgentTypeOK, EndsWell, StallsAreKnown, Ends, Goes, TurnTerminal
<1>10. ContractWasLookedAt'
  BY <1>1, <1>3, <1>4, <1>5
     DEF AgentInv, AgentTypeOK, ContractWasLookedAt, Ends, Goes
<1> QED BY <1>7, <1>8, <1>9, <1>10 DEF AgentInv

LEMMA TextKeeps ==
  ASSUME AgentInv, StorePreface \/ StoreText \/ FinishText
  PROVE  AgentInv'
<1>1. CASE StorePreface
  <2>1. AgentTypeOK'
    BY <1>1, RecordTypes DEF AgentInv, AgentTypeOK, StorePreface, Goes, dc_vars
  <2>2. AnswerInHand' /\ NoMalformedAnswer'
    BY <1>1
       DEF AgentInv, AgentTypeOK, AnswerRecord, AnswerInHand, NoMalformedAnswer, Malformed,
           StorePreface,
           turn_work, Goes, Recorded, dc_vars
  <2>3. EndsWell'
    BY <1>1
       DEF AgentInv, AgentTypeOK, EndsWell, StallsAreKnown, TurnTerminal, StorePreface,
           Goes, Recorded, dc_vars
  <2>4. ContractWasLookedAt'
    BY <1>1
       DEF AgentInv, AgentTypeOK, ContractWasLookedAt, StorePreface, Goes, Recorded, dc_vars
  <2> QED BY <2>1, <2>2, <2>3, <2>4 DEF AgentInv
<1>2. CASE StoreText
  <2>1. AgentTypeOK'
    BY <1>2, RecordTypes DEF AgentInv, AgentTypeOK, StoreText, Goes, dc_vars
  <2>2. AnswerInHand' /\ NoMalformedAnswer'
    BY <1>2
       DEF AgentInv, AgentTypeOK, AnswerRecord, AnswerInHand, NoMalformedAnswer, Malformed,
           StoreText,
           turn_work, Goes, Recorded, dc_vars
  <2>3. EndsWell'
    BY <1>2
       DEF AgentInv, AgentTypeOK, EndsWell, StallsAreKnown, TurnTerminal, StoreText, Goes,
           Recorded, dc_vars
  <2>4. ContractWasLookedAt'
    BY <1>2
       DEF AgentInv, AgentTypeOK, ContractWasLookedAt, StoreText, Goes, Recorded, dc_vars
  <2> QED BY <2>1, <2>2, <2>3, <2>4 DEF AgentInv
<1>3. CASE FinishText
  <2>1. AgentTypeOK'
    BY <1>3, RecordTypes
       DEF AgentInv, AgentTypeOK, FinishText, Ends, Forgets, Concludes, dc_vars
  <2>2. AnswerInHand' /\ NoMalformedAnswer'
    BY <1>3
       DEF AgentInv, AgentTypeOK, AnswerRecord, AnswerInHand, NoMalformedAnswer, Malformed,
           FinishText,
           turn_work, Ends, Forgets, NoAnswer, Concludes, dc_vars
  <2>3. EndsWell'
    BY <1>3
       DEF AgentInv, AgentTypeOK, EndsWell, StallsAreKnown, TurnTerminal, FinishText, Ends,
           Forgets, NoAnswer, Concludes, dc_vars
  <2>4. ContractWasLookedAt'
    BY <1>3
       DEF AgentInv, AgentTypeOK, ContractWasLookedAt, FinishText, Ends, Forgets, NoAnswer,
           Concludes, dc_vars
  <2> QED BY <2>1, <2>2, <2>3, <2>4 DEF AgentInv
<1> QED BY <1>1, <1>2, <1>3

LEMMA CallKeeps == ASSUME AgentInv, HookCall PROVE AgentInv'
<1>1. PICK tool \in IF turn_tool = "none" THEN Tool ELSE {turn_tool} :
         LET report == turn_kind = "sub" /\ tool \in Report
         IN /\ IF report THEN CheckContract ELSE UNCHANGED dc_vars
            /\ turn_woken' = (turn_woken \/ (report /\ SendsBack))
            /\ CASE report /\ SendsBack -> Ends("forced")
                 [] Hopeless(tool) -> Ends("halted")
                 [] OTHER -> /\ Goes("running")
                             /\ turn_tool' = IF report /\ GivesUp THEN "failed"
                                             ELSE Redirected(tool)
                             /\ UNCHANGED <<turn_answer, turn_outcome>>
  BY DEF HookCall
<1>2. /\ turn_at = "tools" /\ turn_answer.left > 0
      /\ UNCHANGED <<turn_kind, turn_task, rep_state>>
  BY DEF HookCall
<1> DEFINE report == turn_kind = "sub" /\ tool \in Report
<1>3. /\ IF report THEN CheckContract ELSE UNCHANGED dc_vars
      /\ turn_woken' = (turn_woken \/ (report /\ SendsBack))
  BY <1>1
<1>4. \/ report /\ SendsBack /\ Ends("forced")
      \/ ~(report /\ SendsBack) /\ Ends("halted")
      \/ /\ ~(report /\ SendsBack) /\ Goes("running")
         /\ turn_tool' = IF report /\ GivesUp THEN "failed" ELSE Redirected(tool)
         /\ UNCHANGED <<turn_answer, turn_outcome>>
  BY <1>1 DEF Hopeless, Report
<1>5. /\ tool \in {"work"} \cup Report \cup RepairTool
      /\ Redirected(tool) \in {"work"} \cup Report \cup RepairTool
      /\ Redirected(tool) = "done" => tool = "done"
  BY DEF Tool, AgentInv, AgentTypeOK, Redirected, Report, RepairTool
<1>6. /\ dc_rules' = dc_rules
      /\ dc_count' \in 0..Threshold
      /\ dc_last' \in {"none", "pass", "fail", "late"}
  BY <1>3, ContractTypes DEF AgentInv, AgentTypeOK, dc_vars
<1>7. ASSUME dc_rules # {}, tool = "done", ~(report /\ SendsBack), ~(report /\ GivesUp)
      PROVE  dc_last' \in {"pass", "late"}
  <2>1. report
    BY <1>7 DEF AgentInv, AgentTypeOK, ContractWasLookedAt, Report
  <2> QED BY <1>3, <1>6, <1>7, <2>1, ContractTypes DEF AgentInv
<1>8. (report /\ SendsBack) \in BOOLEAN
  OBVIOUS
<1> HIDE DEF report
<1>9. AgentTypeOK'
  <2>1. /\ turn_at' \in {"asleep", "running"}
        /\ turn_end' = turn_end \/ turn_end' \in {"forced", "halted"}
    BY <1>4 DEF Ends, Goes
  <2>2. /\ turn_answer' \in AnswerRecord
        /\ turn_tool' \in {"none", "work"} \cup Report \cup RepairTool
        /\ turn_outcome' \in {"none"} \cup Outcome
    BY <1>4, <1>5, RecordTypes DEF AgentInv, AgentTypeOK, Ends, Forgets, Report
  <2>3. turn_woken' \in BOOLEAN
    BY <1>3, <1>8 DEF AgentInv, AgentTypeOK
  <2> QED BY <1>2, <1>6, <2>1, <2>2, <2>3 DEF AgentInv, AgentTypeOK
<1>10. AnswerInHand' /\ NoMalformedAnswer'
  BY <1>2, <1>4
     DEF AgentInv, AgentTypeOK, AnswerRecord, AnswerInHand, NoMalformedAnswer, Malformed,
         Ends, Goes, Forgets, NoAnswer
<1>11. EndsWell'
  BY <1>2, <1>3, <1>4
     DEF AgentInv, AgentTypeOK, EndsWell, StallsAreKnown, Ends, Goes, TurnTerminal
<1>12. ContractWasLookedAt'
  <2>1. ASSUME dc_rules # {}, turn_at' = "running", turn_tool' = "done"
        PROVE  dc_last' \in {"pass", "late"}
    BY <1>4, <1>5, <1>7, <2>1 DEF Ends, Goes
  <2>2. turn_at' \in {"asleep", "running"}
    BY <1>4 DEF Ends, Goes
  <2> QED BY <1>2, <1>6, <2>1, <2>2 DEF AgentInv, ContractWasLookedAt
<1> QED BY <1>9, <1>10, <1>11, <1>12 DEF AgentInv

LEMMA ToolKeeps ==
  ASSUME AgentInv, RunTool \/ RecordTool \/ FollowUp
  PROVE  AgentInv'
<1>1. CASE RunTool
  <2>1. PICK outcome \in IF BrokenCall THEN {"error"} ELSE Outcome :
           /\ turn_outcome' = outcome
           /\ rep_state' = ToolDone(rep_state, turn_tool, outcome)
           /\ CASE outcome = "good" /\ turn_tool = "done" -> Concludes("completed")
                [] outcome = "good" /\ turn_tool = "failed" -> Concludes("failed")
                [] OTHER -> UNCHANGED turn_task
    BY <1>1 DEF RunTool
  <2>2. turn_outcome' \in Outcome /\ rep_state' \in RepairRecord
    BY <2>1 DEF AgentInv, AgentTypeOK, RepairRecord, Outcome, ToolDone, RunVerification,
                CollectEvidence, ApplyPatch, WriteArtifacts
  <2>3. \/ UNCHANGED turn_task
        \/ turn_task = "running" /\ turn_task' \in {"completed", "failed"}
    BY <2>1 DEF Concludes
  <2>4. /\ turn_at = "running" /\ Goes("recording")
        /\ UNCHANGED <<turn_kind, turn_woken, turn_answer, turn_tool, dc_rules, dc_count, dc_last>>
    BY <1>1 DEF RunTool, dc_vars
  <2>5. AgentTypeOK'
    BY <2>2, <2>3, <2>4 DEF AgentInv, AgentTypeOK, Goes
  <2>6. AnswerInHand' /\ NoMalformedAnswer' /\ EndsWell' /\ ContractWasLookedAt'
    BY <2>3, <2>4 DEF AgentInv, AnswerInHand, NoMalformedAnswer, Malformed,
                      EndsWell, StallsAreKnown,
                      ContractWasLookedAt, Goes
  <2> QED BY <2>5, <2>6 DEF AgentInv
<1>2. CASE RecordTool
  <2>1. rep_state' \in RepairRecord
    BY <1>2
       DEF RecordTool, AfterTool, NextPhase, GatePending, AgentInv, AgentTypeOK,
           RepairRecord
  <2>2. /\ turn_at = "recording" /\ Goes("tools")
        /\ turn_answer' = [Recorded(turn_answer) EXCEPT !.left = @ - 1]
        /\ turn_tool' = "none"
        /\ UNCHANGED <<turn_kind, turn_woken, turn_task, turn_outcome, dc_rules, dc_count, dc_last>>
    BY <1>2 DEF RecordTool, dc_vars
  <2>3. turn_answer' \in AnswerRecord /\ AnswerInHand' /\ NoMalformedAnswer'
    <3> DEFINE a == Recorded(turn_answer)
    <3>1. /\ a \in AnswerRecord /\ a.left = turn_answer.left /\ a.args = turn_answer.args
          /\ a.recorded /\ ~a.usage
          /\ a.paid = turn_answer.paid + IF turn_answer.usage THEN 1 ELSE 0
      BY RecordTypes DEF AgentInv, AgentTypeOK
    <3>2. a.left - 1 \in Nat /\ a.paid = 1 /\ ~Malformed(a)
      BY <2>2, <3>1
         DEF AgentInv, AgentTypeOK, AnswerRecord, AnswerInHand, NoMalformedAnswer, Malformed
    <3>3. turn_answer' = [a EXCEPT !.left = @ - 1]
      BY <2>2
    <3> HIDE DEF a
    <3>4. turn_answer' \in AnswerRecord /\ turn_answer'.paid = 1 /\ turn_answer'.recorded
          /\ ~turn_answer'.usage /\ turn_answer'.args = a.args
      BY <3>1, <3>2, <3>3 DEF AnswerRecord
    <3>5. ~Malformed(turn_answer')
      BY <3>2, <3>4 DEF Malformed
    <3> QED BY <2>2, <3>4, <3>5 DEF AnswerInHand, NoMalformedAnswer, Goes
  <2>4. AgentTypeOK'
    BY <2>1, <2>2, <2>3 DEF AgentInv, AgentTypeOK, Goes
  <2>5. EndsWell' /\ ContractWasLookedAt'
    BY <2>2 DEF AgentInv, EndsWell, StallsAreKnown, ContractWasLookedAt, Goes
  <2> QED BY <2>3, <2>4, <2>5 DEF AgentInv
<1>3. CASE FollowUp
  <2>1. AgentTypeOK'
    BY <1>3, RecordTypes
       DEF AgentInv, AgentTypeOK, FollowUp, Ends, Forgets, TurnTerminal, dc_vars
  <2>2. AnswerInHand' /\ NoMalformedAnswer'
    BY <1>3 DEF AgentInv, AnswerInHand, NoMalformedAnswer, Malformed,
                FollowUp, Ends, Forgets, NoAnswer
  <2>3. EndsWell'
    BY <1>3
       DEF AgentInv, AgentTypeOK, EndsWell, StallsAreKnown, TurnTerminal, FollowUp, Ends
  <2>4. ContractWasLookedAt'
    BY <1>3 DEF AgentInv, ContractWasLookedAt, FollowUp, Ends, dc_vars
  <2> QED BY <2>1, <2>2, <2>3, <2>4 DEF AgentInv
<1> QED BY <1>1, <1>2, <1>3

LEMMA AgentInvStep == AgentInv /\ [AgentNext]_agent_vars => AgentInv'
<1> SUFFICES ASSUME AgentInv, [AgentNext]_agent_vars PROVE AgentInv'
  OBVIOUS
<1>1. CASE AgentNext
  BY <1>1, QuietKeeps, ReplyKeeps, AnswerKeeps, TextKeeps, CallKeeps, ToolKeeps
     DEF AgentNext
<1>2. CASE UNCHANGED agent_vars
  BY <1>2
     DEF agent_vars, turn_vars, turn_work, dc_vars, AgentInv, AgentTypeOK, AnswerInHand,
              NoMalformedAnswer, EndsWell, StallsAreKnown, ContractWasLookedAt, TurnTerminal
<1> QED BY <1>1, <1>2

(* Exactly one record of an answer has its usage, however many calls the   *)
(* answer has and whichever of them fail (Planner._process_tool_calls).    *)
THEOREM UsageIsCountedOnce == AgentSpec => []UsageCountedOnce
<1>1. AgentInv => UsageCountedOnce
  BY DEF AgentInv, AgentTypeOK, AnswerInHand, UsageCountedOnce
<1> QED BY <1>1, AgentInvInit, AgentInvStep, PTL DEF AgentSpec

(* A call whose arguments were cut off gets to a tool only when a parser   *)
(* has put {} in the place of all of them                                  *)
(* (_repair_length_truncated_tool_calls_if_needed).                        *)
THEOREM NoMalformedCallRuns == AgentSpec => []MalformedCallsNeverRun
<1>1. AgentInv => MalformedCallsNeverRun
  BY DEF AgentInv, AgentTypeOK, AnswerRecord, NoMalformedAnswer, Malformed, MalformedCallsNeverRun
<1> QED BY <1>1, AgentInvInit, AgentInvStep, PTL DEF AgentSpec

(* Every turn of a running sub-task ends with an outcome or a next turn,   *)
(* but for the two known stalls (SubSessionTurnPolicy).                    *)
THEOREM StallsHaveACause == AgentSpec => []StallsAreKnown
<1>1. AgentInv => StallsAreKnown
  BY DEF AgentInv, EndsWell
<1> QED BY <1>1, AgentInvInit, AgentInvStep, PTL DEF AgentSpec

(* No sub-task is completed past a contract that was found not to hold     *)
(* (the hooks of the deliverable contract).                                *)
THEOREM ContractsAreKept == AgentSpec => UnmetIsNeverCompleted
<1> DEFINE Kept == turn_task # "completed" /\ turn_task' = "completed" /\ dc_rules # {}
                      => dc_last \in {"pass", "late"}
<1>1. ASSUME AgentInv, AgentNext PROVE Kept
  <2>1. CASE FinishText
    BY <1>1, <2>1 DEF FinishText, AgentInv, ContractWasLookedAt, Concludes
  <2>2. CASE RunTool
    BY <1>1, <2>2 DEF RunTool, AgentInv, ContractWasLookedAt, Concludes
  <2>3. CASE ModelFails \/ StoreFails
    BY <2>3 DEF ModelFails, StoreFails, Fails, Concludes
  <2>4. CASE KillTask
    BY <2>4 DEF KillTask
  <2>5. CASE \/ MessageArrives \/ StartTurn \/ TakeReply \/ HookAnswer \/ StorePreface
             \/ StoreText \/ HookCall \/ RecordTool \/ FollowUp
    BY <2>5 DEF MessageArrives, StartTurn, TakeReply, HookAnswer, StorePreface, StoreText,
                HookCall, RecordTool, FollowUp
  <2> QED BY <1>1, <2>1, <2>2, <2>3, <2>4, <2>5 DEF AgentNext
<1>2. AgentInv /\ [AgentNext]_agent_vars => [Kept]_agent_vars
  BY <1>1
<1> QED BY <1>2, AgentInvInit, AgentInvStep, PTL DEF AgentSpec, UnmetIsNeverCompleted

(***************************************************************************)
(* The repair workflow.  A text that completes the task was looked at when *)
(* the workflow held on to nothing; that the report stage holds on to a    *)
(* repair that was not verified is what the hook after each call sees to,  *)
(* unless the turn fails before it, and the task with it.                  *)
(***************************************************************************)
Repairing == rep_state.on /\ turn_task = "running"

GateIsHeld ==
    /\ Repairing /\ turn_at # "recording" /\ rep_state.phase = "report"
          => rep_state.pending \/ rep_state.verified
    /\ Repairing /\ turn_at \in {"texting", "concluding"}
          => rep_state.phase = "patch" \/ rep_state.verified

LEMMA GateInit == AgentInit => GateIsHeld
  BY DEF AgentInit, RepInit, GateIsHeld, Repairing

LEMMA AnswerHoldsTheGate == ASSUME AgentInv, GateIsHeld, HookAnswer PROVE GateIsHeld'
<1>1. /\ turn_at = "answered" /\ UNCHANGED <<turn_task, rep_state>>
      /\ rep_state.phase \in {"reproduce", "patch", "verify", "report"}
  BY DEF HookAnswer, AgentInv, AgentTypeOK, RepairRecord
<1> SUFFICES ASSUME Repairing, turn_at' \in {"texting", "concluding"}
             PROVE  rep_state.phase = "patch" \/ rep_state.verified
  BY <1>1 DEF GateIsHeld, Repairing
<1> DEFINE checked == turn_kind = "sub" /\ turn_answer.left = 0
           fails == checked /\ GivesUp
           steers == rep_state.on /\ turn_answer.left = 0 /\ ~fails
           forced == (checked /\ SendsBack) \/ (steers /\ MustResolve(rep_state))
           made == CASE fails -> "failed"
                     [] steers -> ForcedCall(rep_state)
                     [] OTHER -> "none"
           left == IF made # "none" THEN 1 ELSE turn_answer.left
<1>2. ~forced /\ left = 0
  <2>1. \/ Ends("forced") \/ Ends("empty")
        \/ /\ forced \/ left = 0
           /\ Goes(IF forced THEN "closing" ELSE "texting")
        \/ Goes("tools") \/ Goes("prefacing")
    BY DEF HookAnswer
  <2> HIDE DEF forced, left
  <2> QED BY <2>1 DEF Ends, Goes
<1>3. made = "none" /\ turn_answer.left = 0
  <2> HIDE DEF made
  <2> QED BY <1>2
<1>4. ~fails
  <2>1. fails => made = "failed"
    OBVIOUS
  <2> QED BY <1>3, <2>1
<1>5. steers /\ ForcedCall(rep_state) = "none" /\ ~MustResolve(rep_state)
  <2>1. steers
    BY <1>3, <1>4 DEF Repairing
  <2>2. made = ForcedCall(rep_state)
    BY <1>4, <2>1
  <2> QED BY <1>2, <1>3, <2>1, <2>2
<1>6. rep_state.phase \in {"patch", "report"}
  BY <1>1, <1>5 DEF ForcedCall
<1> QED BY <1>1, <1>5, <1>6 DEF MustResolve, GateIsHeld

LEMMA ToolHoldsTheGate == ASSUME AgentInv, GateIsHeld, RecordTool PROVE GateIsHeld'
<1>1. PICK missing \in BOOLEAN :
         rep_state' = IF rep_state.on
                      THEN AfterTool(rep_state, turn_tool, turn_outcome # "broken", missing)
                      ELSE rep_state
  BY DEF RecordTool
<1>2. /\ turn_at' = "tools" /\ UNCHANGED turn_task
      /\ rep_state \in RepairRecord
  BY DEF RecordTool, Goes, AgentInv, AgentTypeOK
<1>3. CASE ~rep_state.on
  BY <1>1, <1>2, <1>3 DEF GateIsHeld, Repairing
<1>4. CASE rep_state.on
  <2>1. rep_state'.pending = (~rep_state.verified \/ missing)
        /\ rep_state'.verified = rep_state.verified
    BY <1>1, <1>2, <1>4 DEF AfterTool, RepairRecord, GatePending
  <2> QED BY <1>2, <2>1 DEF GateIsHeld, Repairing
<1> QED BY <1>3, <1>4

LEMMA GateStep == AgentInv /\ GateIsHeld /\ [AgentNext]_agent_vars => GateIsHeld'
<1> SUFFICES ASSUME AgentInv, GateIsHeld, [AgentNext]_agent_vars PROVE GateIsHeld'
  OBVIOUS
<1>1. CASE MessageArrives \/ KillTask \/ UNCHANGED agent_vars
  BY <1>1 DEF MessageArrives, KillTask, agent_vars, turn_vars, GateIsHeld, Repairing
<1>2. CASE StartTurn \/ TakeReply
  BY <1>2 DEF StartTurn, TakeReply, Goes, GateIsHeld, Repairing
<1>3. CASE ModelFails \/ StoreFails
  BY <1>3 DEF ModelFails, StoreFails, Fails, Ends, Concludes, GateIsHeld, Repairing
<1>4. CASE HookAnswer
  BY <1>4, AnswerHoldsTheGate
<1>5. CASE StorePreface \/ StoreText
  BY <1>5 DEF StorePreface, StoreText, Goes, GateIsHeld, Repairing
<1>6. CASE FinishText
  BY <1>6 DEF FinishText, Ends, Concludes, GateIsHeld, Repairing
<1>7. CASE HookCall
  <2>1. /\ turn_at = "tools" /\ turn_at' \in {"asleep", "running"}
        /\ UNCHANGED <<turn_task, rep_state>>
    BY <1>7 DEF HookCall, Ends, Goes
  <2> QED BY <2>1 DEF GateIsHeld, Repairing
<1>8. CASE RunTool
  BY <1>8 DEF RunTool, Goes, GateIsHeld, Repairing
<1>9. CASE RecordTool
  BY <1>9, ToolHoldsTheGate
<1>10. CASE FollowUp
  BY <1>10 DEF FollowUp, Ends, GateIsHeld, Repairing
<1> QED BY <1>1, <1>2, <1>3, <1>4, <1>5, <1>6, <1>7, <1>8, <1>9, <1>10 DEF AgentNext

(* A repair is completed by a text only once its checks have passed, or at *)
(* the stage the workflow does not hold on to, also when the history       *)
(* cannot be written between a call and the hook after it                  *)
(* (code_repair_state, repair_after_tool_call).                            *)
THEOREM GatesAreKept == AgentSpec => TextDoesNotSkipTheGate
<1> DEFINE Kept == turn_at = "concluding" /\ turn_task # "completed"
                      /\ turn_task' = "completed" /\ rep_state.on
                      => rep_state.phase = "patch" \/ rep_state.verified
<1>1. ASSUME AgentInv, GateIsHeld, AgentNext PROVE Kept
  <2>1. CASE FinishText
    BY <1>1, <2>1 DEF FinishText, Concludes, GateIsHeld, Repairing
  <2>2. CASE KillTask
    BY <2>2 DEF KillTask
  <2>3. CASE MessageArrives
    BY <2>3 DEF MessageArrives
  <2>4. CASE \/ StartTurn \/ TakeReply \/ HookAnswer \/ StorePreface \/ RunTool
             \/ StoreText \/ HookCall \/ RecordTool \/ FollowUp
             \/ ModelFails \/ StoreFails
    BY <2>4 DEF StartTurn, TakeReply, HookAnswer, StorePreface, StoreText,
                HookCall, RecordTool, FollowUp, RunTool, ModelFails, StoreFails
  <2> QED BY <1>1, <2>1, <2>2, <2>3, <2>4 DEF AgentNext
<1>2. AgentInv /\ GateIsHeld /\ [AgentNext]_agent_vars => [Kept]_agent_vars
  BY <1>1
<1> QED BY <1>2, AgentInvInit, AgentInvStep, GateInit, GateStep, PTL
        DEF AgentSpec, TextDoesNotSkipTheGate

(***************************************************************************)
(* ModelClient.  LlmInv is inductive: it counts the requests of the        *)
(* profile in use.                                                         *)
(***************************************************************************)

Outcomes == Outage \cup {"ok", "refused", "faulty"}

LlmTypeOK ==
    /\ llm_keys \subseteq Profile
    /\ llm_at \in {"idle", "asking", "answered", "failed"}
    /\ llm_use \in Profile
    /\ llm_tries \in Nat
    /\ llm_log \in Seq(Profile \X Outcomes)

(* While the endpoint is asked, the requests made so far were all met by    *)
(* an outage; the client counts those of the profile in use, and others    *)
(* were only made with a primary profile that used up its tries.           *)
TriesAreCounted ==
    llm_at = "asking" =>
        /\ \A i \in DOMAIN llm_log : llm_log[i][2] \in Outage
        /\ llm_tries < MaxTries /\ Spent(llm_use) = llm_tries
        /\ llm_use = "fallback" => Spent("primary") = MaxTries
        /\ \A p \in Profile : p # llm_use /\ Spent(p) > 0
                                 => llm_use = "fallback" /\ p = "primary"

LlmInv == LlmTypeOK /\ TriesAreCounted /\ EveryRetryIsJustified

(* The requests of a profile are counted.                                  *)
LEMMA SpentType ==
    ASSUME LlmTypeOK, NEW p
    PROVE  Spent(p) \in Nat
<1>1. /\ DOMAIN llm_log = 1..Len(llm_log) /\ Len(llm_log) \in Nat
  BY DEF LlmTypeOK
<1>2. IsFiniteSet(1..Len(llm_log))
  BY <1>1, FS_Interval
<1>3. IsFiniteSet({i \in DOMAIN llm_log : llm_log[i][1] = p})
  BY <1>1, <1>2, FS_Subset
<1> QED BY <1>3, FS_CardinalityType DEF Spent

(* A request counts for the profile in use, and for no other.              *)
LEMMA RequestCounts ==
    ASSUME LlmTypeOK, NEW outcome \in Outcomes,
           llm_log' = Append(llm_log, <<llm_use, outcome>>)
    PROVE  /\ llm_log' \in Seq(Profile \X Outcomes)
           /\ Len(llm_log') = Len(llm_log) + 1 /\ DOMAIN llm_log' = 1..Len(llm_log) + 1
           /\ DOMAIN llm_log = 1..Len(llm_log) /\ Len(llm_log) \in Nat
           /\ \A i \in 1..Len(llm_log) : llm_log'[i] = llm_log[i]
           /\ llm_log'[Len(llm_log) + 1] = <<llm_use, outcome>>
           /\ \A p \in Profile : Spent(p)' = Spent(p) + (IF p = llm_use THEN 1 ELSE 0)
<1>1. /\ llm_log \in Seq(Profile \X Outcomes) /\ Len(llm_log) \in Nat
      /\ <<llm_use, outcome>> \in Profile \X Outcomes
      /\ DOMAIN llm_log = 1..Len(llm_log)
  BY DEF LlmTypeOK
<1>2. /\ llm_log' \in Seq(Profile \X Outcomes)
      /\ Len(llm_log') = Len(llm_log) + 1 /\ DOMAIN llm_log' = 1..Len(llm_log) + 1
      /\ \A i \in 1..Len(llm_log) : llm_log'[i] = llm_log[i]
      /\ llm_log'[Len(llm_log) + 1] = <<llm_use, outcome>>
  BY <1>1
<1>3. ASSUME NEW p \in Profile
      PROVE  Spent(p)' = Spent(p) + (IF p = llm_use THEN 1 ELSE 0)
  <2> DEFINE S == {i \in DOMAIN llm_log : llm_log[i][1] = p}
             N == {i \in DOMAIN llm_log' : llm_log'[i][1] = p}
  <2>1. N = S \cup (IF p = llm_use THEN {Len(llm_log) + 1} ELSE {})
    <3>1. ASSUME NEW i \in 1..Len(llm_log) PROVE i \in N <=> i \in S
      BY <1>1, <1>2
    <3>2. Len(llm_log) + 1 \in N <=> p = llm_use
      BY <1>1, <1>2
    <3>3. /\ N \subseteq 1..Len(llm_log) + 1 /\ S \subseteq 1..Len(llm_log)
      BY <1>1, <1>2
    <3>4. 1..Len(llm_log) + 1 = (1..Len(llm_log)) \cup {Len(llm_log) + 1}
      BY <1>1
    <3> HIDE DEF N, S
    <3> QED BY <3>1, <3>2, <3>3, <3>4
  <2>2. IsFiniteSet(S) /\ Len(llm_log) + 1 \notin S
    <3>1. IsFiniteSet(1..Len(llm_log))
      BY <1>1, FS_Interval
    <3>2. S \subseteq 1..Len(llm_log)
      BY <1>1
    <3>3. IsFiniteSet(S)
      BY <3>1, <3>2, FS_Subset
    <3> QED BY <1>1, <3>2, <3>3
  <2> DEFINE x == Len(llm_log) + 1
  <2>3. Cardinality(S) \in Nat /\ Cardinality(S \cup {x}) = Cardinality(S) + 1
    <3> HIDE DEF S, x
    <3> QED BY <2>2, FS_AddElement, FS_CardinalityType DEF x
  <2>4. Spent(p) = Cardinality(S) /\ Spent(p)' = Cardinality(N)
    BY DEF Spent
  <2> HIDE DEF S, N, x
  <2>5. CASE p = llm_use
    BY <2>1, <2>3, <2>4, <2>5 DEF x
  <2>6. CASE p # llm_use
    <3>1. N = S
      BY <2>1, <2>6
    <3> QED BY <2>3, <2>4, <2>6, <3>1
  <2> QED BY <2>5, <2>6
<1> QED BY <1>1, <1>2, <1>3

(* A call begins with an empty log.                                        *)
LEMMA NothingSpent ==
    ASSUME llm_log' = <<>>
    PROVE  \A p : Spent(p)' = 0
<1>1. \A p : {i \in DOMAIN llm_log' : llm_log'[i][1] = p} = {}
  OBVIOUS
<1> QED BY <1>1, FS_EmptySet DEF Spent

LEMMA EmptyLogKeeps ==
    ASSUME LlmInv, llm_log' = <<>>, llm_keys' = llm_keys, llm_tries' = 0,
           llm_use' \in {"primary", "image"}, llm_at' \in {"idle", "asking", "failed"}
    PROVE  LlmInv'
<1> USE ClientAssumption
<1>1. \A p : Spent(p)' = 0
  BY NothingSpent
<1>2. LlmTypeOK'
  <2>1. <<>> \in Seq(Profile \X Outcomes)
    OBVIOUS
  <2> QED BY <2>1 DEF LlmInv, LlmTypeOK, Profile
<1>3. TriesAreCounted'
  BY <1>1 DEF TriesAreCounted
<1>4. EveryRetryIsJustified'
  BY <1>1 DEF EveryRetryIsJustified
<1> QED BY <1>2, <1>3, <1>4 DEF LlmInv

(* What follows a request depends on how it ended.                         *)
LEMMA RequestKeeps ==
    ASSUME LlmInv, NEW outcome \in Outcomes, Requested(outcome),
           \/ outcome = "ok" /\ EndpointAnswers
           \/ MayRetry(outcome) /\ RetryLater
           \/ ~MayRetry(outcome) /\ MayFallBack(outcome) /\ FallBack
           \/ outcome # "ok" /\ ~MayRetry(outcome) /\ ~MayFallBack(outcome) /\ CallFails
    PROVE  LlmInv'
<1> DEFINE n == Len(llm_log)
<1>0. /\ llm_at = "asking" /\ llm_keys' = llm_keys
      /\ llm_log' = Append(llm_log, <<llm_use, outcome>>)
      /\ LlmTypeOK /\ MaxTries \in Nat /\ MaxTries > 0
  BY ClientAssumption DEF Requested, LlmInv
<1>1. /\ llm_log' \in Seq(Profile \X Outcomes)
      /\ Len(llm_log') = n + 1 /\ DOMAIN llm_log' = 1..n + 1
      /\ DOMAIN llm_log = 1..n /\ n \in Nat
      /\ \A i \in 1..n : llm_log'[i] = llm_log[i]
      /\ llm_log'[n + 1] = <<llm_use, outcome>>
      /\ \A p \in Profile : Spent(p)' = Spent(p) + (IF p = llm_use THEN 1 ELSE 0)
  BY <1>0, RequestCounts
<1>2. /\ \A i \in 1..n : llm_log[i][2] \in Outage
      /\ llm_tries \in Nat /\ llm_tries < MaxTries /\ Spent(llm_use) = llm_tries
      /\ llm_use = "fallback" => Spent("primary") = MaxTries
      /\ \A p \in Profile : p # llm_use /\ Spent(p) > 0
                               => llm_use = "fallback" /\ p = "primary"
  BY <1>0, <1>1 DEF LlmInv, TriesAreCounted, LlmTypeOK
<1>3. /\ {"primary", "fallback", "image"} = Profile /\ llm_use \in Profile
      /\ \A p \in Profile : Spent(p) \in Nat
  BY <1>0, SpentType DEF Profile, LlmTypeOK
<1>4. /\ \A i \in DOMAIN llm_log' : i < Len(llm_log') => llm_log'[i][2] \in Outage
      /\ outcome \in Outage => \A i \in DOMAIN llm_log' : llm_log'[i][2] \in Outage
  <2>1. ASSUME NEW i \in 1..n + 1 PROVE i \in 1..n \/ i = n + 1
    BY <1>1
  <2> QED BY <1>1, <1>2, <2>1
<1>5. \A p \in Profile : Spent(p)' \in Nat /\ Spent(p)' <= MaxTries
  <2> SUFFICES ASSUME NEW p \in Profile PROVE Spent(p)' \in Nat /\ Spent(p)' <= MaxTries
    OBVIOUS
  <2>1. Spent(p) \in Nat /\ Spent(p)' = Spent(p) + (IF p = llm_use THEN 1 ELSE 0)
    BY <1>1, <1>3
  <2>2. CASE p = llm_use
    BY <1>0, <1>2, <2>1, <2>2
  <2>3. CASE p # llm_use
    BY <1>0, <1>2, <2>1, <2>3
  <2> QED BY <2>2, <2>3
<1>6. Spent("fallback")' > 0 => Spent("primary")' = MaxTries
  <2> SUFFICES ASSUME Spent("fallback")' > 0 PROVE Spent("primary")' = MaxTries
    OBVIOUS
  <2>1. llm_use = "fallback"
    BY <1>1, <1>2, <1>3
  <2> QED BY <1>1, <1>2, <1>3, <2>1
<1>a. PICK u \in Profile : u = llm_use
  BY <1>3
<1>7. Spent(u)' = llm_tries + 1
  BY <1>1, <1>2, <1>3, <1>a
<1> DEFINE Ended == llm_at' = "failed" /\ outcome \in Outage =>
                      /\ llm_tries + 1 = MaxTries
                      /\ llm_use = "primary" => "fallback" \notin llm_keys
<1>8. ASSUME Ended PROVE EveryRetryIsJustified'
  <2>1. /\ llm_log'[Len(llm_log')][1] = u
        /\ llm_log'[Len(llm_log')][2] = outcome
    BY <1>1, <1>a
  <2>2. Spent(llm_log[Len(llm_log)][1])' = llm_tries + 1
    BY <1>7, <2>1 DEF Spent
  <2>3. /\ llm_at' = "failed" /\ outcome \in Outage =>
            /\ llm_tries + 1 = MaxTries
            /\ u = "primary" => "fallback" \notin llm_keys'
    BY <1>0, <1>8, <1>a DEF Ended
  <2> QED BY <1>4, <1>5, <1>6, <2>1, <2>2, <2>3 DEF EveryRetryIsJustified
<1> HIDE DEF Ended
<1>9. CASE EndpointAnswers
  <2>1. llm_at' = "answered" /\ UNCHANGED <<llm_use, llm_tries>>
    BY <1>9 DEF EndpointAnswers
  <2>2. LlmTypeOK' /\ TriesAreCounted' /\ Ended
    BY <1>0, <1>1, <2>1 DEF LlmTypeOK, TriesAreCounted, Ended
  <2> QED BY <1>8, <2>2 DEF LlmInv
<1>10. CASE MayRetry(outcome) /\ RetryLater
  <2>1. /\ llm_tries' = llm_tries + 1 /\ UNCHANGED <<llm_at, llm_use>>
        /\ outcome \in Outage /\ llm_tries < MaxTries - 1
    BY <1>10 DEF RetryLater, MayRetry
  <2>2. LlmTypeOK' /\ Ended
    BY <1>0, <1>1, <2>1 DEF LlmTypeOK, Ended
  <2>3. \A p \in Profile : p # llm_use => Spent(p)' = Spent(p)
    BY <1>1, <1>3
  <2>4. Spent(llm_use)' = llm_tries + 1
    BY <1>7, <1>a, <2>1 DEF Spent
  <2>5. llm_use = "fallback" => Spent("primary")' = MaxTries
    BY <1>2, <1>3, <2>3
  <2>6. \A p \in Profile : p # llm_use /\ Spent(p)' > 0
                               => llm_use = "fallback" /\ p = "primary"
    BY <1>2, <2>3
  <2>7. TriesAreCounted'
    BY <1>0, <1>2, <1>4, <2>1, <2>4, <2>5, <2>6 DEF TriesAreCounted
  <2> QED BY <1>8, <2>2, <2>7 DEF LlmInv
<1>11. CASE ~MayRetry(outcome) /\ MayFallBack(outcome) /\ FallBack
  <2>1. /\ llm_tries' = 0 /\ llm_at' = "asking" /\ llm_use' = "fallback"
        /\ outcome \in Outage /\ llm_use = "primary" /\ llm_tries + 1 = MaxTries
    BY <1>0, <1>2, <1>11 DEF FallBack, MayRetry, MayFallBack
  <2>2. LlmTypeOK' /\ Ended
    BY <1>0, <1>1, <2>1 DEF LlmTypeOK, Ended, Profile
  <2>3. Spent("primary")' = MaxTries
    BY <1>7, <1>a, <2>1
  <2>4. /\ Spent("fallback") = 0 /\ Spent("image") = 0
        /\ Spent("fallback")' = 0 /\ Spent("image")' = 0
    BY <1>1, <1>2, <1>3, <2>1
  <2>5. Spent(llm_use)' = 0
    BY <2>1, <2>4 DEF Spent
  <2>6. TriesAreCounted'
    BY <1>0, <1>3, <1>4, <2>1, <2>3, <2>4, <2>5 DEF TriesAreCounted
  <2> QED BY <1>8, <2>2, <2>6 DEF LlmInv
<1>12. CASE outcome # "ok" /\ ~MayRetry(outcome) /\ ~MayFallBack(outcome) /\ CallFails
  <2>1. llm_at' = "failed" /\ UNCHANGED <<llm_use, llm_tries>>
    BY <1>12 DEF CallFails
  <2>2. LlmTypeOK' /\ TriesAreCounted'
    BY <1>0, <1>1, <2>1 DEF LlmTypeOK, TriesAreCounted
  <2>3. Ended
    BY <1>0, <1>2, <1>12 DEF Ended, MayRetry, MayFallBack
  <2> QED BY <1>8, <2>2, <2>3 DEF LlmInv
<1> QED BY <1>9, <1>10, <1>11, <1>12

LEMMA StepKeeps == ASSUME LlmInv, LlmStep PROVE LlmInv'
<1>1. CASE EndpointAnswers
  <2>1. Requested("ok") /\ "ok" \in Outcomes
    BY <1>1 DEF EndpointAnswers, Outcomes
  <2> QED BY <1>1, <2>1, RequestKeeps
<1>2. CASE RetryLater
  <2>1. PICK outcome \in Outage : MayRetry(outcome) /\ Requested(outcome)
    BY <1>2 DEF RetryLater
  <2>2. outcome \in Outcomes
    BY DEF Outcomes
  <2> QED BY <1>2, <2>1, <2>2, RequestKeeps
<1>3. CASE FallBack
  <2>1. PICK outcome \in Outage :
           ~MayRetry(outcome) /\ MayFallBack(outcome) /\ Requested(outcome)
    BY <1>3 DEF FallBack
  <2>2. outcome \in Outcomes
    BY DEF Outcomes
  <2> QED BY <1>3, <2>1, <2>2, RequestKeeps
<1>4. CASE CallFails
  <2>1. PICK outcome \in Outage \cup {"refused", "faulty"} :
           ~MayRetry(outcome) /\ ~MayFallBack(outcome) /\ Requested(outcome)
    BY <1>4 DEF CallFails
  <2>2. outcome \in Outcomes /\ outcome # "ok"
    BY DEF Outcomes, Outage
  <2> QED BY <1>4, <2>1, <2>2, RequestKeeps
<1> QED BY <1>1, <1>2, <1>3, <1>4 DEF LlmStep

(* Nothing is requested, and the endpoint is not asked either.             *)
LEMMA QuietCallKeeps ==
    ASSUME LlmInv, UNCHANGED <<llm_keys, llm_use, llm_tries, llm_log>>, llm_at' = "idle"
    PROVE  LlmInv'
  BY DEF LlmInv, LlmTypeOK, TriesAreCounted, EveryRetryIsJustified, Spent

LEMMA LlmInvStep == LlmInv /\ [LlmNext]_llm_vars => LlmInv'
<1> SUFFICES ASSUME LlmInv, [LlmNext]_llm_vars PROVE LlmInv'
  OBVIOUS
<1>1. CASE LlmStep
  BY <1>1, StepKeeps
<1>2. CASE BeginChat \/ BeginImage
  BY <1>2, EmptyLogKeeps DEF BeginChat, BeginImage, BeginCall
<1>3. CASE EndChat
  BY <1>3, EmptyLogKeeps DEF EndChat, EndCall
<1>4. CASE ImageFails
  BY <1>4, QuietCallKeeps DEF ImageFails
<1>5. CASE \E reply \in UNION {[1..n -> Candidate] : n \in 0..2},
              fetched \in {"nothing", "input", "edited"} : ReadImage(reply, fetched)
  BY <1>5, QuietCallKeeps DEF ReadImage
<1>6. CASE UNCHANGED llm_vars
  BY <1>6 DEF llm_vars, LlmInv, LlmTypeOK, TriesAreCounted, EveryRetryIsJustified, Spent
<1> QED BY <1>1, <1>2, <1>3, <1>4, <1>5, <1>6 DEF LlmNext

LEMMA LlmInvInit == LlmInit => LlmInv
<1> SUFFICES ASSUME LlmInit PROVE LlmInv
  OBVIOUS
<1> USE DEF LlmInit
<1>1. \A p : {i \in DOMAIN llm_log : llm_log[i][1] = p} = {}
  OBVIOUS
<1>2. \A p : Spent(p) = 0
  BY <1>1, FS_EmptySet DEF Spent
<1>3. <<>> \in Seq(Profile \X Outcomes)
  OBVIOUS
<1> QED BY <1>2, <1>3, ClientAssumption
        DEF LlmInv, LlmTypeOK, TriesAreCounted, EveryRetryIsJustified, Profile

(* The endpoint is asked again only after an outage and never more than    *)
(* MaxTries times for a profile, and an outage ends a call only when no    *)
(* profile is left (OpenAICompatibleLLMClient.chat_with_tools).            *)
THEOREM RetriesAreJustified == LlmSpec => []EveryRetryIsJustified
<1>1. LlmInv => EveryRetryIsJustified
  BY DEF LlmInv
<1> QED BY <1>1, LlmInvInit, LlmInvStep, PTL DEF LlmSpec

(***************************************************************************)
(* ContextWindow: BatchesAreTurns, PlaceholdersCanBeReloaded and           *)
(* LatestBatchIsWhole.  The compression starts from the window of the log  *)
(* and keeps what Sound says of it at each of its steps.                   *)
(***************************************************************************)
By == {"user", "assistant", "tool"}
Pic == Picture \X {"full", "small"}
UnloadId == By \X Nat \X SUBSET Pic
Item == [at : Nat, turn : Nat, by : By, ord : Nat, pics : SUBSET Pic, long : BOOLEAN,
         marks : SUBSET UnloadId]
Record == [id : UnloadId, pics : SUBSET Pic, restored : BOOLEAN]

LEMMA ItemFields == \A e \in Item : /\ e.turn \in Nat /\ e.ord \in Nat
                                     /\ e.pics \in SUBSET Pic /\ e.by \in By
  BY DEF Item

(* The extremes of a bounded set of numbers.                               *)
LEMMA LeastIsMin ==
    ASSUME NEW S \in SUBSET Nat, S # {}
    PROVE  Min(S) \in S /\ \A x \in S : Min(S) <= x
  BY LeastNatural DEF Min

LEMMA GreatestIsMax ==
    ASSUME NEW n \in Nat, NEW S \in SUBSET (0..n), S # {}
    PROVE  Max(S) \in S /\ \A x \in S : x <= Max(S)
<1> DEFINE T == {n - x : x \in S}
<1>1. T \in SUBSET Nat /\ T # {}
  <2>1. \A x \in S : n - x \in Nat
    OBVIOUS
  <2>2. T # {}
    OBVIOUS
  <2> QED BY <2>1, <2>2
<1>2. PICK t \in T : \A m \in T : t <= m
  <2> HIDE DEF T
  <2> QED BY <1>1, LeastNatural
<1>3. n - t \in S /\ \A x \in S : x <= n - t
  <2>1. PICK y \in S : t = n - y
    BY <1>2
  <2>2. \A x \in S : n - x \in T
    OBVIOUS
  <2> QED BY <1>2, <2>1, <2>2
<1>4. \E x \in S : \A y \in S : x >= y
  BY <1>3
<1> QED BY <1>4 DEF Max

LEMMA MaxOfTwo == \A a, b \in Int : Max({a, b}) = IF a >= b THEN a ELSE b
<1> TAKE a, b \in Int
<1>1. \E x \in {a, b} : \A y \in {a, b} : x >= y
  BY a >= b \/ b >= a
<1>2. Max({a, b}) \in {a, b} /\ \A y \in {a, b} : Max({a, b}) >= y
  BY <1>1 DEF Max
<1> QED BY <1>2

(* What holds before a loop and is kept by its step holds after it.        *)
LEMMA UnloadedKeeps ==
    ASSUME NEW X, NEW c \in X, NEW user, NEW prefix, Len(c.history) \in Nat,
           \A x \in X : UnloadMore(x, user, prefix) \in X
    PROVE  Unloaded(c, user, prefix) \in X
<1> DEFINE n == 2 * Len(c.history)
           F(g) == [i \in 0..n |-> IF i = 0 THEN c ELSE UnloadMore(g[i - 1], user, prefix)]
           step == [x \in X |-> UnloadMore(x, user, prefix)]
<1>1. n \in Nat /\ step \in [X -> X] /\ \A x \in X : step[x] = UnloadMore(x, user, prefix)
  OBVIOUS
<1> HIDE DEF n, step
<1>2. PICK h : Rounds(h, step, c, n)
  BY <1>1, Iterated
<1> DEFINE V == {i \in 0..n : h[i] \in X}
           g == [i \in 0..n |-> h[i]]
<1>3. 0..n \subseteq V
  <2>1. 0 \in V
    BY <1>1, <1>2 DEF Rounds
  <2>2. ASSUME NEW i \in 0..n, i \in V, i < n PROVE i + 1 \in V
    <3>1. i + 1 \in 0..n /\ i + 1 # 0 /\ (i + 1) - 1 = i
      BY <1>1, <2>2
    <3> QED BY <1>1, <1>2, <2>2, <3>1 DEF Rounds
  <2> HIDE DEF V
  <2> QED BY ONLY <1>1, <2>1, <2>2, UpTo
<1>4. g = F(g)
  <2>1. \A i \in 0..n : i # 0 => i - 1 \in 0..n /\ h[i - 1] \in X
    BY <1>1, <1>3
  <2>2. \A i \in 0..n : h[i] = IF i = 0 THEN c ELSE UnloadMore(g[i - 1], user, prefix)
    BY <1>1, <1>2, <2>1 DEF Rounds
  <2> QED BY <2>2
<1> DEFINE after == CHOOSE f : f = F(f)
<1>5. after = F(after)
  <2> HIDE DEF F, g
  <2> QED BY <1>4
<1>6. Unloaded(c, user, prefix) = after[n]
  BY DEF Unloaded, n
<1> HIDE DEF after
<1>7. \A i \in 0..n : after[i] = IF i = 0 THEN c ELSE UnloadMore(after[i - 1], user, prefix)
  BY <1>5
<1> DEFINE T == {i \in 0..n : after[i] \in X}
<1>8. 0 \in T
  BY <1>1, <1>7
<1>9. ASSUME NEW i \in 0..n, i \in T, i < n PROVE i + 1 \in T
  <2>1. i + 1 \in 0..n /\ i + 1 # 0 /\ (i + 1) - 1 = i
    BY <1>1, <1>9
  <2> QED BY <1>7, <1>9, <2>1
<1>10. 0..n \subseteq T
  <2> HIDE DEF T
  <2> QED BY ONLY <1>1, <1>8, <1>9, UpTo
<1> QED BY <1>1, <1>6, <1>10

LEMMA DroppedKeeps ==
    ASSUME NEW X, NEW c \in X, NEW user, NEW prefix, Len(c.history) \in Nat,
           \A x \in X : DropMore(x, user, prefix) \in X
    PROVE  Dropped(c, user, prefix) \in X
<1> DEFINE n == 2 * Len(c.history)
           F(g) == [i \in 0..n |-> IF i = 0 THEN c ELSE DropMore(g[i - 1], user, prefix)]
           step == [x \in X |-> DropMore(x, user, prefix)]
<1>1. n \in Nat /\ step \in [X -> X] /\ \A x \in X : step[x] = DropMore(x, user, prefix)
  OBVIOUS
<1> HIDE DEF n, step
<1>2. PICK h : Rounds(h, step, c, n)
  BY <1>1, Iterated
<1> DEFINE V == {i \in 0..n : h[i] \in X}
           g == [i \in 0..n |-> h[i]]
<1>3. 0..n \subseteq V
  <2>1. 0 \in V
    BY <1>1, <1>2 DEF Rounds
  <2>2. ASSUME NEW i \in 0..n, i \in V, i < n PROVE i + 1 \in V
    <3>1. i + 1 \in 0..n /\ i + 1 # 0 /\ (i + 1) - 1 = i
      BY <1>1, <2>2
    <3> QED BY <1>1, <1>2, <2>2, <3>1 DEF Rounds
  <2> HIDE DEF V
  <2> QED BY ONLY <1>1, <2>1, <2>2, UpTo
<1>4. g = F(g)
  <2>1. \A i \in 0..n : i # 0 => i - 1 \in 0..n /\ h[i - 1] \in X
    BY <1>1, <1>3
  <2>2. \A i \in 0..n : h[i] = IF i = 0 THEN c ELSE DropMore(g[i - 1], user, prefix)
    BY <1>1, <1>2, <2>1 DEF Rounds
  <2> QED BY <2>2
<1> DEFINE after == CHOOSE f : f = F(f)
<1>5. after = F(after)
  <2> HIDE DEF F, g
  <2> QED BY <1>4
<1>6. Dropped(c, user, prefix) = after[n]
  BY DEF Dropped, n
<1> HIDE DEF after
<1>7. \A i \in 0..n : after[i] = IF i = 0 THEN c ELSE DropMore(after[i - 1], user, prefix)
  BY <1>5
<1> DEFINE T == {i \in 0..n : after[i] \in X}
<1>8. 0 \in T
  BY <1>1, <1>7
<1>9. ASSUME NEW i \in 0..n, i \in T, i < n PROVE i + 1 \in T
  <2>1. i + 1 \in 0..n /\ i + 1 # 0 /\ (i + 1) - 1 = i
    BY <1>1, <1>9
  <2> QED BY <1>7, <1>9, <2>1
<1>10. 0..n \subseteq T
  <2> HIDE DEF T
  <2> QED BY ONLY <1>1, <1>8, <1>9, UpTo
<1> QED BY <1>1, <1>6, <1>10

(* An item that was kept, and one that was also not cut short.             *)
Origin(i, j) == i.at = j.at /\ i.turn = j.turn /\ i.by = j.by /\ i.ord = j.ord
Whole(i, j) == Origin(i, j) /\ i.long = j.long

(* What compression spares of the history s: the first p items and its     *)
(* latest turn.                                                            *)
Spared(h, s, p) ==
    LET m == LatestTurnSuffixLength(s)
    IN  /\ p <= Len(h) /\ m <= Len(h) /\ LatestTurnSuffixLength(h) = m
        /\ \A k \in 1..p : Whole(h[k], s[k])
        /\ \A k \in 0..(m - 1) : Whole(h[Len(h) - k], s[Len(s) - k])

(* Rounds next to each other in h were next to each other in s.            *)
Batched(h, s) ==
    \A k \in 2..Len(h) : ~IsBlock(h[k]) /\ ~IsBlock(h[k - 1]) =>
        \E i \in 2..Len(s) : Origin(h[k], s[i]) /\ Origin(h[k - 1], s[i - 1])

(* Only messages have images or placeholders for them.                     *)
PicsInBlocks(h) ==
    \A k \in DOMAIN h : h[k].pics # {} \/ h[k].marks # {} => IsBlock(h[k])

(* Every placeholder stands for a record that can be reloaded.             *)
Backed(h, records) ==
    \A k \in DOMAIN h : \A id \in h[k].marks :
        \E r \in DOMAIN records : records[r].id = id /\ ~records[r].restored

Compression == [history : Seq(Item), records : Seq(Record)]

(* The compressions of s that lose nothing they must not.                  *)
Sound(s, p) == {c \in Compression : /\ Spared(c.history, s, p)
                                    /\ Batched(c.history, s)
                                    /\ PicsInBlocks(c.history)
                                    /\ Backed(c.history, c.records)}

(* The last message and the rounds after it.                               *)
LEMMA SuffixOf ==
    ASSUME NEW h \in Seq(Item)
    PROVE  /\ LatestTurnSuffixLength(h) \in 0..Len(h)
           /\ \A k \in (Len(h) - LatestTurnSuffixLength(h) + 2)..Len(h) : ~IsBlock(h[k])
           /\ \/ /\ LatestTurnSuffixLength(h) >= 1
                 /\ IsBlock(h[Len(h) - LatestTurnSuffixLength(h) + 1])
              \/ /\ LatestTurnSuffixLength(h) = Len(h)
                 /\ \A k \in DOMAIN h : ~IsBlock(h[k])
<1> DEFINE blocks == {k \in DOMAIN h : IsBlock(h[k])}
<1>0. Len(h) \in Nat /\ DOMAIN h = 1..Len(h) /\ blocks \in SUBSET (0..Len(h))
  OBVIOUS
<1>1. LatestTurnSuffixLength(h) = IF blocks = {} THEN Len(h) ELSE Len(h) - Max(blocks) + 1
  BY DEF LatestTurnSuffixLength
<1>2. CASE blocks = {}
  BY <1>0, <1>1, <1>2
<1>3. CASE blocks # {}
  <2>1. Max(blocks) \in blocks /\ \A x \in blocks : x <= Max(blocks)
    <3> HIDE DEF blocks
    <3> QED BY <1>0, <1>3, GreatestIsMax
  <2> DEFINE b == Max(blocks)
  <2>2. LatestTurnSuffixLength(h) = Len(h) - b + 1
    BY <1>1, <1>3
  <2> HIDE DEF b
  <2>3. b \in blocks /\ \A x \in blocks : x <= b
    BY <2>1 DEF b
  <2>4. b \in 1..Len(h) /\ IsBlock(h[b])
    BY <1>0, <2>3
  <2>5. ASSUME NEW k \in 1..Len(h), k > b PROVE ~IsBlock(h[k])
    <3>1. k \notin blocks
      BY <1>0, <2>3, <2>4, <2>5
    <3> QED BY <1>0, <3>1
  <2> QED BY <1>0, <2>2, <2>4, <2>5
<1> QED BY <1>2, <1>3

LEMMA SuffixIs ==
    ASSUME NEW h \in Seq(Item), NEW m \in 1..Len(h), IsBlock(h[Len(h) - m + 1]),
           \A k \in (Len(h) - m + 2)..Len(h) : ~IsBlock(h[k])
    PROVE  LatestTurnSuffixLength(h) = m
<1> DEFINE n == LatestTurnSuffixLength(h)
<1>1. /\ n \in 0..Len(h)
      /\ \A k \in (Len(h) - n + 2)..Len(h) : ~IsBlock(h[k])
      /\ \/ n >= 1 /\ IsBlock(h[Len(h) - n + 1])
         \/ n = Len(h) /\ \A k \in DOMAIN h : ~IsBlock(h[k])
  BY SuffixOf
<1>2. Len(h) \in Nat /\ Len(h) - m + 1 \in DOMAIN h
  OBVIOUS
<1> HIDE DEF n
<1>3. n >= 1 /\ IsBlock(h[Len(h) - n + 1])
  BY <1>1, <1>2
<1>4. ~(n < m)
  BY <1>1, <1>2, <1>3
<1>5. ~(n > m)
  BY <1>1, <1>2, <1>3
<1> QED BY <1>1, <1>4, <1>5 DEF n

LEMMA SuffixSame ==
    ASSUME NEW h \in Seq(Item), NEW g \in Seq(Item), Len(g) = Len(h),
           \A k \in 1..Len(h) : g[k].by = h[k].by
    PROVE  LatestTurnSuffixLength(g) = LatestTurnSuffixLength(h)
<1>1. DOMAIN g = 1..Len(h) /\ DOMAIN h = 1..Len(h)
  OBVIOUS
<1>2. {k \in DOMAIN g : IsBlock(g[k])} = {k \in DOMAIN h : IsBlock(h[k])}
  BY <1>1 DEF IsBlock
<1> QED BY <1>2 DEF LatestTurnSuffixLength

(* Items may change where it does not matter.                              *)
LEMMA SparedStill ==
    ASSUME NEW s \in Seq(Item), NEW p \in 0..Len(s), NEW h \in Seq(Item), NEW g \in Seq(Item),
           Spared(h, s, p), Len(g) = Len(h), \A k \in 1..Len(h) : g[k].by = h[k].by,
           \A k \in 1..Len(h) : k \notin Compressible(h, p) => Whole(g[k], h[k])
    PROVE  Spared(g, s, p)
<1> DEFINE m == LatestTurnSuffixLength(s)
<1>1. /\ p <= Len(h) /\ m <= Len(h) /\ LatestTurnSuffixLength(h) = m
      /\ \A k \in 1..p : Whole(h[k], s[k])
      /\ \A k \in 0..(m - 1) : Whole(h[Len(h) - k], s[Len(s) - k])
  BY DEF Spared
<1>2. LatestTurnSuffixLength(g) = m
  BY <1>1, SuffixSame
<1>3. m \in Nat /\ Len(h) \in Nat /\ Len(s) \in Nat
  BY SuffixOf
<1> HIDE DEF m
<1>4. \A i, j, k : Whole(i, j) /\ Whole(j, k) => Whole(i, k)
  BY DEF Whole, Origin
<1>5. ASSUME NEW k \in 1..p PROVE Whole(g[k], s[k])
  <2>1. k \in 1..Len(h) /\ k \notin Compressible(h, p)
    BY <1>1, <1>3 DEF Compressible
  <2> QED BY <1>1, <1>4, <2>1
<1>6. ASSUME NEW k \in 0..(m - 1) PROVE Whole(g[Len(g) - k], s[Len(s) - k])
  <2>1. Len(h) - k \in 1..Len(h) /\ Len(h) - k \notin Compressible(h, p)
    BY <1>1, <1>3 DEF Compressible
  <2>2. Whole(g[Len(h) - k], h[Len(h) - k]) /\ Whole(h[Len(h) - k], s[Len(s) - k])
    BY <1>1, <2>1
  <2> QED BY <1>4, <2>2
<1> QED BY <1>1, <1>2, <1>5, <1>6 DEF Spared, m

LEMMA BatchedStill ==
    ASSUME NEW s \in Seq(Item), NEW h \in Seq(Item), NEW g \in Seq(Item),
           Batched(h, s), Len(g) = Len(h), \A k \in 1..Len(h) : Origin(g[k], h[k])
    PROVE  Batched(g, s)
<1> SUFFICES ASSUME NEW k \in 2..Len(g), ~IsBlock(g[k]), ~IsBlock(g[k - 1])
             PROVE  \E i \in 2..Len(s) : Origin(g[k], s[i]) /\ Origin(g[k - 1], s[i - 1])
  BY DEF Batched
<1>1. k \in 2..Len(h) /\ Origin(g[k], h[k]) /\ Origin(g[k - 1], h[k - 1])
  <2>1. k \in 1..Len(h) /\ k - 1 \in 1..Len(h) /\ k \in 2..Len(h)
    OBVIOUS
  <2> QED BY <2>1
<1>2. ~IsBlock(h[k]) /\ ~IsBlock(h[k - 1])
  BY <1>1 DEF Origin, IsBlock
<1>3. PICK i \in 2..Len(s) : Origin(h[k], s[i]) /\ Origin(h[k - 1], s[i - 1])
  BY <1>1, <1>2 DEF Batched
<1>4. Origin(g[k], s[i]) /\ Origin(g[k - 1], s[i - 1])
  BY <1>1, <1>3 DEF Origin
<1> QED BY <1>4

(* A record that can be reloaded remains one, and the new one is one.      *)
LEMMA RecordedBack ==
    ASSUME NEW records \in Seq(Record), NEW id \in UnloadId, NEW pics \in SUBSET Pic
    PROVE  LET new == RecordUnloaded(records, id, pics)
           IN  /\ new \in Seq(Record)
               /\ \E r \in DOMAIN new : new[r].id = id /\ ~new[r].restored
               /\ \A r \in DOMAIN records : ~records[r].restored =>
                     \E q \in DOMAIN new : new[q].id = records[r].id /\ ~new[q].restored
<1> DEFINE new == RecordUnloaded(records, id, pics)
<1>0. Len(records) \in Nat /\ DOMAIN records = 1..Len(records)
      /\ \A r \in 1..Len(records) : records[r] \in Record
  OBVIOUS
<1>1. CASE \E k \in DOMAIN records : records[k].id = id
  <2>1. new = [k \in DOMAIN records |->
                 IF records[k].id = id THEN [records[k] EXCEPT !.restored = FALSE]
                                       ELSE records[k]]
    BY <1>1 DEF RecordUnloaded
  <2> HIDE DEF new
  <2>2. ASSUME NEW k \in 1..Len(records)
        PROVE  /\ new[k] \in Record /\ new[k].id = records[k].id
               /\ records[k].id = id \/ ~records[k].restored => ~new[k].restored
    <3>1. records[k] \in Record
      BY <1>0
    <3>2. CASE records[k].id = id
      BY <1>0, <2>1, <3>1, <3>2 DEF Record
    <3>3. CASE records[k].id # id
      BY <1>0, <2>1, <3>1, <3>3
    <3> QED BY <3>2, <3>3
  <2>3. new \in [1..Len(records) -> Record]
    BY <1>0, <2>1, <2>2
  <2>4. new \in Seq(Record) /\ DOMAIN new = 1..Len(records)
    BY <1>0, <2>3
  <2> QED BY <1>0, <1>1, <2>2, <2>4 DEF new
<1>2. CASE ~ \E k \in DOMAIN records : records[k].id = id
  <2> DEFINE e == [id |-> id, pics |-> pics, restored |-> FALSE]
  <2>1. new = Append(records, e)
    BY <1>2 DEF RecordUnloaded
  <2>2. e \in Record /\ e.id = id /\ ~e.restored
    BY DEF Record
  <2> HIDE DEF new, e
  <2>3. /\ new \in Seq(Record) /\ DOMAIN new = 1..(Len(records) + 1)
        /\ new[Len(records) + 1] = e /\ \A r \in 1..Len(records) : new[r] = records[r]
    BY <1>0, <2>1, <2>2
  <2> QED BY <1>0, <2>2, <2>3 DEF new
<1> QED BY <1>1, <1>2

LEMMA UnloadSound ==
    ASSUME NEW s \in Seq(Item), NEW p \in 0..Len(s), NEW c \in Sound(s, p), NEW user
    PROVE  UnloadMore(c, user, p) \in Sound(s, p)
<1> DEFINE h == c.history
           ks == {k \in Compressible(h, p) : Removable(h, k, c.records) # {}}
           k == Min(ks)
           pics == Removable(h, k, c.records)
           id == <<h[k].by, k, pics>>
           g == [h EXCEPT ![k].pics = @ \ pics, ![k].marks = @ \cup {id}]
           records == RecordUnloaded(c.records, id, pics)
<1>1. /\ c \in Compression /\ h \in Seq(Item) /\ c.records \in Seq(Record)
      /\ Spared(h, s, p) /\ Batched(h, s) /\ PicsInBlocks(h) /\ Backed(h, c.records)
  BY DEF Sound, Compression
<1>2. CASE Fits(h, user) \/ ks = {}
  BY <1>2 DEF UnloadMore, UnloadOldestImageMessage
<1>3. CASE ~Fits(h, user) /\ ks # {}
  <2>1. UnloadMore(c, user, p) = [history |-> g, records |-> records]
    BY <1>3 DEF UnloadMore, UnloadOldestImageMessage
  <2>2. Compressible(h, p) \subseteq 1..Len(h)
    BY <1>1, SuffixOf DEF Compressible
  <2>3. k \in ks
    <3>1. ks \in SUBSET Nat
      BY <1>1, <2>2
    <3> HIDE DEF ks
    <3> QED BY <1>3, <3>1, LeastIsMin
  <2>4. k \in 1..Len(h) /\ pics # {} /\ pics \subseteq h[k].pics
    BY <2>2, <2>3 DEF Removable
  <2> HIDE DEF k, pics
  <2>5. h[k] \in Item /\ IsBlock(h[k])
    BY <1>1, <2>4 DEF PicsInBlocks
  <2>6. pics \in SUBSET Pic /\ id \in UnloadId
    <3>1. h[k].pics \in SUBSET Pic /\ h[k].by \in By /\ k \in Nat
      <4>1. k \in Nat
        BY <2>4
      <4> QED BY <2>5, <4>1, ItemFields
    <3>2. pics \in SUBSET Pic
      BY <2>4, <3>1
    <3> QED BY <3>1, <3>2 DEF UnloadId
  <2> HIDE DEF id
  <2> DEFINE e == [h[k] EXCEPT !.pics = @ \ pics, !.marks = @ \cup {id}]
  <2>7. e \in Item /\ Whole(e, h[k]) /\ e.marks = h[k].marks \cup {id} /\ IsBlock(e)
    BY <2>5, <2>6 DEF Item, Whole, Origin, IsBlock
  <2>8. g = [h EXCEPT ![k] = e]
    BY <1>1, <2>4
  <2> HIDE DEF e, g, h
  <2>9. /\ g \in Seq(Item) /\ Len(g) = Len(h) /\ DOMAIN g = 1..Len(h) /\ DOMAIN h = 1..Len(h)
        /\ g[k] = e /\ \A i \in 1..Len(h) : i # k => g[i] = h[i]
    BY <1>1, <2>4, <2>7, <2>8
  <2>10. \A i \in 1..Len(h) : Whole(g[i], h[i])
    BY <2>7, <2>9 DEF Whole, Origin
  <2>11. Spared(g, s, p)
    <3>1. \A i \in 1..Len(h) : g[i].by = h[i].by
      BY <2>10 DEF Whole, Origin
    <3> QED BY <1>1, <2>9, <2>10, <3>1, SparedStill
  <2>12. Batched(g, s)
    <3>1. \A i \in 1..Len(h) : Origin(g[i], h[i])
      BY <2>10 DEF Whole
    <3> QED BY <1>1, <2>9, <3>1, BatchedStill
  <2>13. PicsInBlocks(g)
    BY <1>1, <2>7, <2>9 DEF PicsInBlocks
  <2>14. /\ records \in Seq(Record)
         /\ \E r \in DOMAIN records : records[r].id = id /\ ~records[r].restored
         /\ \A r \in DOMAIN c.records : ~c.records[r].restored =>
               \E q \in DOMAIN records : records[q].id = c.records[r].id /\ ~records[q].restored
    BY <1>1, <2>6, RecordedBack
  <2> HIDE DEF records
  <2>15. ASSUME NEW i \in DOMAIN g, NEW d \in g[i].marks
         PROVE  \E r \in DOMAIN records : records[r].id = d /\ ~records[r].restored
    <3>1. CASE d = id
      BY <2>14, <3>1
    <3>2. CASE d # id
      <4>1. d \in h[i].marks
        BY <2>7, <2>9, <2>15, <3>2
      <4>2. PICK r \in DOMAIN c.records : c.records[r].id = d /\ ~c.records[r].restored
        BY <1>1, <2>9, <4>1 DEF Backed
      <4> QED BY <2>14, <4>2
    <3> QED BY <3>1, <3>2
  <2>16. Backed(g, records)
    BY <2>15 DEF Backed
  <2> DEFINE d == [history |-> g, records |-> records]
  <2>17. d \in Compression /\ d.history = g /\ d.records = records
    BY <2>9, <2>14 DEF Compression
  <2> QED BY <2>1, <2>11, <2>12, <2>13, <2>16, <2>17 DEF Sound
<1> QED BY <1>2, <1>3

LEMMA RemoveOne ==
    ASSUME NEW h \in Seq(Item), NEW k \in 1..Len(h)
    PROVE  /\ RemoveAt(h, k) \in Seq(Item) /\ Len(RemoveAt(h, k)) = Len(h) - 1
           /\ \A i \in 1..(Len(h) - 1) : RemoveAt(h, k)[i] = IF i < k THEN h[i] ELSE h[i + 1]
<1> DEFINE a == SubSeq(h, 1, k - 1)
           b == SubSeq(h, k + 1, Len(h))
<1>1. /\ a \in Seq(Item) /\ Len(a) = k - 1 /\ \A i \in 1..(k - 1) : a[i] = h[i]
      /\ b \in Seq(Item) /\ Len(b) = Len(h) - k
      /\ \A i \in 1..(Len(h) - k) : b[i] = h[k + i]
  OBVIOUS
<1>2. RemoveAt(h, k) = a \o b
  BY DEF RemoveAt
<1> HIDE DEF a, b
<1>3. /\ a \o b \in Seq(Item) /\ Len(a \o b) = Len(h) - 1
      /\ \A i \in 1..(Len(h) - 1) : (a \o b)[i] = IF i < k THEN a[i] ELSE b[i - (k - 1)]
  <2>1. Len(h) \in Nat /\ Len(a) + Len(b) = Len(h) - 1
    BY <1>1
  <2>2. /\ a \o b \in Seq(Item) /\ Len(a \o b) = Len(a) + Len(b)
        /\ \A i \in 1..(Len(a) + Len(b)) :
              (a \o b)[i] = IF i <= Len(a) THEN a[i] ELSE b[i - Len(a)]
    BY <1>1, ConcatProperties
  <2>3. \A i \in 1..(Len(h) - 1) : i <= k - 1 <=> i < k
    OBVIOUS
  <2> QED BY <1>1, <2>1, <2>2, <2>3
<1>4. ASSUME NEW i \in 1..(Len(h) - 1) PROVE (a \o b)[i] = IF i < k THEN h[i] ELSE h[i + 1]
  <2>1. CASE i < k
    BY <1>1, <1>3, <2>1
  <2>2. CASE ~(i < k)
    <3>1. i - (k - 1) \in 1..(Len(h) - k) /\ k + (i - (k - 1)) = i + 1
      BY <2>2
    <3> QED BY <1>1, <1>3, <2>2, <3>1
  <2> QED BY <2>1, <2>2
<1> QED BY <1>2, <1>3, <1>4

LEMMA DropSound ==
    ASSUME NEW s \in Seq(Item), NEW p \in 0..Len(s), p = 0 \/ IsBlock(s[p]),
           NEW c \in Sound(s, p), NEW user
    PROVE  DropMore(c, user, p) \in Sound(s, p)
<1> DEFINE h == c.history
           ks == FindDroppable(h, p)
           k == Min(ks)
           g == RemoveAt(h, k)
           m == LatestTurnSuffixLength(s)
<1>1. /\ c \in Compression /\ h \in Seq(Item) /\ c.records \in Seq(Record)
      /\ Spared(h, s, p) /\ Batched(h, s) /\ PicsInBlocks(h) /\ Backed(h, c.records)
  BY DEF Sound, Compression
<1>2. CASE Fits(h, user) \/ ks = {}
  BY <1>2 DEF DropMore, DropOldest
<1>3. CASE ~Fits(h, user) /\ ks # {}
  <2>1. DropMore(c, user, p) = [history |-> g, records |-> c.records]
    BY <1>1, <1>3 DEF DropMore, DropOldest, Compression
  <2>2. /\ p <= Len(h) /\ m <= Len(h) /\ LatestTurnSuffixLength(h) = m
        /\ \A i \in 1..p : Whole(h[i], s[i])
        /\ \A i \in 0..(m - 1) : Whole(h[Len(h) - i], s[Len(s) - i])
        /\ m \in Nat /\ Len(h) \in Nat /\ Len(s) \in Nat
    BY <1>1, SuffixOf DEF Spared
  <2>3. ks = {i \in (p + 1)..(Len(h) - m) : h[i].marks = {}}
    BY <2>2 DEF FindDroppable, Compressible
  <2>4. k \in ks /\ \A i \in ks : k <= i
    <3>1. ks \in SUBSET Nat
      BY <2>3
    <3> HIDE DEF ks
    <3> QED BY <1>3, <3>1, LeastIsMin
  <2> HIDE DEF k
  <2>5. k \in (p + 1)..(Len(h) - m) /\ \A i \in (p + 1)..(k - 1) : h[i].marks # {}
    <3>1. k \in (p + 1)..(Len(h) - m)
      BY <2>3, <2>4
    <3>2. ASSUME NEW i \in (p + 1)..(k - 1) PROVE h[i].marks # {}
      <4>1. i \in (p + 1)..(Len(h) - m) /\ ~(k <= i)
        BY <2>2, <3>1
      <4> QED BY <2>3, <2>4, <4>1
    <3> QED BY <3>1, <3>2
  <2>6. k \in 1..Len(h)
    BY <2>2, <2>5
  <2> HIDE DEF ks, h, m
  <2>7. /\ g \in Seq(Item) /\ Len(g) = Len(h) - 1
        /\ \A i \in 1..(Len(h) - 1) : g[i] = IF i < k THEN h[i] ELSE h[i + 1]
    BY <1>1, <2>6, RemoveOne
  <2> HIDE DEF g
  <2>8. m >= 1 /\ IsBlock(h[Len(h) - m + 1]) /\ \A i \in (Len(h) - m + 2)..Len(h) : ~IsBlock(h[i])
    <3>1. m # Len(h)
      BY <2>2, <2>5
    <3> QED BY <1>1, <2>2, <3>1, SuffixOf
  <2>9. \A i \in k..(Len(h) - 1) : g[i] = h[i + 1]
    BY <2>6, <2>7
  <2>10. LatestTurnSuffixLength(g) = m
    <3>1. m \in 1..Len(g) /\ Len(g) - m + 1 \in k..(Len(h) - 1)
      BY <2>2, <2>5, <2>7, <2>8
    <3>2. IsBlock(g[Len(g) - m + 1])
      <4>1. (Len(g) - m + 1) + 1 = Len(h) - m + 1
        BY <2>2, <2>7
      <4> QED BY <2>8, <2>9, <3>1, <4>1
    <3>3. ASSUME NEW i \in (Len(g) - m + 2)..Len(g) PROVE ~IsBlock(g[i])
      <4>1. i \in k..(Len(h) - 1) /\ i + 1 \in (Len(h) - m + 2)..Len(h)
        BY <2>2, <2>5, <2>7
      <4> QED BY <2>8, <2>9, <4>1
    <3> QED BY <2>7, <3>1, <3>2, <3>3, SuffixIs
  <2>11. Spared(g, s, p)
    <3>1. p <= Len(g) /\ m <= Len(g)
      BY <2>2, <2>5, <2>7
    <3>2. ASSUME NEW i \in 1..p PROVE Whole(g[i], s[i])
      <4>1. i < k /\ i \in 1..(Len(h) - 1)
        BY <2>2, <2>5
      <4> QED BY <2>2, <2>7, <4>1
    <3>3. ASSUME NEW i \in 0..(m - 1) PROVE Whole(g[Len(g) - i], s[Len(s) - i])
      <4>1. Len(g) - i \in k..(Len(h) - 1) /\ (Len(g) - i) + 1 = Len(h) - i
        BY <2>2, <2>5, <2>7
      <4>2. g[Len(g) - i] = h[Len(h) - i]
        BY <2>9, <4>1
      <4> QED BY <2>2, <4>2
    <3> QED BY <2>10, <3>1, <3>2, <3>3 DEF Spared, m
  <2>12. Batched(g, s)
    <3> SUFFICES ASSUME NEW i \in 2..Len(g), ~IsBlock(g[i]), ~IsBlock(g[i - 1])
                 PROVE  \E j \in 2..Len(s) : Origin(g[i], s[j]) /\ Origin(g[i - 1], s[j - 1])
      BY DEF Batched
    <3>1. CASE i < k
      <4>1. i \in 2..Len(h) /\ g[i] = h[i] /\ g[i - 1] = h[i - 1]
        BY <2>6, <2>7, <3>1
      <4> QED BY <1>1, <4>1 DEF Batched
    <3>2. CASE i > k
      <4>1. i + 1 \in 2..Len(h) /\ g[i] = h[i + 1] /\ g[i - 1] = h[(i + 1) - 1]
        <5>1. i \in k..(Len(h) - 1) /\ i - 1 \in k..(Len(h) - 1)
          BY <2>2, <2>6, <2>7, <3>2
        <5>2. (i - 1) + 1 = (i + 1) - 1
          BY <2>6
        <5> QED BY <2>2, <2>7, <2>9, <5>1, <5>2
      <4> QED BY <1>1, <4>1 DEF Batched
    <3>3. CASE i = k
      <4>1. g[i - 1] = h[k - 1] /\ k - 1 \in 1..Len(h)
        BY <2>2, <2>6, <2>7, <3>3
      <4>2. CASE k - 1 = p
        <5>1. p \in 1..p /\ IsBlock(s[p])
          BY <2>5, <3>3, <4>2
        <5>2. IsBlock(h[p])
          BY <2>2, <5>1 DEF Whole, Origin, IsBlock
        <5> QED BY <4>1, <4>2, <5>2
      <4>3. CASE k - 1 # p
        <5>1. k - 1 \in (p + 1)..(k - 1)
          BY <2>5, <4>3
        <5>2. IsBlock(h[k - 1])
          BY <1>1, <2>5, <4>1, <5>1 DEF PicsInBlocks
        <5> QED BY <4>1, <5>2
      <4> QED BY <4>2, <4>3
    <3> QED BY <2>6, <3>1, <3>2, <3>3
  <2>13. ASSUME NEW i \in DOMAIN g PROVE \E j \in DOMAIN h : g[i] = h[j]
    <3>1. i \in 1..(Len(h) - 1) /\ i \in 1..Len(h) /\ i + 1 \in 1..Len(h)
      BY <2>2, <2>7
    <3>2. g[i] = h[i] \/ g[i] = h[i + 1]
      BY <2>7, <3>1
    <3> QED BY <1>1, <3>1, <3>2
  <2>14. PicsInBlocks(g) /\ Backed(g, c.records)
    BY <1>1, <2>13 DEF PicsInBlocks, Backed
  <2> DEFINE d == [history |-> g, records |-> c.records]
  <2>15. d \in Compression /\ d.history = g /\ d.records = c.records
    BY <1>1, <2>7 DEF Compression
  <2> QED BY <2>1, <2>11, <2>12, <2>14, <2>15 DEF Sound
<1> QED BY <1>2, <1>3

(* Stored items bear no placeholders.                                      *)
Unmarked(s) == \A k \in DOMAIN s : s[k].marks = {}

LEMMA FirstUserIsBlock ==
    ASSUME NEW s \in Seq(Item)
    PROVE  /\ FirstUserMessageEnd(s) \in 0..Len(s)
           /\ FirstUserMessageEnd(s) = 0 \/ IsBlock(s[FirstUserMessageEnd(s)])
<1> DEFINE users == {k \in DOMAIN s : s[k].by = "user"}
<1>1. FirstUserMessageEnd(s) = IF users = {} THEN 0 ELSE Min(users)
  BY DEF FirstUserMessageEnd
<1>2. users \in SUBSET Nat /\ DOMAIN s = 1..Len(s) /\ Len(s) \in Nat
  OBVIOUS
<1>3. CASE users = {}
  BY <1>1, <1>2, <1>3
<1>4. CASE users # {}
  <2>1. Min(users) \in users
    <3> HIDE DEF users
    <3> QED BY <1>2, <1>4, LeastIsMin
  <2>2. Min(users) \in 1..Len(s) /\ s[Min(users)].by = "user"
    BY <1>2, <2>1
  <2>3. FirstUserMessageEnd(s) = Min(users)
    BY <1>1, <1>4
  <2> HIDE DEF users
  <2> QED BY <1>2, <2>2, <2>3 DEF IsBlock
<1> QED BY <1>3, <1>4

LEMMA StartSound ==
    ASSUME NEW s \in Seq(Item), NEW p \in 0..Len(s), Unmarked(s), PicsInBlocks(s),
           NEW records \in Seq(Record)
    PROVE  [history |-> s, records |-> records] \in Sound(s, p)
<1> DEFINE c == [history |-> s, records |-> records]
<1>1. c \in Compression /\ c.history = s /\ c.records = records
  BY DEF Compression
<1>2. \A i : Whole(i, i) /\ Origin(i, i)
  BY DEF Whole, Origin
<1>3. Spared(s, s, p)
  BY <1>2, SuffixOf DEF Spared
<1>4. Batched(s, s)
  BY <1>2 DEF Batched
<1>5. Backed(s, records)
  BY DEF Backed, Unmarked
<1> HIDE DEF c
<1>6. c \in Sound(s, p)
  BY <1>1, <1>3, <1>4, <1>5 DEF Sound
<1> QED BY <1>6 DEF c

LEMMA TruncateSound ==
    ASSUME NEW s \in Seq(Item), NEW p \in 0..Len(s), Unmarked(s), PicsInBlocks(s)
    PROVE  LET g == TruncateLargeItems(s, p)
           IN  /\ g \in Seq(Item) /\ Spared(g, s, p) /\ Batched(g, s)
               /\ PicsInBlocks(g) /\ Unmarked(g)
<1> DEFINE g == TruncateLargeItems(s, p)
           item(k) == [s[k] EXCEPT !.pics = {<<pic[1], "small">> : pic \in @}]
<1>1. DOMAIN s = 1..Len(s) /\ Len(s) \in Nat /\ \A k \in 1..Len(s) : s[k] \in Item
  OBVIOUS
<1>2. g = [k \in DOMAIN s |->
             IF k \notin Compressible(s, p) \/ item(k).by = "user" \/ ~item(k).long
             THEN item(k) ELSE [item(k) EXCEPT !.long = FALSE, !.pics = {}]]
  BY DEF TruncateLargeItems
<1> HIDE DEF g
<1>3. ASSUME NEW k \in 1..Len(s)
      PROVE  /\ g[k] \in Item /\ Origin(g[k], s[k]) /\ g[k].marks = s[k].marks
             /\ k \notin Compressible(s, p) => Whole(g[k], s[k])
             /\ s[k].pics = {} => g[k].pics = {}
  <2> DEFINE small == {<<pic[1], "small">> : pic \in s[k].pics}
             e == [s[k] EXCEPT !.pics = small]
             f == [e EXCEPT !.long = FALSE, !.pics = {}]
  <2>0. s[k] \in Item /\ s[k].pics \in SUBSET Pic
    BY <1>1 DEF Item
  <2>1. small \in SUBSET Pic /\ (s[k].pics = {} => small = {})
    BY <2>0 DEF Pic
  <2>2. e = item(k) /\ (g[k] = e \/ (g[k] = f /\ k \in Compressible(s, p)))
    BY <1>1, <1>2
  <2> HIDE DEF small
  <2>3. e \in Item /\ Whole(e, s[k]) /\ e.marks = s[k].marks /\ e.pics = small
    BY <2>0, <2>1 DEF Item, Whole, Origin
  <2> HIDE DEF e
  <2>4. f \in Item /\ Origin(f, s[k]) /\ f.marks = s[k].marks /\ f.pics = {}
    BY <2>3 DEF Item, Whole, Origin
  <2> HIDE DEF f
  <2> QED BY <2>1, <2>2, <2>3, <2>4 DEF Whole
<1>4. g \in Seq(Item) /\ DOMAIN g = 1..Len(s) /\ Len(g) = Len(s)
  <2>1. g \in [1..Len(s) -> Item]
    BY <1>1, <1>2, <1>3
  <2> QED BY <1>1, <2>1
<1>5. \A k \in 1..Len(s) : Origin(s[k], s[k]) /\ Whole(s[k], s[k]) /\ g[k].by = s[k].by
  BY <1>3 DEF Whole, Origin
<1>6. Spared(g, s, p)
  <2>1. Spared(s, s, p)
    BY SuffixOf DEF Spared, Whole, Origin
  <2> QED BY <1>3, <1>4, <1>5, <2>1, SparedStill
<1>7. Batched(g, s)
  <2>1. Batched(s, s)
    BY DEF Batched, Origin
  <2> QED BY <1>3, <1>4, <2>1, BatchedStill
<1>8. Unmarked(g)
  BY <1>1, <1>3, <1>4 DEF Unmarked
<1>9. PicsInBlocks(g)
  <2> SUFFICES ASSUME NEW k \in 1..Len(s), g[k].pics # {} PROVE IsBlock(g[k])
    BY <1>4, <1>8 DEF PicsInBlocks, Unmarked
  <2>1. IsBlock(s[k])
    BY <1>1, <1>3 DEF PicsInBlocks
  <2> QED BY <1>5, <2>1 DEF IsBlock
<1> QED BY <1>4, <1>6, <1>7, <1>8, <1>9 DEF g

(* The first p items of h and those after a gap of off, which ends at a    *)
(* message.                                                                *)
KeptAfter(g, h, p, off) ==
    /\ g \in Seq(Item) /\ Len(g) = Len(h) - off /\ p <= Len(g)
    /\ off = 0 \/ (p + 1 + off <= Len(h) /\ IsBlock(h[p + 1 + off]))
    /\ \A i \in 1..Len(g) : g[i] = IF i <= p THEN h[i] ELSE h[i + off]

LEMMA RecentItems ==
    ASSUME NEW h \in Seq(Item), NEW p \in 0..Len(h)
    PROVE  \E off \in 0..Len(h) : KeptAfter(KeepRecentHistory(h, p), h, p, off)
<1> DEFINE old == {k \in DOMAIN h : IsBlock(h[k]) /\ BlocksAfter(h, k) >= RecentBlocks - 1}
           start == IF old = {} THEN 1 ELSE Max(old)
           from == Max({p + 1, start})
           off == from - (p + 1)
           a == SubSeq(h, 1, p)
           b == SubSeq(h, from, Len(h))
           g == KeepRecentHistory(h, p)
<1>1. g = a \o b
  BY DEF KeepRecentHistory
<1>2. Len(h) \in Nat /\ p \in Nat /\ DOMAIN h = 1..Len(h)
  OBVIOUS
<1>3. start = 1 \/ (start \in 1..Len(h) /\ IsBlock(h[start]))
  <2>1. CASE old = {}
    BY <2>1
  <2>2. CASE old # {}
    <3>1. Max(old) \in old
      <4>1. old \in SUBSET (0..Len(h))
        BY <1>2
      <4> HIDE DEF old
      <4> QED BY <1>2, <2>2, <4>1, GreatestIsMax
    <3>2. start \in old
      BY <2>2, <3>1
    <3> HIDE DEF start
    <3> QED BY <1>2, <3>2
  <2> QED BY <2>1, <2>2
<1> HIDE DEF start
<1>4. from = p + 1 \/ (from > p + 1 /\ from = start)
  BY <1>2, <1>3, MaxOfTwo
<1> HIDE DEF from
<1>5. /\ from \in (p + 1)..(Len(h) + 1) /\ off \in 0..Len(h)
      /\ off = 0 \/ (p + 1 + off <= Len(h) /\ IsBlock(h[p + 1 + off]))
  <2>1. CASE from = p + 1
    BY <1>2, <2>1
  <2>2. CASE from > p + 1 /\ from = start
    <3>1. start \in 1..Len(h) /\ IsBlock(h[start]) /\ p + 1 + off = start
      BY <1>2, <1>3, <2>2
    <3> QED BY <1>2, <2>2, <3>1
  <2> QED BY <1>4, <2>1, <2>2
<1>6. /\ a \in Seq(Item) /\ Len(a) = p /\ \A i \in 1..p : a[i] = h[i]
      /\ b \in Seq(Item) /\ Len(b) = Len(h) - from + 1
      /\ \A i \in 1..(Len(h) - from + 1) : b[i] = h[from + i - 1]
  BY <1>2, <1>5
<1> HIDE DEF a, b, g
<1>7. g \in Seq(Item) /\ Len(g) = Len(a) + Len(b)
      /\ \A i \in 1..(Len(a) + Len(b)) : g[i] = IF i <= Len(a) THEN a[i] ELSE b[i - Len(a)]
  BY <1>1, <1>6, ConcatProperties
<1>8. Len(g) = Len(h) - off /\ p <= Len(g)
  BY <1>2, <1>5, <1>6, <1>7
<1>9. ASSUME NEW i \in 1..Len(g) PROVE g[i] = IF i <= p THEN h[i] ELSE h[i + off]
  <2>1. CASE i <= p
    BY <1>2, <1>6, <1>7, <2>1, SMTT(20)
  <2>2. CASE ~(i <= p)
    <3>1. i - p \in 1..(Len(h) - from + 1) /\ from + (i - p) - 1 = i + off
      BY <1>2, <1>5, <1>8, <2>2
    <3>2. g[i] = b[i - p]
      <4>1. i \in 1..(Len(a) + Len(b)) /\ Len(a) = p
        BY <1>6, <1>7
      <4>2. g[i] = IF i <= p THEN a[i] ELSE b[i - p]
        BY <1>7, <4>1
      <4> QED BY <2>2, <4>2
    <3> QED BY <1>6, <2>2, <3>1, <3>2
  <2> QED BY <2>1, <2>2
<1> HIDE DEF off
<1>10. KeptAfter(g, h, p, off)
  BY <1>5, <1>7, <1>8, <1>9 DEF KeptAfter
<1> QED BY <1>5, <1>10 DEF g

LEMMA RecentSound ==
    ASSUME NEW s \in Seq(Item), NEW p \in 0..Len(s), p = 0 \/ IsBlock(s[p]),
           NEW h \in Seq(Item), Spared(h, s, p), Batched(h, s), PicsInBlocks(h), Unmarked(h)
    PROVE  LET g == KeepRecentHistory(h, p)
           IN  /\ g \in Seq(Item) /\ Spared(g, s, p) /\ Batched(g, s)
               /\ PicsInBlocks(g) /\ Unmarked(g)
<1> DEFINE g == KeepRecentHistory(h, p)
           m == LatestTurnSuffixLength(s)
<1>1. /\ p <= Len(h) /\ m <= Len(h) /\ LatestTurnSuffixLength(h) = m
      /\ \A k \in 1..p : Whole(h[k], s[k])
      /\ \A k \in 0..(m - 1) : Whole(h[Len(h) - k], s[Len(s) - k])
      /\ m \in Nat /\ Len(h) \in Nat /\ DOMAIN h = 1..Len(h) /\ p \in 0..Len(h) /\ p \in Nat
  BY SuffixOf DEF Spared
<1>2. PICK off \in 0..Len(h) : KeptAfter(g, h, p, off)
  BY <1>1, RecentItems
<1> HIDE DEF g, m
<1>3. /\ g \in Seq(Item) /\ Len(g) = Len(h) - off /\ p <= Len(g) /\ DOMAIN g = 1..Len(g)
      /\ off = 0 \/ (p + 1 + off <= Len(h) /\ IsBlock(h[p + 1 + off]))
      /\ \A i \in 1..p : g[i] = h[i]
      /\ \A i \in (p + 1)..Len(g) : g[i] = h[i + off]
  <2>1. /\ g \in Seq(Item) /\ Len(g) = Len(h) - off /\ p <= Len(g)
        /\ off = 0 \/ (p + 1 + off <= Len(h) /\ IsBlock(h[p + 1 + off]))
        /\ \A i \in 1..Len(g) : g[i] = IF i <= p THEN h[i] ELSE h[i + off]
    BY <1>2 DEF KeptAfter
  <2>2. DOMAIN g = 1..Len(g) /\ Len(g) \in Nat
    BY <2>1
  <2>3. \A i \in 1..p : i \in 1..Len(g) /\ i <= p
    BY <1>1, <2>1, <2>2
  <2>4. \A i \in (p + 1)..Len(g) : i \in 1..Len(g) /\ ~(i <= p)
    BY <1>1, <2>2
  <2> QED BY <2>1, <2>2, <2>3, <2>4
<1>4. \A i \in DOMAIN g : \E k \in DOMAIN h : g[i] = h[k]
  <2> SUFFICES ASSUME NEW i \in 1..Len(g) PROVE \E k \in 1..Len(h) : g[i] = h[k]
    BY <1>1, <1>3
  <2>1. i \in 1..Len(h) /\ i + off \in 1..Len(h)
    BY <1>1, <1>3
  <2>2. g[i] = h[i] \/ g[i] = h[i + off]
    <3>1. i \in 1..p \/ i \in (p + 1)..Len(g)
      BY <1>1
    <3> QED BY <1>3, <3>1
  <2> QED BY <2>1, <2>2
<1>5. off = 0 \/ /\ p + m <= Len(g) /\ m >= 1 /\ IsBlock(h[Len(h) - m + 1])
                 /\ \A k \in (Len(h) - m + 2)..Len(h) : ~IsBlock(h[k])
  <2> SUFFICES ASSUME off # 0 PROVE /\ p + m <= Len(g) /\ m >= 1 /\ IsBlock(h[Len(h) - m + 1])
                                    /\ \A k \in (Len(h) - m + 2)..Len(h) : ~IsBlock(h[k])
    OBVIOUS
  <2>1. p + 1 + off \in 1..Len(h) /\ IsBlock(h[p + 1 + off])
    BY <1>1, <1>3
  <2>2. /\ \A k \in (Len(h) - m + 2)..Len(h) : ~IsBlock(h[k])
        /\ m >= 1 /\ IsBlock(h[Len(h) - m + 1])
    BY <1>1, <2>1, SuffixOf
  <2>3. p + 1 + off <= Len(h) - m + 1
    BY <1>1, <2>1, <2>2
  <2> QED BY <1>1, <1>3, <2>2, <2>3
<1>6. \A k \in 0..(m - 1) : g[Len(g) - k] = h[Len(h) - k]
  <2> SUFFICES ASSUME NEW k \in 0..(m - 1) PROVE g[Len(g) - k] = h[Len(h) - k]
    OBVIOUS
  <2>1. CASE off = 0
    <3>1. Len(g) - k \in 1..Len(g) /\ Len(g) - k = Len(h) - k /\ (Len(h) - k) + off = Len(h) - k
      BY <1>1, <1>3, <2>1
    <3> QED BY <1>1, <1>3, <2>1, <3>1
  <2>2. CASE off # 0
    <3>1. Len(g) - k \in (p + 1)..Len(g) /\ (Len(g) - k) + off = Len(h) - k
      <4>1. p + m <= Len(g) /\ Len(g) = Len(h) - off
        BY <1>3, <1>5, <2>2
      <4>2. Len(h) \in Nat /\ off \in Nat /\ p \in Nat /\ m \in Nat /\ Len(g) \in Int
        BY <1>1, <1>3
      <4> DEFINE x == Len(g)
                 y == Len(h)
      <4> HIDE DEF x, y
      <4>3. p + m <= x /\ x = y - off /\ y \in Nat /\ x \in Int
        BY <4>1, <4>2 DEF x, y
      <4>4. x - k \in (p + 1)..x /\ (x - k) + off = y - k
        BY <4>2, <4>3
      <4> QED BY <4>4 DEF x, y
    <3> QED BY <1>3, <3>1
  <2> QED BY <2>1, <2>2
<1>7. m <= Len(g) /\ LatestTurnSuffixLength(g) = m
  <2>1. CASE off = 0
    <3>1. Len(g) = Len(h) /\ \A k \in 1..Len(h) : g[k].by = h[k].by
      <4>1. \A k \in 1..Len(h) : k + off = k /\ (k \in 1..p \/ k \in (p + 1)..Len(g))
        BY <1>1, <1>3, <2>1
      <4> QED BY <1>1, <1>3, <2>1, <4>1
    <3> QED BY <1>1, <1>3, <3>1, SuffixSame
  <2>2. CASE off # 0
    <3>1. m \in 1..Len(g)
      BY <1>1, <1>3, <1>5, <2>2
    <3>2. IsBlock(g[Len(g) - m + 1])
      <4>1. m - 1 \in 0..(m - 1) /\ Len(g) - (m - 1) = Len(g) - m + 1
            /\ Len(h) - (m - 1) = Len(h) - m + 1
        BY <1>1, <1>3, <1>5, <2>2
      <4> QED BY <1>5, <1>6, <2>2, <4>1
    <3>3. ASSUME NEW k \in (Len(g) - m + 2)..Len(g) PROVE ~IsBlock(g[k])
      <4>1. Len(g) - k \in 0..(m - 1) /\ Len(g) - (Len(g) - k) = k
            /\ Len(h) - (Len(g) - k) \in (Len(h) - m + 2)..Len(h)
        BY <1>1, <1>3, <1>5, <2>2
      <4> QED BY <1>5, <1>6, <2>2, <4>1
    <3>4. LatestTurnSuffixLength(g) = m
      BY <1>3, <3>1, <3>2, <3>3, SuffixIs
    <3> QED BY <1>3, <3>1, <3>4
  <2> QED BY <2>1, <2>2
<1>8. Spared(g, s, p)
  BY <1>1, <1>3, <1>6, <1>7 DEF Spared, m
<1>9. Batched(g, s)
  <2> SUFFICES ASSUME NEW i \in 2..Len(g), ~IsBlock(g[i]), ~IsBlock(g[i - 1])
               PROVE  \E j \in 2..Len(s) : Origin(g[i], s[j]) /\ Origin(g[i - 1], s[j - 1])
    BY DEF Batched
  <2>1. CASE i <= p
    <3>1. i \in 2..Len(h) /\ g[i] = h[i] /\ g[i - 1] = h[i - 1]
      <4>1. i \in 1..p /\ i - 1 \in 1..p
        BY <1>1, <2>1
      <4> QED BY <1>1, <1>3, <4>1
    <3> QED BY <3>1 DEF Batched
  <2>2. CASE i > p + 1
    <3>1. i + off \in 2..Len(h) /\ g[i] = h[i + off] /\ g[i - 1] = h[(i + off) - 1]
      <4>1. i \in (p + 1)..Len(g) /\ i - 1 \in (p + 1)..Len(g) /\ (i - 1) + off = (i + off) - 1
        BY <1>1, <1>3, <2>2
      <4> QED BY <1>1, <1>3, <4>1, SMTT(20)
    <3> QED BY <3>1 DEF Batched
  <2>3. CASE i = p + 1
    <3>1. i - 1 = p /\ p \in 1..p
      BY <1>1, <2>3
    <3>2. IsBlock(s[p]) /\ Whole(h[p], s[p]) /\ g[p] = h[p]
      BY <1>1, <1>3, <3>1
    <3>3. IsBlock(g[p])
      BY <3>2 DEF Whole, Origin, IsBlock
    <3> QED BY <3>1, <3>3
  <2> QED BY <1>1, <1>3, <2>1, <2>2, <2>3
<1>10. PicsInBlocks(g) /\ Unmarked(g)
  BY <1>4 DEF PicsInBlocks, Unmarked
<1> QED BY <1>3, <1>8, <1>9, <1>10 DEF g

(* Whatever compression does to the history of a prompt, it is sound.      *)
LEMMA CompressSound ==
    ASSUME NEW s \in Seq(Item), Unmarked(s), PicsInBlocks(s), NEW records \in Seq(Record),
           NEW user, NEW sub
    PROVE  Compress(s, user, sub, records)
             \in Sound(s, IF sub THEN FirstUserMessageEnd(s) ELSE 0)
<1> DEFINE p == IF sub THEN FirstUserMessageEnd(s) ELSE 0
           truncated == TruncateLargeItems(s, p)
           recent == KeepRecentHistory(truncated, p)
           c == [history |-> recent, records |-> records]
           unloaded == Unloaded(c, user, p)
<1>1. p \in 0..Len(s) /\ (p = 0 \/ IsBlock(s[p]))
  BY FirstUserIsBlock
<1>2. \/ Compress(s, user, sub, records) = [history |-> s, records |-> records]
      \/ Compress(s, user, sub, records) = [history |-> truncated, records |-> records]
      \/ Compress(s, user, sub, records) = Dropped(unloaded, user, p)
  BY DEF Compress
<1> HIDE DEF p
<1>s. ASSUME NEW h \in Seq(Item), Spared(h, s, p), Batched(h, s), PicsInBlocks(h), Unmarked(h)
      PROVE  [history |-> h, records |-> records] \in Sound(s, p)
  <2> DEFINE d == [history |-> h, records |-> records]
  <2>1. d \in Compression /\ d.history = h /\ d.records = records
    BY DEF Compression
  <2>2. Backed(h, records)
    BY <1>s DEF Backed, Unmarked
  <2> HIDE DEF d
  <2>3. d \in Sound(s, p)
    BY <1>s, <2>1, <2>2 DEF Sound
  <2> QED BY <2>3 DEF d
<1>3. [history |-> s, records |-> records] \in Sound(s, p)
  BY <1>1, StartSound
<1>4. /\ truncated \in Seq(Item) /\ Spared(truncated, s, p) /\ Batched(truncated, s)
      /\ PicsInBlocks(truncated) /\ Unmarked(truncated)
  BY <1>1, TruncateSound
<1> HIDE DEF truncated
<1>5. /\ recent \in Seq(Item) /\ Spared(recent, s, p) /\ Batched(recent, s)
      /\ PicsInBlocks(recent) /\ Unmarked(recent)
  BY <1>1, <1>4, RecentSound
<1> HIDE DEF recent
<1>6. c \in Sound(s, p)
  BY <1>5, <1>s
<1>l. \A d \in Sound(s, p) : Len(d.history) \in Nat
  BY DEF Sound, Compression
<1> HIDE DEF c
<1>7. unloaded \in Sound(s, p)
  <2>1. \A x \in Sound(s, p) : UnloadMore(x, user, p) \in Sound(s, p)
    BY <1>1, UnloadSound
  <2> QED BY <1>6, <1>l, <2>1, UnloadedKeeps
<1> HIDE DEF unloaded
<1>8. Dropped(unloaded, user, p) \in Sound(s, p)
  <2>1. \A x \in Sound(s, p) : DropMore(x, user, p) \in Sound(s, p)
    BY <1>1, DropSound
  <2> QED BY <1>7, <1>l, <2>1, DroppedKeeps
<1>9. [history |-> truncated, records |-> records] \in Sound(s, p)
  BY <1>4, <1>s
<1> QED BY <1>2, <1>3, <1>8, <1>9 DEF p

-----------------------------------------------------------------------------
(* The log: turns follow each other, and only the first round of a turn has *)
(* the ordinal 1.                                                          *)
LogTyped == /\ ctx_log \in Seq(Item) /\ ctx_turn \in Nat
            /\ Unmarked(ctx_log) /\ PicsInBlocks(ctx_log)

TurnsInOrder ==
    /\ \A i, j \in DOMAIN ctx_log : i <= j => ctx_log[i].turn <= ctx_log[j].turn
    /\ \A i \in DOMAIN ctx_log : ctx_log[i].turn <= ctx_turn

FirstRounds ==
    \A i \in DOMAIN ctx_log : ~IsBlock(ctx_log[i]) =>
        /\ ctx_log[i].ord >= 1
        /\ \/ ctx_log[i].ord = 1
           \/ \E j \in DOMAIN ctx_log : /\ j < i /\ ~IsBlock(ctx_log[j])
                                        /\ ctx_log[j].turn = ctx_log[i].turn

LogInv == LogTyped /\ TurnsInOrder /\ FirstRounds

CtxInv == /\ LogInv
          /\ ctx_records \in Seq(Record)
          /\ ctx_wake => ctx_log # <<>>
          /\ BatchesAreTurns
          /\ PlaceholdersCanBeReloaded

LEMMA CtxInitInv == CtxInit => CtxInv
<1> SUFFICES ASSUME CtxInit PROVE CtxInv
  OBVIOUS
<1>1. <<>> \in Seq(Item) /\ <<>> \in Seq(Record) /\ DOMAIN <<>> = {}
  OBVIOUS
<1>2. ctx_log = <<>> /\ ctx_turn = 0 /\ ctx_records = <<>> /\ ctx_history = <<>> /\ ~ctx_wake
  BY DEF CtxInit
<1>3. LogInv
  BY <1>1, <1>2 DEF LogInv, LogTyped, TurnsInOrder, FirstRounds, Unmarked, PicsInBlocks
<1>4. BatchesAreTurns /\ PlaceholdersCanBeReloaded
  BY <1>1, <1>2 DEF BatchesAreTurns, PlaceholdersCanBeReloaded
<1> QED BY <1>1, <1>2, <1>3, <1>4 DEF CtxInv

(* Rounds next to each other in the log whose ordinals follow each other    *)
(* are of one turn.                                                        *)
LEMMA BatchesInLog ==
    ASSUME LogInv, NEW i \in 2..Len(ctx_log), ~IsBlock(ctx_log[i]), ~IsBlock(ctx_log[i - 1]),
           ctx_log[i].ord = ctx_log[i - 1].ord + 1
    PROVE  ctx_log[i].turn = ctx_log[i - 1].turn
<1>1. /\ DOMAIN ctx_log = 1..Len(ctx_log) /\ Len(ctx_log) \in Nat
      /\ \A k \in 1..Len(ctx_log) : ctx_log[k].turn \in Nat /\ ctx_log[k].ord \in Nat
  <2>1. ctx_log \in Seq(Item)
    BY DEF LogInv, LogTyped
  <2>2. /\ DOMAIN ctx_log = 1..Len(ctx_log) /\ Len(ctx_log) \in Nat
        /\ \A k \in 1..Len(ctx_log) : ctx_log[k] \in Item
    BY <2>1
  <2> QED BY <2>2, ItemFields
<1>2. i \in DOMAIN ctx_log /\ i - 1 \in DOMAIN ctx_log
  BY <1>1
<1>3. ctx_log[i].ord # 1
  BY <1>1, <1>2 DEF LogInv, FirstRounds
<1>4. PICK j \in DOMAIN ctx_log : j < i /\ ctx_log[j].turn = ctx_log[i].turn
  BY <1>2, <1>3 DEF LogInv, FirstRounds
<1>5. j <= i - 1 /\ i - 1 <= i
  BY <1>1, <1>4
<1>6. ctx_log[j].turn <= ctx_log[i - 1].turn /\ ctx_log[i - 1].turn <= ctx_log[i].turn
  BY <1>2, <1>5 DEF LogInv, TurnsInOrder
<1> QED BY <1>1, <1>2, <1>4, <1>6

(* Storing messages, and rounds that count on from the rounds of the turn, *)
(* keeps the log in order.                                                 *)
Storable(items) ==
    /\ items \in Seq(Item) /\ Unmarked(items) /\ PicsInBlocks(items)
    /\ \A k \in DOMAIN items : ~IsBlock(items[k]) =>
          /\ items[k].ord >= 1
          /\ \/ items[k].ord = 1
             \/ \E j \in DOMAIN ctx_log : ~IsBlock(ctx_log[j]) /\ ctx_log[j].turn = ctx_turn

LEMMA StoredKeeps ==
    ASSUME LogInv, NEW items, Storable(items), Stored(items), ctx_turn' = ctx_turn
    PROVE  LogInv' /\ (ctx_log # <<>> \/ items # <<>> => ctx_log' # <<>>)
<1> DEFINE new == [k \in DOMAIN items |-> [items[k] EXCEPT !.at = Len(ctx_log) + k,
                                                           !.turn = ctx_turn]]
           n == Len(ctx_log)
<1>1. /\ ctx_log \in Seq(Item) /\ n \in Nat /\ DOMAIN ctx_log = 1..n /\ ctx_turn \in Nat
      /\ \A k \in 1..n : ctx_log[k].turn \in Nat
      /\ items \in Seq(Item) /\ Len(items) \in Nat /\ DOMAIN items = 1..Len(items)
      /\ \A k \in 1..Len(items) : items[k] \in Item
  <2>1. ctx_log \in Seq(Item) /\ items \in Seq(Item) /\ ctx_turn \in Nat
    BY DEF LogInv, LogTyped, Storable
  <2>2. \A k \in 1..Len(ctx_log) : ctx_log[k] \in Item
    BY <2>1
  <2>3. \A k \in 1..Len(ctx_log) : ctx_log[k].turn \in Nat
    BY <2>2, ItemFields
  <2> QED BY <2>1, <2>3
<1>2. ctx_log' = ctx_log \o new
  BY DEF Stored
<1>3. ASSUME NEW k \in 1..Len(items)
      PROVE  /\ new[k] \in Item /\ new[k].turn = ctx_turn /\ new[k].by = items[k].by
             /\ new[k].ord = items[k].ord /\ new[k].pics = items[k].pics
             /\ new[k].marks = items[k].marks
  <2>1. items[k] \in Item /\ n + k \in Nat
    BY <1>1
  <2> DEFINE e == [items[k] EXCEPT !.at = n + k, !.turn = ctx_turn]
  <2>2. new[k] = e
    BY <1>1
  <2> HIDE DEF new, n
  <2> QED BY <1>1, <2>1, <2>2 DEF Item
<1>4. new \in Seq(Item) /\ Len(new) = Len(items)
  <2>1. DOMAIN new = 1..Len(items) /\ new \in [1..Len(items) -> Item]
    BY <1>1, <1>3
  <2> HIDE DEF new
  <2> QED BY <1>1, <2>1
<1> HIDE DEF new
<1>5. /\ ctx_log' \in Seq(Item) /\ Len(ctx_log') = n + Len(items)
      /\ \A k \in 1..(n + Len(items)) : ctx_log'[k] = IF k <= n THEN ctx_log[k] ELSE new[k - n]
  <2>1. /\ ctx_log \o new \in Seq(Item) /\ Len(ctx_log \o new) = Len(ctx_log) + Len(new)
        /\ \A k \in 1..(Len(ctx_log) + Len(new)) :
              (ctx_log \o new)[k] = IF k <= Len(ctx_log) THEN ctx_log[k] ELSE new[k - Len(ctx_log)]
    BY <1>1, <1>4, ConcatProperties
  <2> QED BY <1>2, <1>4, <2>1
<1>6. /\ DOMAIN ctx_log' = 1..(n + Len(items))
      /\ \A k \in 1..n : ctx_log'[k] = ctx_log[k]
      /\ \A k \in (n + 1)..(n + Len(items)) : k - n \in 1..Len(items) /\ ctx_log'[k] = new[k - n]
  BY <1>1, <1>5
<1>7. \A k \in DOMAIN ctx_log' : k \in 1..n \/ k \in (n + 1)..(n + Len(items))
  BY <1>1, <1>6
<1> HIDE DEF n
<1>8. LogTyped'
  <2>1. Unmarked(ctx_log')
    <3>1. ASSUME NEW k \in DOMAIN ctx_log' PROVE ctx_log'[k].marks = {}
      <4>1. CASE k \in 1..n
        BY <1>1, <1>6, <4>1 DEF Unmarked, LogInv, LogTyped
      <4>2. CASE k \in (n + 1)..(n + Len(items))
        BY <1>1, <1>3, <1>6, <4>2 DEF Unmarked, Storable
      <4> QED BY <1>7, <4>1, <4>2
    <3> QED BY <3>1 DEF Unmarked
  <2>2. PicsInBlocks(ctx_log')
    <3>1. ASSUME NEW k \in DOMAIN ctx_log', ctx_log'[k].pics # {} \/ ctx_log'[k].marks # {}
          PROVE  IsBlock(ctx_log'[k])
      <4>1. CASE k \in 1..n
        BY <1>1, <1>6, <3>1, <4>1 DEF PicsInBlocks, LogInv, LogTyped
      <4>2. CASE k \in (n + 1)..(n + Len(items))
        BY <1>1, <1>3, <1>6, <3>1, <4>2 DEF PicsInBlocks, IsBlock, Storable
      <4> QED BY <1>7, <4>1, <4>2
    <3> QED BY <3>1 DEF PicsInBlocks
  <2> QED BY <1>1, <1>5, <2>1, <2>2 DEF LogTyped
<1>9. TurnsInOrder'
  <2>1. ASSUME NEW i \in DOMAIN ctx_log', NEW j \in DOMAIN ctx_log', i <= j
        PROVE  ctx_log'[i].turn <= ctx_log'[j].turn /\ ctx_log'[j].turn <= ctx_turn
    <3>1. CASE j \in 1..n
      <4>1. i \in 1..n
        BY <1>1, <1>6, <2>1, <3>1
      <4> QED BY <1>1, <1>6, <2>1, <3>1, <4>1 DEF LogInv, TurnsInOrder
    <3>2. CASE j \in (n + 1)..(n + Len(items))
      <4>1. ctx_log'[j].turn = ctx_turn
        BY <1>3, <1>6, <3>2
      <4>2. CASE i \in 1..n
        BY <1>1, <1>6, <4>1, <4>2 DEF LogInv, TurnsInOrder
      <4>3. CASE i \in (n + 1)..(n + Len(items))
        BY <1>1, <1>3, <1>6, <4>1, <4>3
      <4> QED BY <1>7, <4>2, <4>3
    <3> QED BY <1>7, <3>1, <3>2
  <2> QED BY <1>6, <2>1 DEF TurnsInOrder
<1>10. FirstRounds'
  <2> SUFFICES ASSUME NEW i \in DOMAIN ctx_log', ~IsBlock(ctx_log'[i])
               PROVE  /\ ctx_log'[i].ord >= 1
                      /\ \/ ctx_log'[i].ord = 1
                         \/ \E j \in DOMAIN ctx_log' : /\ j < i /\ ~IsBlock(ctx_log'[j])
                                                       /\ ctx_log'[j].turn = ctx_log'[i].turn
    BY DEF FirstRounds, IsBlock
  <2>0. 1..n \subseteq DOMAIN ctx_log'
    BY <1>1, <1>6
  <2>1. CASE i \in 1..n
    <3>1. ~IsBlock(ctx_log[i]) /\ i \in DOMAIN ctx_log /\ ctx_log'[i] = ctx_log[i]
      BY <1>1, <1>6, <2>1
    <3>2. ctx_log[i].ord >= 1
          /\ \/ ctx_log[i].ord = 1
             \/ \E j \in DOMAIN ctx_log : /\ j < i /\ ~IsBlock(ctx_log[j])
                                          /\ ctx_log[j].turn = ctx_log[i].turn
      BY <3>1 DEF LogInv, FirstRounds
    <3> QED BY <1>1, <1>6, <2>0, <3>1, <3>2
  <2>2. CASE i \in (n + 1)..(n + Len(items))
    <3> DEFINE k == i - n
    <3>1. k \in 1..Len(items) /\ ctx_log'[i] = new[k]
      BY <1>6, <2>2
    <3>0. \A j \in 1..n : j < i
      BY <1>1, <2>2
    <3> HIDE DEF k
    <3>2. /\ ~IsBlock(items[k]) /\ ctx_log'[i].ord = items[k].ord
          /\ ctx_log'[i].turn = ctx_turn
      BY <1>3, <3>1 DEF IsBlock
    <3>3. /\ items[k].ord >= 1
          /\ \/ items[k].ord = 1
             \/ \E j \in DOMAIN ctx_log : ~IsBlock(ctx_log[j]) /\ ctx_log[j].turn = ctx_turn
      BY <1>1, <3>1, <3>2 DEF Storable
    <3> QED BY <1>1, <1>6, <2>0, <3>0, <3>2, <3>3
  <2> QED BY <1>7, <2>1, <2>2
<1>11. ctx_log # <<>> \/ items # <<>> => ctx_log' # <<>>
  <2>1. ctx_log # <<>> \/ items # <<>> => n + Len(items) # 0
    BY <1>1 DEF n
  <2>2. ctx_log' = <<>> => n + Len(items) = 0
    BY <1>5
  <2> QED BY <2>1, <2>2
<1> QED BY <1>8, <1>9, <1>10, <1>11 DEF LogInv

(* The window a turn reads, and what is left of it without its last item.  *)
Part(s, off) == /\ s \in Seq(Item) /\ off + Len(s) <= Len(ctx_log)
                /\ \A i \in 1..Len(s) : s[i] = ctx_log[off + i]

LEMMA PartOfLog ==
    ASSUME LogTyped, NEW s, NEW off \in Nat, Part(s, off)
    PROVE  s \in Seq(Item) /\ Unmarked(s) /\ PicsInBlocks(s)
<1>1. /\ s \in Seq(Item) /\ Len(s) \in Nat /\ DOMAIN s = 1..Len(s)
      /\ off + Len(s) <= Len(ctx_log) /\ \A i \in 1..Len(s) : s[i] = ctx_log[off + i]
      /\ ctx_log \in Seq(Item) /\ Len(ctx_log) \in Nat /\ DOMAIN ctx_log = 1..Len(ctx_log)
      /\ Unmarked(ctx_log) /\ PicsInBlocks(ctx_log)
  BY DEF Part, LogTyped
<1>2. \A i \in 1..Len(s) : off + i \in DOMAIN ctx_log
  BY <1>1
<1>3. Unmarked(s)
  BY <1>1, <1>2 DEF Unmarked
<1>4. PicsInBlocks(s)
  BY <1>1, <1>2 DEF PicsInBlocks
<1> QED BY <1>1, <1>3, <1>4

LEMMA WindowItems ==
    ASSUME LogTyped, ctx_log # <<>>
    PROVE  LET w == LastOf(ctx_log, HistoryLimit)
           IN  /\ w \in Seq(Item) /\ Len(w) >= 1
               /\ \E off \in Nat : Part(w, off)
               /\ \E off \in Nat : Part(Front(w), off)
<1> DEFINE n == Len(ctx_log)
           from == Max({1, n - HistoryLimit + 1})
           w == SubSeq(ctx_log, from, n)
<1>1. ctx_log \in Seq(Item) /\ n \in Nat /\ n >= 1 /\ HistoryLimit \in Nat /\ HistoryLimit >= 1
  BY ContextAssumption DEF LogTyped
<1>2. from \in Nat /\ 1 <= from /\ from <= n
  <2>1. 1 \in Int /\ n - HistoryLimit + 1 \in Int
    BY <1>1
  <2>2. from = IF 1 >= n - HistoryLimit + 1 THEN 1 ELSE n - HistoryLimit + 1
    BY <2>1, MaxOfTwo
  <2> HIDE DEF from, n
  <2> QED BY <1>1, <2>2
<1>3. /\ w \in Seq(Item) /\ Len(w) = n - from + 1
      /\ \A i \in 1..(n - from + 1) : w[i] = ctx_log[from + i - 1]
  <2>1. from..n \subseteq DOMAIN ctx_log
    BY <1>1, <1>2
  <2>2. \A i \in from..n : ctx_log[i] \in Item
    BY <1>1, <2>1
  <2> HIDE DEF from, n
  <2> QED BY <1>1, <1>2, <2>1, <2>2, SubSeqProperties DEF n
<1> HIDE DEF w, from, n
<1>4. Len(w) \in Nat /\ Len(w) >= 1 /\ from - 1 \in Nat
  BY <1>1, <1>2, <1>3
<1>5. Part(w, from - 1)
  <2>1. (from - 1) + Len(w) <= Len(ctx_log)
    BY <1>1, <1>2, <1>3 DEF n
  <2>2. \A i \in 1..Len(w) : w[i] = ctx_log[(from - 1) + i]
    <3>1. \A i \in 1..Len(w) : from + i - 1 = (from - 1) + i
      BY <1>1, <1>2, <1>3
    <3> QED BY <1>3, <3>1
  <2> QED BY <1>3, <2>1, <2>2 DEF Part
<1>6. Part(Front(w), from - 1)
  <2> DEFINE m == Len(w) - 1
             f == SubSeq(w, 1, m)
  <2>0. m \in Nat /\ m <= Len(w)
    BY <1>4
  <2>1. f \in Seq(Item) /\ Len(f) = m /\ \A i \in 1..m : f[i] = w[i]
    <3>1. \A i \in 1..m : w[i] \in Item
      BY <1>3, <1>4
    <3>2. f \in Seq(Item) /\ Len(f) = IF 1 <= m THEN m - 1 + 1 ELSE 0
      BY <1>3, <1>4, <3>1
    <3>3. \A i \in 1..m : f[i] = w[i]
      BY <1>3, <1>4
    <3> HIDE DEF f, m
    <3> QED BY <2>0, <3>2, <3>3
  <2>2. Front(w) = f
    BY DEF Front
  <2> HIDE DEF f
  <2>3. (from - 1) + m <= Len(ctx_log)
    BY <1>1, <1>2, <1>3 DEF n
  <2>4. \A i \in 1..m : f[i] = ctx_log[(from - 1) + i]
    <3>1. \A i \in 1..m : i \in 1..Len(w)
      BY <1>4
    <3> QED BY <1>5, <2>1, <3>1 DEF Part
  <2> HIDE DEF m
  <2> QED BY <2>1, <2>2, <2>3, <2>4 DEF Part
<1>7. w = LastOf(ctx_log, HistoryLimit)
  BY DEF w, from, n, LastOf
<1> QED BY <1>3, <1>4, <1>5, <1>6, <1>7

(* The history a turn hands to the compression.                            *)
Seen == LET w == LastOf(ctx_log, HistoryLimit)
        IN  IF Last(w).by = "user" THEN Front(w) ELSE w

LEMMA SeenItems ==
    ASSUME LogTyped, ctx_log # <<>>
    PROVE  \E off \in Nat : Part(Seen, off)
  BY WindowItems DEF Seen

(* What the prompt of a turn is.                                           *)
LEMMA Built ==
    ASSUME BuildPrompt
    PROVE  LET c == Compress(Seen, ctx_user', ctx_sub, ctx_records)
           IN  /\ ctx_history' = c.history /\ ctx_records' = c.records
               /\ Seen = IF ctx_user' = <<>> THEN LastOf(ctx_log, HistoryLimit)
                                             ELSE Front(LastOf(ctx_log, HistoryLimit))
<1> DEFINE w == LastOf(ctx_log, HistoryLimit)
<1>1. CASE Last(w).by = "user"
  <2>1. ctx_user' = <<Last(w)>> /\ Seen = Front(w)
    BY <1>1 DEF BuildPrompt, Seen
  <2>2. ctx_user' # <<>>
    BY <2>1
  <2> QED BY <1>1, <2>1, <2>2 DEF BuildPrompt
<1>2. CASE Last(w).by # "user"
  <2>1. ctx_user' = <<>> /\ Seen = w
    BY <1>2 DEF BuildPrompt, Seen
  <2> QED BY <1>2, <2>1 DEF BuildPrompt
<1> QED BY <1>1, <1>2

(* A turn is shown a compression of its window that loses nothing it must not. *)
LEMMA BuiltSound ==
    ASSUME CtxInv, BuildPrompt
    PROVE  LET prefix == IF ctx_sub THEN FirstUserMessageEnd(Seen) ELSE 0
           IN  /\ Seen \in Seq(Item)
               /\ [history |-> ctx_history', records |-> ctx_records'] \in Sound(Seen, prefix)
<1>1. LogTyped /\ ctx_log # <<>> /\ ctx_records \in Seq(Record)
  BY DEF CtxInv, LogInv, BuildPrompt
<1>2. Seen \in Seq(Item) /\ Unmarked(Seen) /\ PicsInBlocks(Seen)
  <2>1. PICK off \in Nat : Part(Seen, off)
    BY <1>1, SeenItems
  <2> QED BY <1>1, <2>1, PartOfLog
<1> DEFINE prefix == IF ctx_sub THEN FirstUserMessageEnd(Seen) ELSE 0
           c == Compress(Seen, ctx_user', ctx_sub, ctx_records)
<1>3. ctx_history' = c.history /\ ctx_records' = c.records
  BY Built
<1>4. c \in Sound(Seen, prefix)
  BY <1>1, <1>2, CompressSound
<1> HIDE DEF c, prefix
<1>5. c = [history |-> c.history, records |-> c.records]
  BY <1>4 DEF Sound, Compression
<1> QED BY <1>2, <1>3, <1>4, <1>5 DEF prefix

LEMMA BuiltKeeps ==
    ASSUME CtxInv, BuildPrompt
    PROVE  CtxInv'
<1> DEFINE prefix == IF ctx_sub THEN FirstUserMessageEnd(Seen) ELSE 0
           c == [history |-> ctx_history', records |-> ctx_records']
<1>1. Seen \in Seq(Item) /\ c \in Sound(Seen, prefix)
  BY BuiltSound
<1>2. /\ ctx_history' \in Seq(Item) /\ ctx_records' \in Seq(Record)
      /\ Batched(ctx_history', Seen) /\ Backed(ctx_history', ctx_records')
  <2>1. c.history = ctx_history' /\ c.records = ctx_records'
    OBVIOUS
  <2> HIDE DEF c, prefix
  <2> QED BY <1>1, <2>1 DEF Sound, Compression
<1> HIDE DEF c, prefix
<1>3. /\ LogInv /\ ctx_log # <<>>
      /\ ctx_log' = ctx_log /\ ctx_turn' = ctx_turn + 1 /\ ctx_wake' = FALSE
  BY DEF CtxInv, BuildPrompt
<1>4. LogInv'
  <2>1. LogTyped'
    BY <1>3 DEF LogInv, LogTyped, Unmarked, PicsInBlocks
  <2>2. FirstRounds'
    BY <1>3 DEF LogInv, FirstRounds
  <2>3. TurnsInOrder'
    <3>1. \A i \in DOMAIN ctx_log : ctx_log[i].turn \in Nat
      <4>1. \A i \in DOMAIN ctx_log : ctx_log[i] \in Item
        BY <1>3 DEF LogInv, LogTyped
      <4> QED BY <4>1, ItemFields
    <3>2. ctx_turn \in Nat /\ \A i \in DOMAIN ctx_log : ctx_log[i].turn <= ctx_turn
      BY <1>3 DEF LogInv, LogTyped, TurnsInOrder
    <3>3. \A i \in DOMAIN ctx_log : ctx_log[i].turn <= ctx_turn + 1
      BY <3>1, <3>2
    <3> QED BY <1>3, <3>3 DEF LogInv, TurnsInOrder
  <2> QED BY <2>1, <2>2, <2>3 DEF LogInv
<1>5. BatchesAreTurns'
  <2> SUFFICES ASSUME NEW k \in DOMAIN ctx_history', Joined(ctx_history', k)
               PROVE  ctx_history'[k].turn = ctx_history'[k - 1].turn
    BY DEF BatchesAreTurns
  <2>1. PICK off \in Nat : Part(Seen, off)
    BY <1>3, SeenItems DEF LogInv
  <2>2. /\ k \in 2..Len(ctx_history') /\ ~IsBlock(ctx_history'[k]) /\ ~IsBlock(ctx_history'[k - 1])
        /\ ctx_history'[k].ord = ctx_history'[k - 1].ord + 1
    <3>1. k \in 1..Len(ctx_history') /\ Len(ctx_history') \in Nat
      BY <1>2
    <3> QED BY <3>1 DEF Joined
  <2>3. PICK i \in 2..Len(Seen) : /\ Origin(ctx_history'[k], Seen[i])
                                  /\ Origin(ctx_history'[k - 1], Seen[i - 1])
    BY <1>2, <2>2 DEF Batched
  <2>4. Len(Seen) \in Nat /\ i \in 1..Len(Seen) /\ i - 1 \in 1..Len(Seen)
    BY <1>1, <2>3
  <2>5. Seen[i] = ctx_log[off + i] /\ Seen[i - 1] = ctx_log[off + (i - 1)]
    BY <2>1, <2>4 DEF Part
  <2>6. off + i \in 2..Len(ctx_log) /\ off + (i - 1) = (off + i) - 1
    <3>1. off + Len(Seen) <= Len(ctx_log) /\ Len(ctx_log) \in Nat
      BY <1>3, <2>1 DEF Part, LogInv, LogTyped
    <3> QED BY <2>3, <2>4, <3>1
  <2> DEFINE m == off + i
  <2>7. m \in 2..Len(ctx_log) /\ Origin(ctx_history'[k], ctx_log[m])
        /\ Origin(ctx_history'[k - 1], ctx_log[m - 1])
    BY <2>3, <2>5, <2>6
  <2> HIDE DEF m
  <2>8. /\ ~IsBlock(ctx_log[m]) /\ ~IsBlock(ctx_log[m - 1])
        /\ ctx_log[m].ord = ctx_log[m - 1].ord + 1
    BY <2>2, <2>7 DEF Origin, IsBlock
  <2>9. ctx_log[m].turn = ctx_log[m - 1].turn
    BY <1>3, <2>7, <2>8, BatchesInLog
  <2> QED BY <2>7, <2>9 DEF Origin
<1>6. PlaceholdersCanBeReloaded'
  BY <1>2 DEF Backed, PlaceholdersCanBeReloaded
<1> QED BY <1>2, <1>3, <1>4, <1>5, <1>6 DEF CtxInv

(* A message, or a round of a call, can be stored.                         *)
LEMMA NextOrdinalCounts ==
    ASSUME LogInv
    PROVE  /\ NextOrdinal \in Nat /\ NextOrdinal >= 1
           /\ \/ NextOrdinal = 1
              \/ \E j \in DOMAIN ctx_log : ~IsBlock(ctx_log[j]) /\ ctx_log[j].turn = ctx_turn
<1> DEFINE S == {k \in DOMAIN ctx_log : /\ ctx_log[k].turn = ctx_turn
                                        /\ ctx_log[k].by = "tool"}
<1>1. IsFiniteSet(S)
  <2>1. DOMAIN ctx_log = 1..Len(ctx_log) /\ Len(ctx_log) \in Nat
    BY DEF LogInv, LogTyped
  <2>2. IsFiniteSet(DOMAIN ctx_log)
    BY <2>1, FS_Interval
  <2> QED BY <2>2, FS_Subset
<1>2. Cardinality(S) \in Nat
  BY <1>1, FS_CardinalityType
<1>3. S = {} => Cardinality(S) = 0
  BY FS_EmptySet
<1>4. NextOrdinal = 1 + Cardinality(S)
  BY DEF NextOrdinal
<1>5. S # {} => \E j \in DOMAIN ctx_log : ~IsBlock(ctx_log[j]) /\ ctx_log[j].turn = ctx_turn
  BY DEF IsBlock
<1> HIDE DEF S
<1> QED BY <1>2, <1>3, <1>4, <1>5

LEMMA BlockItem ==
    ASSUME NEW by \in {"user", "assistant"}, NEW pics \in SUBSET Picture, NEW long \in BOOLEAN
    PROVE  /\ Block(by, pics, long) \in Item /\ IsBlock(Block(by, pics, long))
           /\ Block(by, pics, long).marks = {}
<1>1. {<<p, "full">> : p \in pics} \in SUBSET Pic
  BY DEF Pic
<1> QED BY <1>1 DEF Block, Item, IsBlock, By

LEMMA RoundItem ==
    ASSUME NEW ord \in Nat, NEW long \in BOOLEAN
    PROVE  /\ Round(ord, long) \in Item /\ ~IsBlock(Round(ord, long)) /\ Round(ord, long).ord = ord
           /\ Round(ord, long).marks = {} /\ Round(ord, long).pics = {}
  BY DEF Round, Item, IsBlock, By

LEMMA StorableBlock ==
    ASSUME NEW by \in {"user", "assistant"}, NEW pics \in SUBSET Picture, NEW long \in BOOLEAN
    PROVE  Storable(<<Block(by, pics, long)>>)
<1> DEFINE e == Block(by, pics, long)
<1>1. e \in Item /\ IsBlock(e) /\ e.marks = {}
  BY BlockItem
<1> HIDE DEF e
<1> DEFINE s == <<e>>
<1>2. s \in Seq(Item) /\ DOMAIN s = {1} /\ s[1] = e
  BY <1>1
<1> HIDE DEF s
<1>3. Storable(s)
  BY <1>1, <1>2 DEF Storable, Unmarked, PicsInBlocks
<1> QED BY <1>3 DEF s, e

LEMMA StorableNone == Storable(<<>>)
<1>1. <<>> \in Seq(Item)
  OBVIOUS
<1>2. DOMAIN <<>> = {}
  OBVIOUS
<1> QED BY <1>1, <1>2 DEF Storable, Unmarked, PicsInBlocks

(* Messages and then the round of the call.                                *)
LEMMA StorableCall ==
    ASSUME LogInv, NEW f \in Seq(Item), NEW long \in BOOLEAN,
           \A k \in DOMAIN f : IsBlock(f[k]) /\ f[k].marks = {}
    PROVE  Storable(f \o <<Round(NextOrdinal, long)>>)
<1> DEFINE r == Round(NextOrdinal, long)
           n == Len(f)
<1>1. r \in Item /\ ~IsBlock(r) /\ r.ord = NextOrdinal /\ r.marks = {} /\ r.pics = {}
  BY NextOrdinalCounts, RoundItem
<1> HIDE DEF r
<1> DEFINE s == f \o <<r>>
<1>2. <<r>> \in Seq(Item) /\ Len(<<r>>) = 1 /\ <<r>>[1] = r
  BY <1>1
<1>3. /\ s \in Seq(Item) /\ Len(s) = n + Len(<<r>>)
      /\ \A k \in 1..(n + Len(<<r>>)) : s[k] = IF k <= n THEN f[k] ELSE <<r>>[k - n]
  BY <1>2, ConcatProperties
<1> HIDE DEF s
<1>4. /\ n \in Nat /\ DOMAIN f = 1..n /\ DOMAIN s = 1..(n + 1) /\ s[n + 1] = r
      /\ \A k \in 1..n : s[k] = f[k]
  BY <1>2, <1>3
<1> HIDE DEF n
<1>5. \A k \in DOMAIN s : \/ IsBlock(s[k]) /\ s[k].marks = {}
                          \/ s[k] = r
  <2>1. \A k \in DOMAIN s : k \in DOMAIN f \/ k = n + 1
    BY <1>4
  <2> QED BY <1>4, <2>1
<1>6. Unmarked(s)
  BY <1>1, <1>5 DEF Unmarked
<1>7. PicsInBlocks(s)
  BY <1>1, <1>5 DEF PicsInBlocks
<1>8. Storable(s)
  BY <1>1, <1>3, <1>5, <1>6, <1>7, NextOrdinalCounts DEF Storable
<1> QED BY <1>8 DEF s, r

(* What the actions that store items leave alone.                          *)
LEMMA StoringKeeps ==
    ASSUME CtxInv, NEW items, Storable(items), Stored(items), ctx_turn' = ctx_turn,
           ctx_records' \in Seq(Record), ctx_wake' => ctx_log # <<>> \/ items # <<>>,
           ctx_history' = <<>> \/ ctx_history' = ctx_history,
           \/ ctx_history' = <<>> \/ ctx_phase' \notin {"built", "ready"}
           \/ ctx_phase' = ctx_phase /\ ctx_history' = ctx_history /\ ctx_records' = ctx_records
    PROVE  CtxInv'
<1>1. LogInv' /\ (ctx_wake' => ctx_log' # <<>>)
  BY StoredKeeps DEF CtxInv
<1>2. DOMAIN <<>> = {}
  OBVIOUS
<1>3. BatchesAreTurns'
  <2>1. CASE ctx_history' = <<>>
    BY <1>2, <2>1 DEF BatchesAreTurns
  <2>2. CASE ctx_history' = ctx_history
    BY <2>2 DEF BatchesAreTurns, CtxInv
  <2> QED BY <2>1, <2>2
<1>4. PlaceholdersCanBeReloaded'
  <2>1. CASE ctx_history' = <<>>
    BY <1>2, <2>1 DEF PlaceholdersCanBeReloaded
  <2>2. CASE ctx_phase' \notin {"built", "ready"}
    BY <2>2 DEF PlaceholdersCanBeReloaded
  <2>3. CASE ctx_phase' = ctx_phase /\ ctx_history' = ctx_history /\ ctx_records' = ctx_records
    BY <2>3 DEF PlaceholdersCanBeReloaded, CtxInv
  <2> QED BY <2>1, <2>2, <2>3
<1> QED BY <1>1, <1>3, <1>4 DEF CtxInv

LEMMA ReloadKeeps ==
    ASSUME CtxInv, NEW ks \in SUBSET DOMAIN ctx_records, ReloadUnloadedSegments(ks)
    PROVE  CtxInv'
<1>1. ctx_records \in Seq(Record) /\ LogInv
  BY DEF CtxInv
<1>2. DOMAIN ctx_records = 1..Len(ctx_records) /\ Len(ctx_records) \in Nat
      /\ \A k \in DOMAIN ctx_records : ctx_records[k] \in Record
  BY <1>1
<1>3. ctx_records' \in Seq(Record)
  <2>1. ctx_records' = [k \in DOMAIN ctx_records |->
                          IF k \in ks THEN [ctx_records[k] EXCEPT !.restored = TRUE]
                                      ELSE ctx_records[k]]
    BY DEF ReloadUnloadedSegments
  <2>2. ASSUME NEW k \in DOMAIN ctx_records
        PROVE  (IF k \in ks THEN [ctx_records[k] EXCEPT !.restored = TRUE]
                            ELSE ctx_records[k]) \in Record
    BY <1>2 DEF Record
  <2>3. ctx_records' \in [1..Len(ctx_records) -> Record]
    BY <1>2, <2>1, <2>2
  <2> QED BY <1>2, <2>3
<1> DEFINE new(order) == [k \in DOMAIN order |->
                [Block("user", {}, FALSE) EXCEPT !.pics = ctx_records[order[k]].pics]]
<1>4. PICK order \in [1..Cardinality(ks) -> ks] :
         Stored(new(order) \o <<Round(NextOrdinal, FALSE)>>)
  BY DEF ReloadUnloadedSegments
<1> DEFINE f == new(order)
<1>5. Cardinality(ks) \in Nat
  <2>1. IsFiniteSet(DOMAIN ctx_records)
    BY <1>2, FS_Interval
  <2>2. IsFiniteSet(ks)
    BY <2>1, FS_Subset
  <2> QED BY <2>2, FS_CardinalityType
<1>6. ASSUME NEW k \in 1..Cardinality(ks)
      PROVE  f[k] \in Item /\ IsBlock(f[k]) /\ f[k].marks = {}
  <2>1. ctx_records[order[k]].pics \in SUBSET Pic
    <3>1. ctx_records[order[k]] \in Record
      BY <1>2
    <3> QED BY <3>1 DEF Record
  <2> DEFINE e == Block("user", {}, FALSE)
             g == [e EXCEPT !.pics = ctx_records[order[k]].pics]
  <2>2. e \in Item /\ IsBlock(e) /\ e.marks = {}
    BY BlockItem
  <2>3. f[k] = g
    OBVIOUS
  <2> HIDE DEF e, f
  <2> QED BY <2>1, <2>2, <2>3 DEF Item, IsBlock
<1>7. f \in Seq(Item) /\ DOMAIN f = 1..Cardinality(ks)
  <2>1. DOMAIN f = 1..Cardinality(ks)
    OBVIOUS
  <2>2. f \in [1..Cardinality(ks) -> Item]
    BY <1>6, <2>1
  <2> HIDE DEF f
  <2> QED BY <1>5, <2>1, <2>2
<1> HIDE DEF f
<1> DEFINE items == f \o <<Round(NextOrdinal, FALSE)>>
<1>8. Storable(items)
  BY <1>1, <1>6, <1>7, StorableCall
<1>9. Stored(items)
  BY <1>4 DEF f
<1>10. items # <<>>
  BY <1>7
<1> HIDE DEF items
<1>11. /\ ctx_turn' = ctx_turn /\ ctx_phase' \notin {"built", "ready"}
       /\ ctx_history' = ctx_history
  BY DEF ReloadUnloadedSegments, CallRan, ctx_prompt
<1> QED BY <1>3, <1>8, <1>9, <1>10, <1>11, StoringKeeps

LEMMA CtxInvKept == CtxInv /\ [CtxNext]_ctx_vars => CtxInv'
<1> SUFFICES ASSUME CtxInv, [CtxNext]_ctx_vars PROVE CtxInv'
  OBVIOUS
<1>0. LogInv /\ ctx_records \in Seq(Record) /\ (ctx_wake => ctx_log # <<>>)
  BY DEF CtxInv
<1>1. ASSUME NEW pics \in SUBSET Picture, UserWrites(pics) PROVE CtxInv'
  <2>1. Storable(<<Block("user", pics, FALSE)>>) /\ <<Block("user", pics, FALSE)>> # <<>>
    BY StorableBlock
  <2>2. /\ Stored(<<Block("user", pics, FALSE)>>) /\ ctx_turn' = ctx_turn
        /\ ctx_records' = ctx_records /\ ctx_history' = ctx_history /\ ctx_phase' = ctx_phase
    BY <1>1 DEF UserWrites, ctx_prompt, ctx_state
  <2> QED BY <1>0, <2>1, <2>2, StoringKeeps
<1>2. CASE BuildPrompt
  BY <1>2, BuiltKeeps
<1>3. CASE RepairGap
  <2>1. /\ ctx_log' = ctx_log /\ ctx_turn' = ctx_turn /\ ctx_records' = ctx_records
        /\ ctx_history' = ctx_history /\ ctx_wake' = ctx_wake /\ ctx_phase = "built"
    BY <1>3 DEF RepairGap, ctx_stored
  <2>2. LogInv'
    BY <1>0, <2>1 DEF LogInv, LogTyped, TurnsInOrder, FirstRounds, Unmarked, PicsInBlocks
  <2>3. BatchesAreTurns' /\ PlaceholdersCanBeReloaded'
    BY <2>1 DEF CtxInv, BatchesAreTurns, PlaceholdersCanBeReloaded
  <2> QED BY <1>0, <2>1, <2>2, <2>3 DEF CtxInv
<1>4. ASSUME NEW long \in BOOLEAN, AnswerText(long) PROVE CtxInv'
  <2>0. {} \in SUBSET Picture
    OBVIOUS
  <2>1. Storable(<<Block("assistant", {}, long)>>)
    BY <2>0, StorableBlock
  <2>2. /\ Stored(<<Block("assistant", {}, long)>>) /\ ctx_turn' = ctx_turn
        /\ ctx_records' = ctx_records /\ ctx_history' = <<>> /\ ctx_wake' = ctx_wake
    BY <1>4 DEF AnswerText, PromptIsGone, ctx_state
  <2> QED BY <1>0, <2>1, <2>2, StoringKeeps
<1>5. ASSUME NEW long \in BOOLEAN, RunCall(long) PROVE CtxInv'
  <2> DEFINE r == <<Round(NextOrdinal, long)>>
  <2>1. Storable(r)
    <3>1. <<>> \in Seq(Item) /\ DOMAIN <<>> = {}
      OBVIOUS
    <3>2. Storable(<<>> \o r)
      BY <1>0, <3>1, StorableCall
    <3>3. r \in Seq({Round(NextOrdinal, long)})
      OBVIOUS
    <3>4. <<>> \o r = r
      <4> HIDE DEF r
      <4> QED BY <3>3
    <3> QED BY <3>2, <3>4
  <2>2. r # <<>>
    OBVIOUS
  <2>3. /\ Stored(r) /\ ctx_turn' = ctx_turn /\ ctx_records' = ctx_records
        /\ ctx_history' = ctx_history /\ ctx_phase' \notin {"built", "ready"}
    BY <1>5 DEF RunCall, CallRan, ctx_prompt, ctx_state
  <2> HIDE DEF r
  <2> QED BY <1>0, <2>1, <2>2, <2>3, StoringKeeps
<1>6. ASSUME NEW n \in 1..MaxCalls, NEW preface \in BOOLEAN, AnswerCalls(n, preface)
      PROVE  CtxInv'
  <2>0. {} \in SUBSET Picture
    OBVIOUS
  <2> DEFINE items == IF preface THEN <<Block("assistant", {}, FALSE)>> ELSE <<>>
  <2>1. Storable(items)
    BY <2>0, StorableBlock, StorableNone
  <2>2. /\ Stored(items) /\ ctx_turn' = ctx_turn /\ ctx_records' = ctx_records
        /\ ctx_history' = <<>> /\ ctx_wake' = ctx_wake
    BY <1>6 DEF AnswerCalls, PromptIsGone, ctx_state
  <2> HIDE DEF items
  <2> QED BY <1>0, <2>1, <2>2, StoringKeeps
<1>7. ASSUME NEW ks \in SUBSET DOMAIN ctx_records, ReloadUnloadedSegments(ks)
      PROVE  CtxInv'
  BY <1>7, ReloadKeeps
<1>8. CASE UNCHANGED ctx_vars
  <2>1. /\ ctx_log' = ctx_log /\ ctx_turn' = ctx_turn /\ ctx_records' = ctx_records
        /\ ctx_history' = ctx_history /\ ctx_wake' = ctx_wake /\ ctx_phase' = ctx_phase
    BY <1>8 DEF ctx_vars, ctx_stored, ctx_prompt, ctx_state
  <2>2. LogInv'
    BY <1>0, <2>1 DEF LogInv, LogTyped, TurnsInOrder, FirstRounds, Unmarked, PicsInBlocks
  <2>3. BatchesAreTurns' /\ PlaceholdersCanBeReloaded'
    BY <2>1 DEF CtxInv, BatchesAreTurns, PlaceholdersCanBeReloaded
  <2> QED BY <1>0, <2>1, <2>2, <2>3 DEF CtxInv
<1> QED BY <1>1, <1>2, <1>3, <1>4, <1>5, <1>6, <1>7, <1>8 DEF CtxNext

(* The calls of two turns are never shown as one answer of the model,      *)
(* whatever the compression cut out between them                           *)
(* (_collect_consecutive_tool_rounds, _compress).                          *)
THEOREM BatchesHold == CtxSpec => []BatchesAreTurns
<1>1. CtxInv => BatchesAreTurns
  BY DEF CtxInv
<1> QED BY <1>1, CtxInitInv, CtxInvKept, PTL DEF CtxSpec

(* Every placeholder of a prompt stands for a record that can be reloaded, *)
(* also that of an image reloaded and unloaded once more                   *)
(* (append_unloaded_segment_record).                                       *)
THEOREM PlaceholdersHold == CtxSpec => []PlaceholdersCanBeReloaded
<1>1. CtxInv => PlaceholdersCanBeReloaded
  BY DEF CtxInv
<1> QED BY <1>1, CtxInitInv, CtxInvKept, PTL DEF CtxSpec

LEMMA LatestShown ==
    ASSUME NEW s \in Seq(Item), NEW h \in Seq(Item), NEW p \in 0..Len(s), Spared(h, s, p),
           NEW k \in DOMAIN s, k = p \/ \A j \in DOMAIN s : j > k => ~IsBlock(s[j])
    PROVE  \E j \in DOMAIN h : Whole(h[j], s[k])
<1> DEFINE m == LatestTurnSuffixLength(s)
<1>1. /\ DOMAIN s = 1..Len(s) /\ Len(s) \in Nat /\ DOMAIN h = 1..Len(h) /\ Len(h) \in Nat
      /\ k \in 1..Len(s)
  OBVIOUS
<1>2. /\ p <= Len(h) /\ m <= Len(h)
      /\ \A i \in 1..p : Whole(h[i], s[i])
      /\ \A i \in 0..(m - 1) : Whole(h[Len(h) - i], s[Len(s) - i])
  BY DEF Spared
<1>3. /\ m \in 0..Len(s)
      /\ m = Len(s) \/ (m >= 1 /\ IsBlock(s[Len(s) - m + 1]))
  BY SuffixOf
<1> HIDE DEF m
<1>4. CASE k = p
  <2>1. k \in 1..p /\ k \in DOMAIN h
    BY <1>1, <1>2, <1>4
  <2> QED BY <1>2, <2>1
<1>5. CASE \A j \in DOMAIN s : j > k => ~IsBlock(s[j])
  <2> DEFINE n == Len(s)
             l == Len(h)
             i == n - k
  <2>0. /\ n \in Nat /\ l \in Nat /\ k \in 1..n /\ m \in 0..n /\ m <= l
        /\ DOMAIN s = 1..n /\ DOMAIN h = 1..l
    BY <1>1, <1>2, <1>3
  <2> HIDE DEF n, l
  <2>1. n - m + 1 <= k
    <3>1. CASE m = n
      BY <2>0, <3>1
    <3>2. CASE m >= 1 /\ IsBlock(s[n - m + 1])
      <4>0. m >= 1
        BY <3>2
      <4> DEFINE b == n - m + 1
      <4>1. b \in Nat /\ b \in 1..n
        BY <2>0, <4>0
      <4>2. IsBlock(s[b])
        BY <3>2
      <4> HIDE DEF b
      <4>3. ~(b > k)
        BY <1>5, <2>0, <4>1, <4>2
      <4>4. b <= k
        BY <2>0, <4>1, <4>3
      <4> QED BY <4>4 DEF b
    <3> QED BY <1>3, <3>1, <3>2 DEF n
  <2>2. i \in 0..(m - 1) /\ n - i = k /\ l - i \in 1..l
    BY <2>0, <2>1
  <2> HIDE DEF i
  <2>3. Whole(h[l - i], s[n - i])
    BY <1>2, <2>2 DEF l, n
  <2> QED BY <2>0, <2>2, <2>3
<1> QED BY <1>4, <1>5

LEMMA LatestStep ==
    ASSUME CtxInv, BuildPrompt
    PROVE  LET window == LastOf(ctx_log, HistoryLimit)
               seen == IF ctx_user' = <<>> THEN window ELSE Front(window)
               latest == {k \in DOMAIN seen :
                             \A j \in DOMAIN seen : j > k => ~IsBlock(seen[j])}
               users == {k \in DOMAIN seen : ctx_sub /\ seen[k].by = "user"}
           IN  \A k \in latest \cup (IF users = {} THEN {} ELSE {Min(users)}) :
                   \E j \in DOMAIN ctx_history' : /\ ctx_history'[j].at = seen[k].at
                                                  /\ ctx_history'[j].long = seen[k].long
<1> DEFINE seen == IF ctx_user' = <<>> THEN LastOf(ctx_log, HistoryLimit)
                                       ELSE Front(LastOf(ctx_log, HistoryLimit))
           latest == {k \in DOMAIN seen : \A j \in DOMAIN seen : j > k => ~IsBlock(seen[j])}
           users == {k \in DOMAIN seen : ctx_sub /\ seen[k].by = "user"}
           prefix == IF ctx_sub THEN FirstUserMessageEnd(seen) ELSE 0
<1>1. seen = Seen
  BY Built
<1>2. /\ seen \in Seq(Item)
      /\ [history |-> ctx_history', records |-> ctx_records'] \in Sound(seen, prefix)
  BY <1>1, BuiltSound
<1> HIDE DEF seen
<1>3. prefix \in 0..Len(seen)
  BY <1>2, FirstUserIsBlock
<1>4. users # {} => Min(users) \in users /\ Min(users) = prefix
  <2>1. users \in SUBSET Nat
    BY <1>2
  <2>2. ASSUME users # {} PROVE Min(users) = prefix /\ Min(users) \in users
    <3>1. ctx_sub
      BY <2>2
    <3>2. users = {k \in DOMAIN seen : seen[k].by = "user"}
      BY <3>1
    <3>3. prefix = IF users = {} THEN 0 ELSE Min(users)
      BY <3>1, <3>2 DEF FirstUserMessageEnd
    <3> HIDE DEF users, prefix
    <3> QED BY <2>1, <2>2, <3>3, LeastIsMin
  <2> QED BY <2>2
<1>5. ctx_history' \in Seq(Item) /\ Spared(ctx_history', seen, prefix)
  <2> DEFINE c == [history |-> ctx_history', records |-> ctx_records']
  <2>1. c.history = ctx_history' /\ c \in Sound(seen, prefix)
    BY <1>2
  <2> HIDE DEF c, prefix
  <2> QED BY <2>1 DEF Sound, Compression
<1>6. ASSUME NEW k \in latest \cup (IF users = {} THEN {} ELSE {Min(users)})
      PROVE  /\ k \in DOMAIN seen
             /\ k = prefix \/ \A j \in DOMAIN seen : j > k => ~IsBlock(seen[j])
  <2>1. CASE k \in latest
    BY <2>1
  <2>2. CASE users # {} /\ k = Min(users)
    <3>1. users \subseteq DOMAIN seen
      OBVIOUS
    <3> HIDE DEF users, prefix
    <3> QED BY <1>4, <2>2, <3>1
  <2> QED BY <1>6, <2>1, <2>2
<1>7. ASSUME NEW k \in latest \cup (IF users = {} THEN {} ELSE {Min(users)})
      PROVE  \E j \in DOMAIN ctx_history' : /\ ctx_history'[j].at = seen[k].at
                                            /\ ctx_history'[j].long = seen[k].long
  <2>1. k \in DOMAIN seen /\ (k = prefix \/ \A j \in DOMAIN seen : j > k => ~IsBlock(seen[j]))
    BY <1>6
  <2> HIDE DEF prefix, latest, users
  <2>2. PICK j \in DOMAIN ctx_history' : Whole(ctx_history'[j], seen[k])
    BY <1>2, <1>3, <1>5, <2>1, LatestShown
  <2> QED BY <2>2 DEF Whole, Origin
<1> QED BY <1>7 DEF seen

(* The rounds since the last message before the user turn, that message,   *)
(* and the instruction of a sub-session are shown whole, whatever          *)
(* compress_turn_state takes (_latest_turn_suffix_length,                  *)
(* _first_user_message_exclusive_end).                                     *)
THEOREM LatestIsWhole == CtxSpec => LatestBatchIsWhole
<1> DEFINE window == LastOf(ctx_log, HistoryLimit)
           seen == IF ctx_user' = <<>> THEN window ELSE Front(window)
           latest == {k \in DOMAIN seen : \A j \in DOMAIN seen : j > k => ~IsBlock(seen[j])}
           users == {k \in DOMAIN seen : ctx_sub /\ seen[k].by = "user"}
           A == ctx_phase = "idle" /\ ctx_phase' = "built" =>
                  \A k \in latest \cup (IF users = {} THEN {} ELSE {Min(users)}) :
                      \E j \in DOMAIN ctx_history' : /\ ctx_history'[j].at = seen[k].at
                                                     /\ ctx_history'[j].long = seen[k].long
<1>1. CtxInv /\ [CtxNext]_ctx_vars => [A]_ctx_vars
  <2> SUFFICES ASSUME CtxInv, [CtxNext]_ctx_vars, ctx_phase = "idle", ctx_phase' = "built"
               PROVE  A
    OBVIOUS
  <2>1. BuildPrompt
    <3>1. ~UNCHANGED ctx_vars
      BY DEF ctx_vars
    <3> QED BY <3>1 DEF CtxNext, UserWrites, RepairGap, AnswerText, AnswerCalls, RunCall,
                        ReloadUnloadedSegments, CallRan
  <2> QED BY <2>1, LatestStep
<1>2. [][A]_ctx_vars => LatestBatchIsWhole
  BY DEF LatestBatchIsWhole
<1> HIDE DEF A
<1> QED BY <1>1, <1>2, CtxInitInv, CtxInvKept, PTL DEF CtxSpec
=============================================================================
