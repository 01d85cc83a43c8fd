-------------------------- MODULE Subtasks_proofs ---------------------------
(***************************************************************************)
(* The registry of sub-tasks with its barrier, and the calls of            *)
(* delegate_task and message_subtask with their failures, for any set of   *)
(* tasks and any number of calls.                                          *)
(***************************************************************************)
EXTENDS SubtaskBarrier, Delegation, TLAPS

(***************************************************************************)
(* The barrier.  BatchInv is inductive; that a finished batch is cared for *)
(* follows from it when writes do not fail.                                *)
(***************************************************************************)

BatchInv == OnlyCurrentBatchRuns /\ CancelMeansCancelled

LEMMA Actors == /\ Main \in Actor
                /\ Task \subseteq Actor
                /\ \A t \in Task : t # Main
  BY BarrierAssumption DEF Actor

(* Where a call or turn may go to.                                         *)
LEMMA GotoTypes ==
  ASSUME TypeOK, NEW a \in Actor, NEW to \in MainPC \cup TaskPC, Goto(a, to)
  PROVE  /\ pc' \in [Actor -> MainPC \cup TaskPC]
         /\ pc'[a] = to
         /\ \A b \in Actor : b # a => pc'[b] = pc[b]
  BY DEF TypeOK, Goto

(* The barrier types what it changes.                                      *)
LEMMA BarrierTypes ==
  ASSUME TypeOK, NEW a \in Actor, NEW to \in {"tools", "asleep"}, Barrier(a, to)
  PROVE  /\ pc' \in [Actor -> MainPC \cup TaskPC]
         /\ Addressing' => Addressing
         /\ back' \in [Actor -> {"tools", "asleep"}]
         /\ told' \in [Actor -> [batch : Nat, tasks : SUBSET Task]]
<1>1. to \in MainPC \cup TaskPC /\ "announcing" \in MainPC \cup TaskPC
  BY DEF MainPC, TaskPC
<1>2. pc' \in [Actor -> MainPC \cup TaskPC]
  BY <1>1, GotoTypes DEF Barrier
<1>5. Addressing' => Addressing
  BY <1>1, GotoTypes, Actors DEF Barrier, Addressing
<1>3. [batch |-> current_batch, tasks |-> Records(current_batch) \cap worded]
        \in [batch : Nat, tasks : SUBSET Task]
  BY DEF TypeOK, Records
<1>4. /\ back' \in [Actor -> {"tools", "asleep"}]
      /\ told' \in [Actor -> [batch : Nat, tasks : SUBSET Task]]
  BY <1>3 DEF Barrier, TypeOK
<1> QED BY <1>2, <1>4, <1>5

LEMMA FailureTypes ==
  ASSUME TypeOK, NEW t \in Task, AfterFailure(t)
  PROVE  /\ pc' \in [Actor -> MainPC \cup TaskPC]
         /\ Addressing' => Addressing
         /\ back' \in [Actor -> {"tools", "asleep"}]
         /\ told' \in [Actor -> [batch : Nat, tasks : SUBSET Task]]
<1>1. CASE MustNotify(t)
  BY <1>1, GotoTypes, Actors DEF AfterFailure, TaskPC, TypeOK, Addressing
<1>2. CASE ~MustNotify(t)
  BY <1>2, BarrierTypes, Actors DEF AfterFailure
<1> QED BY <1>1, <1>2

(* mark_terminal leaves a known status, whatever word it is given.         *)
LEMMA MarkTypes ==
  ASSUME TypeOK, NEW t \in Task, NEW st, NEW say \in BOOLEAN, Mark(t, st, say)
  PROVE  /\ status' \in [Task -> {"none", "running"} \cup Terminal]
         /\ status'[t] \in Terminal
         /\ \A u \in Task : u # t => status'[u] = status[u]
         /\ worded' \in SUBSET Task
         /\ owed' \in SUBSET Task
<1>1. Normalised(st) \in Terminal
  BY DEF Normalised, Terminal
<1> QED BY <1>1 DEF Mark, TypeOK

(* A batch that is joined is the current one or the next.                  *)
LEMMA JoinTypes ==
  ASSUME TypeOK, JoinBatch
  PROVE  /\ current_batch' \in Nat
         /\ current_batch' = IF AllTerminal(current_batch) THEN current_batch + 1
                                                           ELSE current_batch
         /\ current_batch' >= current_batch
  BY DEF TypeOK, JoinBatch
-----------------------------------------------------------------------------
(* Every variable keeps its type.                                          *)
LEMMA TypeStep == TypeOK /\ [Next]_vars => TypeOK'
<1> SUFFICES ASSUME TypeOK, [Next]_vars PROVE TypeOK'
  OBVIOUS
<1> USE Actors, BarrierAssumption
<1> USE DEF vars, registry, inbox, history, Quiet
<1>1. ASSUME NEW t \in Task, Delegate(t) PROVE TypeOK'
  <2>1. current_batch' \in Nat
    BY <1>1, JoinTypes DEF Delegate
  <2>2. /\ pc' \in [Actor -> MainPC \cup TaskPC]
        /\ target' \in Task
    BY <1>1, GotoTypes DEF Delegate, MainPC, Addressing
  <2> QED BY <1>1, <2>1, <2>2 DEF Delegate, Calls, TypeOK, Addressing
<1>2. ASSUME NEW t \in Task, Message(t) PROVE TypeOK'
  <2>1. /\ pc' \in [Actor -> MainPC \cup TaskPC]
        /\ target' \in Task
    BY <1>2, GotoTypes DEF Message, MainPC, Addressing
  <2>2. /\ current_batch' \in Nat
        /\ batch' \in [Task -> Nat]
        /\ worded' \in SUBSET Task
    <3>1. CASE status[t] \in Terminal
      BY <1>2, <3>1, JoinTypes DEF Message, Reopen, TypeOK, Addressing
    <3>2. CASE status[t] \notin Terminal
      BY <1>2, <3>2 DEF Message, TypeOK
    <3> QED BY <3>1, <3>2
  <2>3. /\ status' \in [Task -> {"none", "running"} \cup Terminal]
        /\ batch'[t] \in Nat
        /\ emitted' \in SUBSET Nat
        /\ cancel' \in SUBSET Task
        /\ calls' \in 0..MaxCalls
    <3>1. status' = [status EXCEPT ![t] = "running"] /\ calls' = calls + 1
      BY <1>2 DEF Message, Calls
    <3>2. calls < MaxCalls /\ cancel' = cancel \ {t}
      BY <1>2 DEF Message, Calls, ClearCancel
    <3>3. emitted' \subseteq emitted
      BY <1>2 DEF Message
    <3> QED BY <2>2, <3>1, <3>2, <3>3 DEF TypeOK
  <2> QED BY <1>2, <2>1, <2>2, <2>3 DEF Message, TypeOK
<1>3. ASSUME NEW t \in Task, Kill(t) PROVE TypeOK'
  <2>1. /\ pc' \in [Actor -> MainPC \cup TaskPC]
        /\ Addressing' => Addressing
    BY <1>3, GotoTypes DEF Kill, MainPC, Addressing
  <2>2. /\ status' \in [Task -> {"none", "running"} \cup Terminal]
        /\ worded' \in SUBSET Task
        /\ owed' \in SUBSET Task
    BY <1>3, MarkTypes DEF Kill
  <2>3. calls' \in 0..MaxCalls /\ target' \in Actor /\ ~Addressing'
    BY <1>3, GotoTypes DEF Kill, Calls, TypeOK, Addressing, MainPC
  <2> QED BY <1>3, <2>1, <2>2, <2>3 DEF Kill, TypeOK
<1>4. ASSUME AppendMessage PROVE TypeOK'
  <2>1. /\ pc' \in [Actor -> MainPC \cup TaskPC]
        /\ Addressing' => Addressing
    BY <1>4, GotoTypes DEF AppendMessage, MainPC, Addressing
  <2> QED BY <1>4, <2>1 DEF AppendMessage, TypeOK, Addressing
<1>5. ASSUME CallFails PROVE TypeOK'
  <2>1. /\ pc' \in [Actor -> MainPC \cup TaskPC]
        /\ Addressing' => Addressing
    BY <1>5, GotoTypes DEF CallFails, MainPC, Addressing
  <2> QED BY <1>5, <2>1 DEF CallFails, TypeOK, Addressing
<1>6. ASSUME Post PROVE TypeOK'
  <2>1. /\ pc' \in [Actor -> MainPC \cup TaskPC]
        /\ Addressing' => Addressing
    BY <1>6, GotoTypes DEF Post, MainPC, Addressing
  <2> QED BY <1>6, <2>1 DEF Post, TypeOK, Addressing
<1>7. ASSUME KillDone PROVE TypeOK'
  BY <1>7, BarrierTypes DEF KillDone, TypeOK, Addressing
<1>8. ASSUME NEW t \in Task, Wake(t) PROVE TypeOK'
  <2>1. /\ pc' \in [Actor -> MainPC \cup TaskPC]
        /\ Addressing' => Addressing
    BY <1>8, GotoTypes DEF Wake, TaskPC, Addressing
  <2> QED BY <1>8, <2>1 DEF Wake, TypeOK, Addressing
<1>9. ASSUME NEW t \in Task, Skip(t) PROVE TypeOK'
  <2>1. /\ pc' \in [Actor -> MainPC \cup TaskPC]
        /\ Addressing' => Addressing
    BY <1>9, GotoTypes DEF Skip, TaskPC, Addressing
  <2> QED BY <1>9, <2>1 DEF Skip, TypeOK, Addressing
<1>10. ASSUME NEW t \in Task, Think(t) PROVE TypeOK'
  <2>1. /\ pc' \in [Actor -> MainPC \cup TaskPC]
        /\ Addressing' => Addressing
    BY <1>10, GotoTypes DEF Think, TaskPC, Addressing
  <2> QED BY <1>10, <2>1 DEF Think, TypeOK, Addressing
<1>11. ASSUME NEW t \in Task, Answer(t) PROVE TypeOK'
  <2>1. /\ pc' \in [Actor -> MainPC \cup TaskPC]
        /\ Addressing' => Addressing
    BY <1>11, GotoTypes DEF Answer, TaskPC, Addressing
  <2> QED BY <1>11, <2>1 DEF Answer, TypeOK, Addressing
<1>12. ASSUME NEW t \in Task, GiveUp(t) PROVE TypeOK'
  <2>1. /\ pc' \in [Actor -> MainPC \cup TaskPC]
        /\ Addressing' => Addressing
    BY <1>12, GotoTypes DEF GiveUp, TaskPC, Addressing
  <2> QED BY <1>12, <2>1 DEF GiveUp, TypeOK, Addressing
<1>13. ASSUME NEW t \in Task, Text(t) PROVE TypeOK'
  <2>1. CASE CanFinish(t)
    <3>1. /\ pc' \in [Actor -> MainPC \cup TaskPC]
          /\ Addressing' => Addressing
      BY <1>13, <2>1, GotoTypes DEF Text, TaskPC, Addressing
    <3> QED BY <1>13, <2>1, <3>1, MarkTypes DEF Text, TypeOK, Addressing
  <2>2. CASE ~CanFinish(t)
    BY <1>13, <2>2, BarrierTypes DEF Text, TypeOK, Addressing
  <2> QED BY <2>1, <2>2
<1>14. ASSUME NEW t \in Task, TextDone(t) PROVE TypeOK'
  BY <1>14, BarrierTypes DEF TextDone, TypeOK, Addressing
<1>15. ASSUME NEW t \in Task, Report(t) PROVE TypeOK'
  <2>1. /\ pc' \in [Actor -> MainPC \cup TaskPC]
        /\ Addressing' => Addressing
    BY <1>15, GotoTypes DEF Report, TaskPC, Addressing
  <2>2. PICK st \in {"completed", "failed", "done"} : Mark(t, st, TRUE)
    BY <1>15 DEF Report
  <2> QED BY <1>15, <2>1, <2>2, MarkTypes DEF Report, ClearCancel, TypeOK, Addressing
<1>16. ASSUME NEW t \in Task, ReportDone(t) PROVE TypeOK'
  BY <1>16, BarrierTypes DEF ReportDone, TypeOK, Addressing
<1>17. ASSUME NEW t \in Task, FollowUp(t) PROVE TypeOK'
  <2>1. CASE status[t] \in Terminal
    BY <1>17, <2>1, BarrierTypes DEF FollowUp, TypeOK, Addressing
  <2>2. CASE status[t] \notin Terminal
    <3>1. /\ pc' \in [Actor -> MainPC \cup TaskPC]
          /\ Addressing' => Addressing
      BY <1>17, <2>2, GotoTypes DEF FollowUp, TaskPC, Addressing
    <3> QED BY <1>17, <2>2, <3>1 DEF FollowUp, TypeOK, Addressing
  <2> QED BY <2>1, <2>2
<1>18. ASSUME NEW t \in Task, Fail(t) PROVE TypeOK'
  <2>1. CASE CanFinish(t)
    <3>1. /\ pc' \in [Actor -> MainPC \cup TaskPC]
          /\ Addressing' => Addressing
      BY <1>18, <2>1, GotoTypes DEF Fail, TaskPC, Addressing
    <3>2. PICK say \in BOOLEAN : Mark(t, "failed", say)
      BY <1>18, <2>1 DEF Fail
    <3> QED BY <1>18, <2>1, <3>1, <3>2, MarkTypes DEF Fail, TypeOK, Addressing
  <2>2. CASE ~CanFinish(t)
    BY <1>18, <2>2, FailureTypes DEF Fail, TypeOK, Addressing
  <2> QED BY <2>1, <2>2
<1>19. ASSUME NEW t \in Task, FailDone(t) PROVE TypeOK'
  BY <1>19, FailureTypes DEF FailDone, TypeOK, Addressing
<1>20. ASSUME NEW t \in Task, Notify(t) PROVE TypeOK'
  BY <1>20, BarrierTypes DEF Notify, TypeOK, Addressing
<1>21. ASSUME NEW a \in Actor, Announcement(a) PROVE TypeOK'
  <2>1. back[a] \in {"tools", "asleep"} /\ back[a] \in MainPC \cup TaskPC
    BY DEF TypeOK, MainPC, TaskPC
  <2>2. /\ pc' \in [Actor -> MainPC \cup TaskPC]
        /\ Addressing' => Addressing
    <3>1. Goto(a, back[a])
      BY <1>21 DEF Announcement, Announce, AnnounceFails
    <3> QED BY <2>1, <3>1, GotoTypes DEF Addressing
  <2>3. told' \in [Actor -> [batch : Nat, tasks : SUBSET Task]]
    <3>1. NoBatch \in [batch : Nat, tasks : SUBSET Task]
      BY DEF NoBatch
    <3> QED BY <1>21, <3>1 DEF Announcement, Announce, AnnounceFails, TypeOK
  <2>4. told[a].batch \in Nat
    BY DEF TypeOK
  <2>5. CASE Announce(a)
    <3>1. /\ emitted' \in SUBSET Nat
          /\ announced' \in SUBSET Nat
          /\ owed' \in SUBSET Task
      BY <2>5, <2>4 DEF Announce, TypeOK
    <3> QED BY <2>5, <2>2, <2>3, <3>1 DEF Announce, TypeOK, Addressing
  <2>6. CASE AnnounceFails(a)
    BY <2>6, <2>2, <2>3 DEF AnnounceFails, TypeOK, Addressing
  <2> QED BY <1>21, <2>5, <2>6 DEF Announcement
<1>22. ASSUME NEW t \in Task, ReportFails(t) PROVE TypeOK'
  <2>1. /\ pc' \in [Actor -> MainPC \cup TaskPC]
        /\ Addressing' => Addressing
    BY <1>22, GotoTypes DEF ReportFails, TaskPC, Addressing
  <2> QED BY <1>22, <2>1 DEF ReportFails, TypeOK, Addressing
<1>23. CASE UNCHANGED vars
  BY <1>23 DEF TypeOK, Addressing
<1> QED
  BY <1>1, <1>2, <1>3, <1>4, <1>5, <1>6, <1>7, <1>8, <1>9, <1>10, <1>11,
     <1>12, <1>13, <1>14, <1>15, <1>16, <1>17, <1>18, <1>19, <1>20, <1>21,
     <1>22, <1>23
  DEF Next, ToolCall, MainGoesOn, TurnGoesOn

LEMMA TypeInit == Init => TypeOK
  BY BarrierAssumption
  DEF Init, TypeOK, Actor, MainPC, TaskPC, Addressing, NoBatch
-----------------------------------------------------------------------------
(* The steps that touch the registry: every other one leaves the statuses, *)
(* batches and requests alone, whether or not it reaches the barrier.      *)
Settles(t) == Kill(t) \/ Text(t) \/ Report(t) \/ Fail(t)

Untouched == UNCHANGED <<status, batch, current_batch, cancel>>

LEMMA RegistrySteps ==
  ASSUME [Next]_vars
  PROVE  \/ \E t \in Task : Delegate(t) \/ Message(t) \/ Settles(t)
         \/ Untouched
<1>1. ASSUME NEW t \in Task, TurnGoesOn(t)
      PROVE  Settles(t) \/ Untouched
  BY <1>1
  DEF TurnGoesOn, Settles, Untouched, registry, Wake, Skip, Think, Answer,
      GiveUp, TextDone, ReportDone, ReportFails, FollowUp, FailDone, Notify
<1>2. ASSUME MainGoesOn PROVE Untouched
  BY <1>2
  DEF MainGoesOn, Untouched, registry, AppendMessage, CallFails,
      Post, KillDone
<1>3. ASSUME NEW a \in Actor, Announcement(a) PROVE Untouched
  BY <1>3 DEF Announcement, Untouched, registry, Announce, AnnounceFails
<1>4. CASE UNCHANGED vars
  BY <1>4 DEF vars, registry, Untouched
<1> QED BY <1>1, <1>2, <1>3, <1>4 DEF Next, ToolCall, Settles

(* A task is settled once: its turn and a kill look at the record first.   *)
LEMMA SettlesTypes ==
  ASSUME TypeOK, NEW t \in Task, Settles(t)
  PROVE  /\ status' \in [Task -> {"none", "running"} \cup Terminal]
         /\ \A u \in Task : u # t => status'[u] = status[u]
         /\ status'[t] # status[t] => /\ status[t] = "running"
                                     /\ status'[t] \in Terminal
         /\ UNCHANGED <<batch, current_batch>>
         /\ \A u \in cancel' : \/ u \in cancel
                               \/ u = t /\ status'[t] = "cancelled"
<1>1. CASE Kill(t)
  BY <1>1, MarkTypes DEF Kill, Mark, Normalised, Terminal, TypeOK
<1>2. CASE Text(t)
  <2>1. CASE CanFinish(t)
    BY <1>2, <2>1, MarkTypes DEF Text, CanFinish
  <2>2. CASE ~CanFinish(t)
    BY <1>2, <2>2 DEF Text, TypeOK
  <2> QED BY <2>1, <2>2
<1>3. CASE Report(t)
  BY <1>3, MarkTypes DEF Report, CanFinish, ClearCancel
<1>4. CASE Fail(t)
  <2>1. CASE CanFinish(t)
    BY <1>4, <2>1, MarkTypes DEF Fail, CanFinish
  <2>2. CASE ~CanFinish(t)
    BY <1>4, <2>2 DEF Fail, TypeOK
  <2> QED BY <2>1, <2>2
<1> QED BY <1>1, <1>2, <1>3, <1>4 DEF Settles

(* Delegating and reopening only open a new batch when nobody runs in the  *)
(* current one, and only for the task they start.                          *)
LEMMA BatchStep == TypeOK /\ BatchInv /\ [Next]_vars => BatchInv'
<1> SUFFICES ASSUME TypeOK, BatchInv, [Next]_vars PROVE BatchInv'
  OBVIOUS
<1> USE DEF BatchInv, OnlyCurrentBatchRuns, CancelMeansCancelled
<1>1. ASSUME NEW t \in Task, JoinBatch, status'[t] = "running",
             batch'[t] = current_batch',
             \A u \in Task : u # t => /\ status'[u] = status[u]
                                     /\ batch'[u] = batch[u]
      PROVE  OnlyCurrentBatchRuns'
  <2>1. CASE AllTerminal(current_batch)
    <3>1. \A u \in Task : status[u] # "running"
      BY <2>1 DEF AllTerminal, Records, Terminal, TypeOK
    <3> QED BY <1>1, <3>1, JoinTypes DEF TypeOK
  <2>2. CASE ~AllTerminal(current_batch)
    BY <1>1, <2>2, JoinTypes DEF TypeOK
  <2> QED BY <2>1, <2>2
<1>2. ASSUME NEW t \in Task, Delegate(t) PROVE BatchInv'
  <2>1. /\ JoinBatch
        /\ status' = [status EXCEPT ![t] = "running"]
        /\ batch' = [batch EXCEPT ![t] = current_batch']
        /\ cancel' = cancel /\ status[t] = "none"
    BY <1>2 DEF Delegate
  <2>2. OnlyCurrentBatchRuns'
    BY <1>1, <2>1 DEF TypeOK
  <2>3. CancelMeansCancelled'
    BY <2>1 DEF TypeOK
  <2> QED BY <2>2, <2>3
<1>3. ASSUME NEW t \in Task, Message(t) PROVE BatchInv'
  <2>1. status' = [status EXCEPT ![t] = "running"] /\ cancel' = cancel \ {t}
    BY <1>3 DEF Message, ClearCancel
  <2>2. CancelMeansCancelled'
    BY <2>1 DEF TypeOK
  <2>3. CASE status[t] \in Terminal
    <3>1. JoinBatch /\ batch' = [batch EXCEPT ![t] = current_batch']
      BY <1>3, <2>3 DEF Message, Reopen
    <3> QED BY <1>1, <2>1, <2>2, <3>1 DEF TypeOK
  <2>4. CASE status[t] \notin Terminal
    <3>1. status[t] = "running" /\ UNCHANGED <<batch, current_batch>>
      BY <1>3, <2>4 DEF Message, TypeOK
    <3> QED BY <2>1, <2>2, <3>1 DEF TypeOK
  <2> QED BY <2>3, <2>4
<1>4. ASSUME NEW t \in Task, Settles(t) PROVE BatchInv'
  <2>1. OnlyCurrentBatchRuns'
    BY <1>4, SettlesTypes DEF Terminal
  <2>2. CancelMeansCancelled'
    BY <1>4, SettlesTypes DEF Terminal, TypeOK
  <2> QED BY <2>1, <2>2
<1>5. CASE Untouched
  BY <1>5 DEF Untouched
<1> QED BY <1>2, <1>3, <1>4, <1>5, RegistrySteps

LEMMA BatchInit == Init => BatchInv
  BY DEF Init, BatchInv, OnlyCurrentBatchRuns, CancelMeansCancelled

(* The registry, the turns and the announcements are well typed.           *)
THEOREM BarrierTypesHold == SafeSpec => []TypeOK
  BY TypeInit, TypeStep, PTL DEF SafeSpec

LEMMA BatchInvariant == SafeSpec => [](TypeOK /\ BatchInv)
<1>1. Init => TypeOK /\ BatchInv
  BY TypeInit, BatchInit
<1>2. TypeOK /\ BatchInv /\ [Next]_vars => (TypeOK /\ BatchInv)'
  BY TypeStep, BatchStep
<1> QED BY <1>1, <1>2, PTL DEF SafeSpec

(* The barrier never has to look at an older batch for a running task,     *)
(* although it looks only at the current one (is_all_subtasks_terminal).   *)
THEOREM OnlyTheCurrentBatchRuns == SafeSpec => []OnlyCurrentBatchRuns
  BY BatchInvariant, PTL DEF BatchInv

(* No resumed or finished task carries a stale request to cancel it.       *)
THEOREM RequestsAreFresh == SafeSpec => []CancelMeansCancelled
  BY BatchInvariant, PTL DEF BatchInv

(* A verdict stands: only message_subtask takes a terminal status away.    *)
THEOREM VerdictsStand == SafeSpec => OnlyMessagesReopen
<1> DEFINE A == \A t \in Task : status[t] \in Terminal /\ status'[t] # status[t]
                  => pc[Main] = "tools" /\ pc'[Main] = "messaging"
<1>1. ASSUME TypeOK, [Next]_vars PROVE [A]_vars
  <2>1. ASSUME NEW t \in Task, Delegate(t) PROVE A
    BY <1>1, <2>1 DEF Delegate, Terminal, TypeOK
  <2>2. ASSUME NEW t \in Task, Message(t) PROVE A
    BY <1>1, <2>2, Actors DEF Message, Calls, Goto, TypeOK
  <2>3. ASSUME NEW t \in Task, Settles(t) PROVE A
    BY <1>1, <2>3, SettlesTypes DEF Terminal
  <2>4. CASE Untouched
    BY <2>4 DEF Untouched
  <2> QED BY <1>1, <2>1, <2>2, <2>3, <2>4, RegistrySteps
<1> QED BY <1>1, BarrierTypesHold, PTL DEF OnlyMessagesReopen, SafeSpec
-----------------------------------------------------------------------------
(* A finished batch is not forgotten when writes do not fail: whoever      *)
(* makes it finish is on the way to the barrier, and whoever reaches the   *)
(* barrier while it is ready goes on to announce it.                       *)
Cares(a) == \/ pc[a] \in {"texted", "reported", "failing", "notifying", "killed"}
            \/ pc[a] = "announcing" /\ told[a].batch = current_batch

(* What BarrierReady is made of.                                           *)
SameBarrier == UNCHANGED <<status, batch, worded, current_batch, emitted>>

LEMMA SameBarrierReady ==
  ASSUME SameBarrier PROVE BarrierReady' <=> BarrierReady
  BY DEF SameBarrier, BarrierReady, AllTerminal, Records

(* Whoever reaches the barrier takes care of the batch.                    *)
LEMMA BarrierCares ==
  ASSUME TypeOK, NEW a \in Actor, NEW to, Barrier(a, to), SameBarrier
  PROVE  BarrierReady' => Cares(a)'
<1>1. CASE BarrierReady
  <2>1. pc'[a] = "announcing"
    BY <1>1 DEF Barrier, Goto, TypeOK
  <2>2. told'[a].batch = current_batch
    BY <1>1 DEF Barrier, TypeOK
  <2> QED BY <2>1, <2>2 DEF Cares, SameBarrier
<1>2. CASE ~BarrierReady
  BY <1>2, SameBarrierReady
<1> QED BY <1>1, <1>2

(* The others care as they did.                                            *)
LEMMA OthersCare ==
  ASSUME TypeOK, NEW a \in Actor, NEW to, Goto(a, to), UNCHANGED told,
         SameBarrier, ~Cares(a), CurrentBatchIsCared
  PROVE  CurrentBatchIsCared'
<1> SUFFICES ASSUME BarrierReady' PROVE \E b \in Actor : Cares(b)'
  BY DEF CurrentBatchIsCared, Cares
<1>1. PICK b \in Actor : Cares(b)
  BY SameBarrierReady DEF CurrentBatchIsCared, Cares
<1>2. Cares(b)'
  BY <1>1 DEF Goto, Cares, TypeOK, SameBarrier
<1> QED BY <1>2

LEMMA FailureCares ==
  ASSUME TypeOK, NEW t \in Task, AfterFailure(t), SameBarrier
  PROVE  BarrierReady' => Cares(t)'
<1>1. CASE MustNotify(t)
  BY <1>1, Actors DEF AfterFailure, Goto, Cares, TypeOK
<1>2. CASE ~MustNotify(t)
  BY <1>2, Actors, BarrierCares DEF AfterFailure
<1> QED BY <1>1, <1>2

LEMMA CareStep ==
  ASSUME IoMayFail = FALSE
  PROVE  TypeOK /\ BatchInv /\ CurrentBatchIsCared /\ [Next]_vars
           => CurrentBatchIsCared'
<1> SUFFICES ASSUME TypeOK, BatchInv, CurrentBatchIsCared, [Next]_vars
             PROVE  CurrentBatchIsCared'
  OBVIOUS
<1> USE Actors
<1> USE DEF vars, registry, inbox, history, Quiet
<1>cares. ASSUME NEW a \in Actor, BarrierReady' => Cares(a)'
          PROVE  CurrentBatchIsCared'
  BY <1>cares DEF CurrentBatchIsCared, Cares
<1>starts. ASSUME NEW t \in Task, status'[t] = "running",
                  batch'[t] = current_batch'
           PROVE  CurrentBatchIsCared'
  BY <1>starts DEF CurrentBatchIsCared, BarrierReady, AllTerminal, Records,
                   Terminal
<1>1. ASSUME NEW t \in Task, Delegate(t) PROVE CurrentBatchIsCared'
  BY <1>1, <1>starts DEF Delegate, TypeOK
<1>2. ASSUME NEW t \in Task, Message(t) PROVE CurrentBatchIsCared'
  <2>1. status'[t] = "running"
    BY <1>2 DEF Message, TypeOK
  <2>2. batch'[t] = current_batch'
    <3>1. CASE status[t] \in Terminal
      BY <1>2, <3>1 DEF Message, Reopen, TypeOK
    <3>2. CASE status[t] \notin Terminal
      BY <1>2, <3>2 DEF Message, TypeOK, BatchInv, OnlyCurrentBatchRuns
    <3> QED BY <3>1, <3>2
  <2> QED BY <2>1, <2>2, <1>starts
<1>3. ASSUME NEW t \in Task, Kill(t) PROVE CurrentBatchIsCared'
  BY <1>3, <1>cares DEF Kill, Goto, Cares, TypeOK
<1>4. ASSUME NEW t \in Task, Text(t) PROVE CurrentBatchIsCared'
  <2>1. CASE CanFinish(t)
    BY <1>4, <2>1, <1>cares DEF Text, Goto, Cares, TypeOK
  <2>2. CASE ~CanFinish(t)
    BY <1>4, <2>2, <1>cares, BarrierCares DEF Text, SameBarrier
  <2> QED BY <2>1, <2>2
<1>5. ASSUME NEW t \in Task, Report(t) PROVE CurrentBatchIsCared'
  BY <1>5, <1>cares DEF Report, Goto, Cares, TypeOK
<1>6. ASSUME NEW t \in Task, Fail(t) PROVE CurrentBatchIsCared'
  <2>1. CASE CanFinish(t)
    BY <1>6, <2>1, <1>cares DEF Fail, Goto, Cares, TypeOK
  <2>2. CASE ~CanFinish(t)
    BY <1>6, <2>2, <1>cares, FailureCares DEF Fail, SameBarrier
  <2> QED BY <2>1, <2>2
<1>7. ASSUME NEW t \in Task, TextDone(t) \/ ReportDone(t) \/ Notify(t)
      PROVE  CurrentBatchIsCared'
  BY <1>7, <1>cares, BarrierCares DEF TextDone, ReportDone, Notify, SameBarrier
<1>8. ASSUME NEW t \in Task, FailDone(t) PROVE CurrentBatchIsCared'
  BY <1>8, <1>cares, FailureCares DEF FailDone, SameBarrier
<1>9. ASSUME KillDone PROVE CurrentBatchIsCared'
  BY <1>9, <1>cares, BarrierCares DEF KillDone, SameBarrier
<1>10. ASSUME NEW t \in Task, FollowUp(t) PROVE CurrentBatchIsCared'
  <2>1. CASE status[t] \in Terminal
    BY <1>10, <2>1, <1>cares, BarrierCares DEF FollowUp, SameBarrier
  <2>2. CASE status[t] \notin Terminal
    BY <1>10, <2>2, OthersCare DEF FollowUp, SameBarrier, Cares
  <2> QED BY <2>1, <2>2
<1>11. ASSUME NEW t \in Task,
              Wake(t) \/ Skip(t) \/ Think(t) \/ Answer(t) \/ GiveUp(t)
       PROVE  CurrentBatchIsCared'
  BY <1>11, OthersCare
  DEF Wake, Skip, Think, Answer, GiveUp, SameBarrier, Cares
<1>12. ASSUME AppendMessage \/ Post
       PROVE  CurrentBatchIsCared'
  BY <1>12, OthersCare
  DEF AppendMessage, Post, SameBarrier, Cares
<1>13. ASSUME NEW a \in Actor, Announcement(a) PROVE CurrentBatchIsCared'
  BY <1>13
  DEF Announcement, Announce, AnnounceFails, CurrentBatchIsCared, BarrierReady
<1>14. CASE UNCHANGED vars
  BY <1>14 DEF CurrentBatchIsCared, BarrierReady, AllTerminal, Records
<1>15. ASSUME CallFails \/ \E t \in Task : ReportFails(t)
       PROVE  FALSE
  BY <1>15 DEF CallFails, ReportFails
<1> QED
  BY <1>1, <1>2, <1>3, <1>4, <1>5, <1>6, <1>7, <1>8, <1>9, <1>10, <1>11,
     <1>12, <1>13, <1>14, <1>15
  DEF Next, ToolCall, MainGoesOn, TurnGoesOn

(* No interleaving of the ends of turns, kills, reports and new tasks      *)
(* leaves the current batch finished and unannounced with nobody about to  *)
(* reach publish_subtask_barrier_if_ready.                                 *)
THEOREM FinishedBatchIsCared ==
  ASSUME IoMayFail = FALSE
  PROVE  SafeSpec => []CurrentBatchIsCared
<1>1. Init => CurrentBatchIsCared
  BY DEF Init, CurrentBatchIsCared, BarrierReady, AllTerminal, Records
<1>2. TypeOK /\ BatchInv /\ CurrentBatchIsCared /\ [Next]_vars
        => CurrentBatchIsCared'
  BY CareStep
<1> QED BY <1>1, <1>2, BatchInvariant, PTL DEF SafeSpec

(***************************************************************************)
(* Delegation: OrphansAreKnown for any number of sub-sessions and          *)
(* attachments.  With the types it is inductive: a step that takes from a  *)
(* running task what would wake it has left a cause, or is followed by     *)
(* another step of the same call.                                          *)
(***************************************************************************)

DelInv == DelTypeOK /\ OrphansAreKnown

LEMMA DelInvInit == DelInit => DelInv
  BY DelegationAssumption
     DEF DelInit, DelInv, DelTypeOK, OrphansAreKnown, NoCallYet, CallAt, Wakes

LEMMA DelegateKeeps ==
  ASSUME DelInv, NEW s \in DelTask, DelegateStep(s)
  PROVE  DelInv'
<1> USE DEF DelInv, DelTypeOK, OrphansAreKnown, CallAt, Wakes, Calling, CallGoes,
            SetStatus, Explain, Publish, del_row, del_task
<1>1. CASE Refuse(s)
  BY <1>1 DEF Refuse
<1>2. CASE \E attachments \in 0..MaxSegments - 1 : CreateSubSession(s, attachments)
  <2>1. PICK attachments \in 0..MaxSegments - 1 : CreateSubSession(s, attachments)
    BY <1>2
  <2>2. /\ attachments \in Nat
        /\ attachments + 1 \in Nat
    BY DelegationAssumption
  <2> QED BY <2>1, <2>2 DEF CreateSubSession
<1>3. CASE CopyAttachment(s)
  BY <1>3 DEF CopyAttachment
<1>4. CASE PersistRouting(s)
  BY <1>4 DEF PersistRouting
<1>5. CASE StoreSegment(s)
  BY <1>5 DEF StoreSegment
<1>6. CASE RegisterTask(s)
  BY <1>6 DEF RegisterTask
<1>7. CASE ShowTasks(s)
  <2>1. CASE CallGoes(s, "publishing") /\ UNCHANGED del_cause
    BY <1>7, <2>1 DEF ShowTasks
  <2>2. CASE CallGoes(s, "done") /\ Explain(s, "raised")
    BY <1>7, <2>2 DEF ShowTasks
  <2> QED BY <1>7, <2>1, <2>2 DEF ShowTasks
<1>8. CASE PublishTask(s)
  BY <1>8, ZenonT(40) DEF PublishTask
<1> QED BY <1>1, <1>2, <1>3, <1>4, <1>5, <1>6, <1>7, <1>8 DEF DelegateStep

LEMMA MessageKeeps ==
  ASSUME DelInv, NEW s \in DelTask, MessageStep(s) \/ KillDelegated(s)
  PROVE  DelInv'
<1> USE DEF DelInv, DelTypeOK, OrphansAreKnown, CallAt, Wakes, Calling, CallGoes,
            SetStatus, Explain, Publish, del_row, del_task
<1>1. CASE MessageTask(s)
  BY <1>1 DEF MessageTask
<1>2. CASE AppendMessageAndRead(s)
  BY <1>2 DEF AppendMessageAndRead
<1>3. CASE SaveAndPublish(s)
  <2>1. CASE Publish(s)
    BY <1>3, <2>1 DEF SaveAndPublish
  <2>2. CASE Explain(s, "unsent") /\ UNCHANGED del_event
    BY <1>3, <2>2 DEF SaveAndPublish
  <2> QED BY <1>3, <2>1, <2>2 DEF SaveAndPublish
<1>4. CASE MessageFails(s)
  BY <1>4 DEF MessageFails
<1>5. CASE KillDelegated(s)
  BY <1>5 DEF KillDelegated
<1> QED BY <1>1, <1>2, <1>3, <1>4, <1>5 DEF MessageStep

LEMMA RunKeeps ==
  ASSUME DelInv, NEW s \in DelTask, RunStep(s)
  PROVE  DelInv'
<1> USE DEF DelInv, DelTypeOK, OrphansAreKnown, CallAt, Wakes, Calling, CallGoes,
            SetStatus, Explain, Publish, RunGoes, del_row, del_task
<1>1. CASE BeginRun(s)
  BY <1>1 DEF BeginRun
<1>2. CASE ReadRouting(s)
  BY <1>2 DEF ReadRouting
<1>3. CASE RouteGroups(s)
  BY <1>3 DEF RouteGroups
<1>4. CASE EndRun(s)
  BY <1>4, ZenonT(40) DEF EndRun
<1> QED BY <1>1, <1>2, <1>3, <1>4 DEF RunStep

LEMMA DelInvStep == DelInv /\ [DelNext]_del_vars => DelInv'
<1> SUFFICES ASSUME DelInv, [DelNext]_del_vars PROVE DelInv'
  OBVIOUS
<1>1. CASE DelNext
  BY <1>1, DelegateKeeps, MessageKeeps, RunKeeps DEF DelNext
<1>2. CASE UNCHANGED del_vars
  BY <1>2 DEF del_vars, del_row, del_task, DelInv, DelTypeOK, OrphansAreKnown, Wakes
<1> QED BY <1>1, <1>2

(* A running sub-session that nothing will wake is one a failure is known  *)
(* of, whatever step of delegate_task, message_subtask or run_session      *)
(* failed.                                                                 *)
THEOREM OrphansHaveACause == DelSpec => []OrphansAreKnown
<1>1. DelInv => OrphansAreKnown
  BY DEF DelInv
<1> QED BY <1>1, DelInvInit, DelInvStep, PTL DEF DelSpec
=============================================================================
