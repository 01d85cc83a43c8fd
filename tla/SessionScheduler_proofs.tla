----------------------- MODULE SessionScheduler_proofs -----------------------
(***************************************************************************)
(* The scheduler's invariants for every number of sessions, workers and    *)
(* events.  They are proved in layers, each by induction over the steps    *)
(* and with the layers below it: the bus and the types; who is in a turn;  *)
(* what the mailboxes hold; the wakeup flags; the stranded messages.  On   *)
(* top of them the scheduler is shown to implement SessionInbox, with the  *)
(* messages of a queue computed by a recursive function (Kept), about      *)
(* which the facts are proved by induction.                                *)
(***************************************************************************)
EXTENDS SessionScheduler, EventBus_proofs, Induction, SequenceTheorems

LEMMA WakeupIsEvent ==
    ASSUME NEW source \in Source PROVE Wakeup(source) \in Event
BY SchedulerAssumption DEF Wakeup, RuntimeEvent, Kind, MessageKind

(* The worker that handles an event is busy with it and stays busy.         *)
Moves(w) == Suspend(w) \/ ReturnAtOnce(w) \/ ReturnLater(w)

LEMMA HandlerFacts ==
    ASSUME BusTypeOK, NEW w \in Worker, Moves(w)
    PROVE  /\ WorkersStay
           /\ pc[w] # "idle"
           /\ serving[w] \in Session
           /\ current[w] \in Event
<1>1. pc[w] \in {"popped", "running"}
  BY DEF Moves, Suspend, ReturnAtOnce, ReturnLater, Goto
<1>2. WorkersStay
  BY GotoStays DEF Moves, Suspend, ReturnAtOnce, ReturnLater, PC
<1> QED BY <1>1, <1>2 DEF BusTypeOK

LEMMA HandleMoves ==
    ASSUME NEW w \in Worker, Handle(w) PROVE Moves(w)
BY DEF Handle, Moves, PersistText, HandleUserMessage, HandleSubtaskCompleted,
       HandlePluginEvent, DropWakeup, StartTurn, AwaitTurn, EndTurn

LEMMA RequestWakeupInv ==
    ASSUME BusInv, WorkersStay, NEW s \in Session, NEW box,
           NEW source \in Source, RequestWakeup(s, box, source)
    PROVE  BusInv'
<1>1. CASE UNCHANGED queueVars
  BY <1>1, QuietInv
<1>2. CASE Publish(s, Wakeup(source))
  BY <1>2, PublishInv, WakeupIsEvent
<1> QED BY <1>1, <1>2 DEF RequestWakeup

-----------------------------------------------------------------------------
(* The first layer: the bus's invariant and the types.                      *)

LEMMA NoMoveStays ==
    ASSUME BusTypeOK, UNCHANGED workerVars PROVE WorkersStay
BY DEF BusTypeOK, workerVars, WorkersStay

(* What an outsider publishes is an event.                                  *)
LEMMA SubmittedIsEvent ==
    ASSUME TypeOK, NEW s \in Session, Submit(s)
    PROVE  \E e \in Event : Publish(s, e) /\ (IsMessage(e) => e \in Message)
<1>1. PICK k \in Kind, t \in BOOLEAN :
         LET e == [kind |-> k, id |-> submitted', trig |-> t,
                   source |-> "capability"]
         IN MayBeSubmitted(e) /\ Publish(s, e)
  BY DEF Submit
<1> DEFINE e == [kind |-> k, id |-> submitted', trig |-> t,
                 source |-> "capability"]
<1>2. submitted' \in 1..MaxSubmit
  BY SchedulerAssumption DEF Submit, TypeOK
<1>3. t => k \in MessageKind
  BY <1>1 DEF MayBeSubmitted, IsMessage
<1>4. e \in RuntimeEvent /\ (IsMessage(e) => e \in Message)
  <2>1. CASE k \in MessageKind
    BY <1>2, <2>1 DEF RuntimeEvent, Message
  <2>2. CASE k \notin MessageKind
    <3>1. t = FALSE
      BY <1>3, <2>2, Zenon
    <3>2. /\ k \in Kind \ MessageKind
          /\ submitted' \in 0..MaxSubmit /\ "capability" \in Source
      BY <1>2, <2>2, SchedulerAssumption DEF Source
    <3> QED BY <2>2, <3>1, <3>2 DEF RuntimeEvent, IsMessage
  <2> QED BY <2>1, <2>2
<1> QED BY <1>1, <1>4, SchedulerAssumption

LEMMA NextBusInv == TypeOK /\ BusInv /\ [Next]_vars => BusInv'
<1> SUFFICES ASSUME TypeOK, BusInv, [Next]_vars PROVE BusInv'
  OBVIOUS
<1> USE DEF BusInv
<1>1. ASSUME NEW s \in Session, Submit(s) PROVE BusInv'
  <2>1. WorkersStay
    BY <1>1, NoMoveStays DEF Submit
  <2> QED BY <1>1, <2>1, SubmittedIsEvent, PublishInv
<1>2. ASSUME NEW s \in Session, DebounceFires(s) PROVE BusInv'
  BY <1>2, NoMoveStays, RequestWakeupInv DEF DebounceFires, Source, InternalSource
<1>3. ASSUME NEW s \in Session, HeartbeatTick(s) PROVE BusInv'
  BY <1>3, NoMoveStays, RequestWakeupInv DEF HeartbeatTick, Source, InternalSource
<1>4. ASSUME NEW w \in Worker, BusStep(w) PROVE BusInv'
  BY <1>4, TakeInv, RescheduleInv DEF BusStep
<1>5. ASSUME NEW w \in Worker, Handle(w) PROVE BusInv'
  <2>1. WorkersStay /\ serving[w] \in Session
    BY <1>5, HandleMoves, HandlerFacts
  <2>2. CASE HandleSubtaskCompleted(w)
    BY <2>1, <2>2, QuietInv, RequestWakeupInv
       DEF HandleSubtaskCompleted, Source, InternalSource
  <2>3. CASE EndTurn(w)
    <3>1. "event_bus" \in Source
      BY DEF Source, InternalSource
    <3> QED BY <2>1, <2>3, <3>1, QuietInv, PublishInv, WakeupIsEvent DEF EndTurn
  <2>4. CASE ~HandleSubtaskCompleted(w) /\ ~EndTurn(w)
    <3>1. UNCHANGED queueVars
      BY <1>5, <2>4 DEF Handle, PersistText, HandleUserMessage,
                        HandlePluginEvent, DropWakeup, StartTurn
    <3> QED BY <2>1, <3>1, QuietInv
  <2> QED BY <2>2, <2>3, <2>4
<1>6. CASE UNCHANGED vars
  BY <1>6, NoMoveStays, QuietInv DEF vars, busVars
<1> QED BY <1>1, <1>2, <1>3, <1>4, <1>5, <1>6 DEF Next
LEMMA NextTypeOK == TypeOK /\ BusInv /\ [Next]_vars => TypeOK'
<1> SUFFICES ASSUME TypeOK, BusInv, [Next]_vars PROVE TypeOK'
  OBVIOUS
<1> USE DEF TypeOK
<1>1. BusTypeOK'
  BY NextBusInv DEF BusInv
<1>2. ASSUME NEW s \in Session, Submit(s) PROVE TypeOK'
  BY <1>1, <1>2, SchedulerAssumption DEF Submit, stateVars
<1>3. ASSUME NEW s \in Session, DebounceFires(s) PROVE TypeOK'
  BY <1>1, <1>3 DEF DebounceFires, RequestWakeup
<1>4. ASSUME NEW s \in Session, HeartbeatTick(s) PROVE TypeOK'
  BY <1>1, <1>4 DEF HeartbeatTick, RequestWakeup
<1>5. ASSUME NEW w \in Worker, BusStep(w) PROVE TypeOK'
  BY <1>1, <1>5 DEF BusStep, stateVars
<1>6. ASSUME NEW w \in Worker, Handle(w) PROVE TypeOK'
  <2>1. serving[w] \in Session /\ current[w] \in Event
    BY <1>6, HandleMoves, HandlerFacts
  <2>2. ASSUME Enqueue(serving[w], current[w])
        PROVE  /\ states' \in SUBSET Session
               /\ mailbox' \in [Session -> Seq(Event)]
               /\ inflight' \in SUBSET Session
    BY <2>1, <2>2 DEF Enqueue
  <2>3. CASE PersistText(w) \/ HandlePluginEvent(w) \/ DropWakeup(w)
    BY <1>1, <2>3 DEF PersistText, HandlePluginEvent, DropWakeup, stateVars
  <2>4. CASE HandleUserMessage(w)
    BY <1>1, <2>1, <2>2, <2>4 DEF HandleUserMessage, StartDebounce
  <2>5. CASE HandleSubtaskCompleted(w)
    BY <1>1, <2>1, <2>2, <2>5 DEF HandleSubtaskCompleted, RequestWakeup
  <2>6. CASE StartTurn(w)
    BY <1>1, <2>1, <2>6 DEF StartTurn
  <2>7. CASE EndTurn(w)
    BY <1>1, <2>1, <2>7 DEF EndTurn, DropIdleRecord
  <2> QED BY <1>6, <2>3, <2>4, <2>5, <2>6, <2>7 DEF Handle
<1>7. CASE UNCHANGED vars
  BY <1>1, <1>7 DEF vars, stateVars
<1> QED BY <1>2, <1>3, <1>4, <1>5, <1>6, <1>7 DEF Next

(* The types, and one token per session, in every state of the scheduler.   *)
THEOREM SchedulerTypes == SafeSpec => [](TypeOK /\ BusInv)
<1>1. Init => TypeOK /\ BusInv
  BY BusInitInv, SchedulerAssumption DEF Init, TypeOK, BusInv
<1>2. TypeOK /\ BusInv /\ [Next]_vars => TypeOK' /\ BusInv'
  BY NextTypeOK, NextBusInv
<1> QED BY <1>1, <1>2, PTL DEF SafeSpec

-----------------------------------------------------------------------------
(* The second layer: inflight is the set of sessions in a turn.             *)

LEMMA OneTurnInit == Init => InflightIsOneTurn
BY DEF Init, BusInit, InflightIsOneTurn, InTurn

(* A step that leaves the workers and inflight alone, or moves one worker   *)
(* that neither was nor comes to be in a turn, keeps the equality.         *)
LEMMA SameTurns ==
    ASSUME InflightIsOneTurn, BusInv', inflight' = inflight,
           \A w \in Worker : InTurn(w) => InTurn(w)' /\ serving'[w] = serving[w],
           \A w \in Worker : InTurn(w)' => InTurn(w)
    PROVE  InflightIsOneTurn'
BY DEF InflightIsOneTurn, BusInv, OneTokenPerSession, InTurn

LEMMA NextOneTurn ==
    ASSUME TypeOK, BusInv, BusInv', InflightIsOneTurn, [Next]_vars
    PROVE  InflightIsOneTurn'
<1> USE DEF TypeOK, BusTypeOK
<1>1. ASSUME NEW s \in Session,
             Submit(s) \/ DebounceFires(s) \/ HeartbeatTick(s)
      PROVE  InflightIsOneTurn'
  <2>1. UNCHANGED workerVars /\ inflight' = inflight
    BY <1>1 DEF Submit, DebounceFires, HeartbeatTick, stateVars
  <2> QED BY <2>1, SameTurns DEF workerVars, InTurn, Handles
<1>2. ASSUME NEW w \in Worker, BusStep(w) PROVE InflightIsOneTurn'
  <2>1. inflight' = inflight
    BY <1>2 DEF BusStep, stateVars
  <2>2. CASE Take(w)
    BY <2>1, <2>2, SameTurns DEF Take, workerVars, InTurn, Handles
  <2>3. CASE Reschedule(w)
    BY <2>1, <2>3, SameTurns DEF Reschedule, Release, InTurn, Handles
  <2> QED BY <1>2, <2>2, <2>3 DEF BusStep
<1>3. ASSUME NEW w \in Worker, Handle(w) PROVE InflightIsOneTurn'
  <2>1. /\ UNCHANGED <<serving, current>>
        /\ pc[w] \in {"popped", "running"}
        /\ \E to \in {"running", "returned"} : pc' = [pc EXCEPT ![w] = to]
    BY <1>3, HandleMoves DEF Moves, Suspend, ReturnAtOnce, ReturnLater, Goto
  <2>2. CASE StartTurn(w)
    <3>1. /\ inflight' = inflight \cup {serving[w]}
          /\ pc[w] = "popped" /\ pc' = [pc EXCEPT ![w] = "running"]
          /\ Handles(w, {"wakeup_requested"})
      BY <2>2 DEF StartTurn, AwaitTurn, Suspend, Goto
    <3>2. InTurn(w)' /\ ~InTurn(w)
      BY <2>1, <3>1 DEF InTurn, Handles
    <3>3. \A v \in Worker \ {w} : InTurn(v)' <=> InTurn(v)
      BY <2>1, <3>1 DEF InTurn, Handles
    <3> QED BY <2>1, <3>1, <3>2, <3>3
            DEF InflightIsOneTurn, BusInv, OneTokenPerSession, InTurn
  <2>3. CASE EndTurn(w)
    <3>1. /\ inflight' = inflight \ {serving[w]}
          /\ pc[w] = "running" /\ pc' = [pc EXCEPT ![w] = "returned"]
          /\ Handles(w, {"wakeup_requested"})
      BY <2>3 DEF EndTurn, ReturnLater, Goto
    <3>2. InTurn(w) /\ ~InTurn(w)'
      BY <2>1, <3>1 DEF InTurn, Handles
    <3>3. \A v \in Worker \ {w} : InTurn(v)' <=> InTurn(v)
      BY <2>1, <3>1 DEF InTurn, Handles
    <3>4. \A v \in Worker \ {w} : InTurn(v) => serving[v] # serving[w]
      BY <3>2 DEF InflightIsOneTurn
    <3>5. inflight = {serving[v] : v \in {u \in Worker : InTurn(u)}}
      BY DEF InflightIsOneTurn
    <3>6. inflight' = {serving[v] : v \in {u \in Worker : InTurn(u)'}}
      BY ONLY <3>1, <3>2, <3>3, <3>4, <3>5, w \in Worker
    <3>7. serving' = serving
      BY <2>1
    <3>8. \A u, v \in Worker : /\ InTurn(u)' /\ InTurn(v)'
                              /\ serving[u] = serving[v]
                              => u = v
      BY <3>2, <3>3 DEF InflightIsOneTurn
    <3> QED BY ONLY <3>6, <3>7, <3>8 DEF InflightIsOneTurn
  <2>4. CASE ~StartTurn(w) /\ ~EndTurn(w)
    <3>1. inflight' = inflight
      BY <1>3, <2>4 DEF Handle, PersistText, HandleUserMessage, Enqueue,
             HandleSubtaskCompleted, HandlePluginEvent, DropWakeup, stateVars
    <3>2. ~InTurn(w) /\ ~InTurn(w)'
      BY <1>3, <2>1, <2>4
         DEF Handle, PersistText, HandleUserMessage, HandleSubtaskCompleted,
             HandlePluginEvent, DropWakeup, InTurn, Handles, ReturnAtOnce, Goto
    <3>3. \A v \in Worker \ {w} : InTurn(v)' <=> InTurn(v)
      BY <2>1 DEF InTurn, Handles
    <3> QED BY <2>1, <3>1, <3>2, <3>3, SameTurns
  <2> QED BY <2>2, <2>3, <2>4
<1>4. CASE UNCHANGED vars
  BY <1>4, SameTurns DEF vars, busVars, workerVars, stateVars, InTurn, Handles
<1> QED BY <1>1, <1>2, <1>3, <1>4 DEF Next

(* At every moment the sessions marked inflight are those with a worker in  *)
(* their planner turn, and no session has two.                             *)
THEOREM OneTurnPerSession == SafeSpec => []InflightIsOneTurn
BY OneTurnInit, NextOneTurn, SchedulerTypes, PTL DEF SafeSpec

-----------------------------------------------------------------------------
(* The third layer: mailboxes and records.                                  *)

MailboxInv == MailboxQuietDuringTurn /\ NoIdleRecord

(* A worker that brings a message holds its session, so nobody is in a turn *)
(* of that session.                                                        *)
LEMMA MessengerIsAlone ==
    ASSUME BusInv, InflightIsOneTurn, NEW w \in Worker, Moves(w),
           Handles(w, MessageKind)
    PROVE  serving[w] \notin inflight
<1>1. pc[w] # "idle" /\ ~InTurn(w)
  BY HandlerFacts DEF BusInv, InTurn, Handles, MessageKind
<1> QED BY <1>1 DEF BusInv, OneTokenPerSession, InflightIsOneTurn, InTurn

LEMMA EnqueueMailboxInv ==
    ASSUME TypeOK, MailboxInv, NEW s \in Session, NEW e \in Event,
           s \notin inflight, Enqueue(s, e)
    PROVE  MailboxInv'
<1>1. /\ mailbox'[s] = Append(mailbox[s], e)
      /\ \A r \in Session \ {s} : mailbox'[r] = mailbox[r]
      /\ mailbox[s] \in Seq(Event)
  BY DEF Enqueue, TypeOK
<1>2. mailbox'[s] # <<>>
  BY ONLY <1>1, e \in Event
<1>3. inflight \subseteq Session /\ inflight' = inflight
      /\ states' = states \cup {s}
  BY DEF TypeOK, Enqueue
<1>4. MailboxQuietDuringTurn'
  BY <1>1, <1>3 DEF MailboxInv, MailboxQuietDuringTurn
<1>5. NoIdleRecord'
  BY <1>1, <1>2, <1>3 DEF MailboxInv, NoIdleRecord
<1> QED BY <1>4, <1>5 DEF MailboxInv

LEMMA NextMailboxInv ==
    ASSUME TypeOK, BusInv, InflightIsOneTurn, MailboxInv, [Next]_vars
    PROVE  MailboxInv'
<1>1. ASSUME UNCHANGED <<states, mailbox, inflight>> PROVE MailboxInv'
  BY <1>1 DEF MailboxInv, MailboxQuietDuringTurn, NoIdleRecord
<1>2. ASSUME NEW s \in Session,
             Submit(s) \/ DebounceFires(s) \/ HeartbeatTick(s)
      PROVE  MailboxInv'
  BY <1>1, <1>2 DEF Submit, DebounceFires, HeartbeatTick, stateVars
<1>3. ASSUME NEW w \in Worker, BusStep(w) PROVE MailboxInv'
  BY <1>1, <1>3 DEF BusStep, stateVars
<1>4. ASSUME NEW w \in Worker, Handle(w) PROVE MailboxInv'
  <2>1. Moves(w) /\ serving[w] \in Session /\ current[w] \in Event
    BY <1>4, HandleMoves, HandlerFacts DEF BusInv
  <2>2. CASE PersistText(w) \/ HandlePluginEvent(w) \/ DropWakeup(w)
    BY <1>1, <2>2 DEF PersistText, HandlePluginEvent, DropWakeup, stateVars
  <2>3. CASE HandleUserMessage(w) \/ HandleSubtaskCompleted(w)
    <3>1. Handles(w, MessageKind) /\ Enqueue(serving[w], current[w])
      BY <2>3 DEF HandleUserMessage, HandleSubtaskCompleted, Handles, MessageKind
    <3> QED BY <2>1, <3>1, MessengerIsAlone, EnqueueMailboxInv
  <2>4. CASE StartTurn(w)
    <3>1. /\ serving[w] \in states
          /\ inflight' = inflight \cup {serving[w]}
          /\ mailbox' = [mailbox EXCEPT ![serving[w]] = <<>>]
          /\ states' = states
      BY <2>4 DEF StartTurn, RunsTurn
    <3> QED BY <2>1, <3>1
            DEF TypeOK, MailboxInv, MailboxQuietDuringTurn, NoIdleRecord
  <2>5. CASE EndTurn(w)
    <3>1. /\ InTurn(w)
          /\ inflight' = inflight \ {serving[w]}
          /\ mailbox' = mailbox
          /\ states' = IF mailbox[serving[w]] = <<>>
                        THEN states \ {serving[w]} ELSE states
      BY <2>5 DEF EndTurn, ReturnLater, Goto, InTurn, DropIdleRecord
    <3>2. mailbox[serving[w]] = <<>>
      BY <3>1 DEF InflightIsOneTurn, MailboxInv, MailboxQuietDuringTurn
    <3> QED BY <2>1, <3>1, <3>2
            DEF TypeOK, MailboxInv, MailboxQuietDuringTurn, NoIdleRecord
  <2> QED BY <1>4, <2>2, <2>3, <2>4, <2>5 DEF Handle
<1>5. CASE UNCHANGED vars
  BY <1>1, <1>5 DEF vars, stateVars
<1> QED BY <1>2, <1>3, <1>4, <1>5 DEF Next

(* No message reaches the mailbox of a session in a turn, and a session has *)
(* a record only while it is in a turn or has messages.                    *)
THEOREM MailboxesAreQuiet ==
    SafeSpec => [](MailboxQuietDuringTurn /\ NoIdleRecord)
<1>1. Init => MailboxInv
  BY DEF Init, MailboxInv, MailboxQuietDuringTurn, NoIdleRecord
<1>2. MailboxInv => MailboxQuietDuringTurn /\ NoIdleRecord
  BY DEF MailboxInv
<1> QED BY <1>1, <1>2, NextMailboxInv, SchedulerTypes, OneTurnPerSession, PTL
        DEF SafeSpec

-----------------------------------------------------------------------------
(* The fourth layer: the wakeup flags.                                      *)

(* An event that is published stays behind those already queued.            *)
LEMMA PublishKeepsWakeups ==
    ASSUME BusTypeOK, NEW s \in Session, NEW e \in Event, Publish(s, e),
           UNCHANGED current,
           NEW r \in Session, WakeupOnItsWay(r),
           \A w \in Worker : /\ pc[w] = "popped" /\ serving[w] = r
                             /\ Handles(w, {"wakeup_requested"})
                             => pc'[w] = "popped" /\ serving'[w] = r
    PROVE  WakeupOnItsWay(r)'
<1>1. CASE \E w \in Worker : /\ pc[w] = "popped" /\ serving[w] = r
                             /\ Handles(w, {"wakeup_requested"})
  BY <1>1 DEF WakeupOnItsWay, Handles
<1>2. CASE \E i \in 1..Len(queue[r]) : queue[r][i].kind = "wakeup_requested"
  <2>1. PICK i \in 1..Len(queue[r]) : queue[r][i].kind = "wakeup_requested"
    BY <1>2
  <2>2. queue[r] \in Seq(Event)
    BY DEF BusTypeOK
  <2>3. queue'[r] = queue[r] \/ queue'[r] = Append(queue[r], e)
    BY DEF Publish, BusTypeOK
  <2>4. i \in 1..Len(queue'[r]) /\ queue'[r][i] = queue[r][i]
    BY <2>1, <2>2, <2>3
  <2> QED BY <2>1, <2>4 DEF WakeupOnItsWay
<1> QED BY <1>1, <1>2 DEF WakeupOnItsWay

LEMMA PublishedWakeup ==
    ASSUME BusTypeOK, NEW s \in Session, NEW source \in Source,
           Publish(s, Wakeup(source))
    PROVE  WakeupOnItsWay(s)'
<1> DEFINE n == Len(queue[s]) + 1
<1>1. /\ queue[s] \in Seq(Event)
      /\ queue'[s] = Append(queue[s], Wakeup(source))
      /\ Wakeup(source) \in Event
  BY WakeupIsEvent DEF Publish, BusTypeOK
<1>2. n \in 1..Len(queue'[s]) /\ queue'[s][n] = Wakeup(source)
  BY <1>1
<1>3. queue'[s][n].kind = "wakeup_requested"
  BY <1>2 DEF Wakeup
<1> QED BY <1>2, <1>3 DEF WakeupOnItsWay

(* request_wakeup_if_needed: a flag that is set or kept is an honest one.   *)
LEMMA RequestKeepsHonest ==
    ASSUME TypeOK, WakeupFlagIsHonest, NEW s \in Session, NEW box,
           NEW source \in Source, RequestWakeup(s, box, source),
           UNCHANGED current,
           \A w \in Worker : /\ pc[w] = "popped"
                             /\ Handles(w, {"wakeup_requested"})
                             => pc'[w] = "popped" /\ serving'[w] = serving[w]
    PROVE  WakeupFlagIsHonest'
<1> SUFFICES ASSUME NEW r \in wakeup_queued' PROVE WakeupOnItsWay(r)'
  BY DEF WakeupFlagIsHonest
<1>1. CASE /\ wakeup_queued' = wakeup_queued \cup {s}
           /\ Publish(s, Wakeup(source))
  <2>1. CASE r = s
    BY <1>1, <2>1, PublishedWakeup DEF TypeOK
  <2>2. CASE r \in wakeup_queued
    <3>1. r \in Session /\ WakeupOnItsWay(r)
      BY <2>2 DEF TypeOK, WakeupFlagIsHonest
    <3> QED BY <1>1, <3>1, PublishKeepsWakeups, WakeupIsEvent DEF TypeOK
  <2> QED BY <1>1, <2>1, <2>2
<1>2. CASE UNCHANGED <<wakeup_queued, queueVars>>
  BY <1>2 DEF WakeupFlagIsHonest, WakeupOnItsWay, queueVars, Handles
<1> QED BY <1>1, <1>2 DEF RequestWakeup

(* The worker that takes a session carries the wakeup if it was the first   *)
(* event of the queue; the others move up by one.                          *)
LEMMA TakeKeepsWakeups ==
    ASSUME BusInv, NEW w \in Worker, Take(w),
           NEW r \in Session, WakeupOnItsWay(r)
    PROVE  WakeupOnItsWay(r)'
<1> USE DEF BusInv, BusTypeOK
<1> DEFINE s == Head(ready)
<1>1. /\ s \in Session /\ s \in OnReady /\ pc[w] = "idle"
  BY DEF Take, OnReady
<1>2. queue[s] # <<>> /\ queue[s] \in Seq(Event)
  BY <1>1 DEF QueuedMeansScheduled
<1>3. /\ queue' = [queue EXCEPT ![s] = Tail(@)]
      /\ serving' = [serving EXCEPT ![w] = s]
      /\ current' = [current EXCEPT ![w] = Head(queue[s])]
      /\ pc' = [pc EXCEPT ![w] = "popped"]
  BY <1>2 DEF Take
<1> HIDE DEF s
<1>4. CASE \E v \in Worker : /\ pc[v] = "popped" /\ serving[v] = r
                             /\ Handles(v, {"wakeup_requested"})
  BY <1>1, <1>3, <1>4 DEF WakeupOnItsWay, Handles
<1>5. CASE \E i \in 1..Len(queue[r]) : queue[r][i].kind = "wakeup_requested"
  <2>1. PICK i \in 1..Len(queue[r]) : queue[r][i].kind = "wakeup_requested"
    BY <1>5
  <2>2. CASE r # s
    BY <1>3, <2>1, <2>2 DEF WakeupOnItsWay
  <2>3. CASE r = s /\ i = 1
    <3>1. /\ pc'[w] = "popped" /\ serving'[w] = r
          /\ current'[w] = queue[s][1]
      BY <1>1, <1>2, <1>3, <2>3
    <3>2. current'[w] # None /\ current'[w].kind = "wakeup_requested"
      BY <1>2, <2>1, <2>3, <3>1, BusAssumption
    <3> QED BY <3>1, <3>2 DEF WakeupOnItsWay, Handles
  <2>4. CASE r = s /\ i # 1
    <3>1. queue'[r] = Tail(queue[r])
      BY <1>1, <1>3, <2>4
    <3>2. i - 1 \in 1..Len(queue'[r]) /\ queue'[r][i - 1] = queue[r][i]
      BY <1>2, <2>1, <2>4, <3>1
    <3> QED BY <2>1, <3>2 DEF WakeupOnItsWay
  <2> QED BY <2>2, <2>3, <2>4
<1> QED BY <1>4, <1>5 DEF WakeupOnItsWay

LEMMA NextWakeupHonest ==
    ASSUME TypeOK, BusInv, InflightIsOneTurn, MailboxInv,
           WakeupFlagIsHonest, [Next]_vars
    PROVE  WakeupFlagIsHonest'
<1> USE DEF TypeOK, BusInv
<1>1. ASSUME NEW s \in Session, Submit(s) PROVE WakeupFlagIsHonest'
  <2>1. PICK e \in Event : Publish(s, e)
    BY <1>1, SubmittedIsEvent
  <2>2. UNCHANGED workerVars /\ wakeup_queued' = wakeup_queued
    BY <1>1 DEF Submit, stateVars
  <2> QED BY <2>1, <2>2, PublishKeepsWakeups DEF WakeupFlagIsHonest, workerVars
<1>2. ASSUME NEW s \in Session, DebounceFires(s) PROVE WakeupFlagIsHonest'
  BY <1>2, RequestKeepsHonest
     DEF DebounceFires, workerVars, Source, InternalSource
<1>3. ASSUME NEW s \in Session, HeartbeatTick(s) PROVE WakeupFlagIsHonest'
  BY <1>3, RequestKeepsHonest
     DEF HeartbeatTick, workerVars, Source, InternalSource
<1>4. ASSUME NEW w \in Worker, BusStep(w) PROVE WakeupFlagIsHonest'
  <2>1. wakeup_queued' = wakeup_queued
    BY <1>4 DEF BusStep, stateVars
  <2>2. CASE Take(w)
    BY <2>1, <2>2, TakeKeepsWakeups DEF WakeupFlagIsHonest
  <2>3. CASE Reschedule(w)
    BY <2>1, <2>3 DEF Reschedule, Release, WakeupFlagIsHonest,
                      WakeupOnItsWay, Handles, BusTypeOK
  <2> QED BY <1>4, <2>2, <2>3 DEF BusStep
<1>5. ASSUME NEW w \in Worker, Handle(w) PROVE WakeupFlagIsHonest'
  <2>1. /\ UNCHANGED <<serving, current>>
        /\ pc[w] \in {"popped", "running"} /\ serving[w] \in Session
        /\ \E to \in {"running", "returned"} : pc' = [pc EXCEPT ![w] = to]
    BY <1>5, HandleMoves, HandlerFacts
       DEF Moves, Suspend, ReturnAtOnce, ReturnLater, Goto
  <2>2. ASSUME ~(pc[w] = "popped" /\ Handles(w, {"wakeup_requested"}))
        PROVE  \A v \in Worker : /\ pc[v] = "popped"
                                 /\ Handles(v, {"wakeup_requested"})
                                 => pc'[v] = "popped"
    BY <2>1, <2>2 DEF BusTypeOK
  <2>3. CASE \/ PersistText(w) \/ HandleUserMessage(w) \/ HandlePluginEvent(w)
    <3>1. wakeup_queued' = wakeup_queued /\ queue' = queue
      BY <2>3 DEF PersistText, HandleUserMessage, HandlePluginEvent, stateVars,
                  queueVars
    <3>2. ~Handles(w, {"wakeup_requested"})
      BY <2>3 DEF PersistText, HandleUserMessage, HandlePluginEvent, Handles
    <3> QED BY <2>1, <2>2, <3>1, <3>2
            DEF WakeupFlagIsHonest, WakeupOnItsWay, Handles
  <2>4. CASE HandleSubtaskCompleted(w)
    <3>1. ~Handles(w, {"wakeup_requested"})
      BY <2>4 DEF HandleSubtaskCompleted, Handles
    <3>2. CASE UNCHANGED <<wakeup_queued, queueVars>>
      BY <2>1, <2>2, <3>1, <3>2
         DEF WakeupFlagIsHonest, WakeupOnItsWay, Handles, queueVars
    <3>3. CASE RequestWakeup(serving[w], mailbox'[serving[w]],
                             "subtask_completed")
      BY <2>1, <2>2, <3>1, <3>3, RequestKeepsHonest DEF Source, InternalSource
    <3> QED BY <2>4, <3>2, <3>3 DEF HandleSubtaskCompleted
  <2>5. CASE DropWakeup(w) \/ StartTurn(w)
    <3>1. /\ wakeup_queued' = wakeup_queued \ {serving[w]}
          /\ queue' = queue
      BY <2>5 DEF DropWakeup, StartTurn, queueVars
    <3> QED BY <2>1, <3>1
            DEF WakeupFlagIsHonest, WakeupOnItsWay, Handles, BusTypeOK
  <2>6. CASE EndTurn(w)
    <3>1. InTurn(w) /\ pc[w] = "running"
      BY <2>6 DEF EndTurn, InTurn, ReturnLater, Goto
    <3>2. mailbox[serving[w]] = <<>>
      BY <3>1 DEF InflightIsOneTurn, MailboxInv, MailboxQuietDuringTurn
    <3>3. wakeup_queued' \subseteq wakeup_queued /\ queue' = queue
      BY <2>6, <3>2 DEF EndTurn, Triggerable, queueVars
    <3> QED BY <2>1, <2>2, <3>1, <3>3
            DEF WakeupFlagIsHonest, WakeupOnItsWay, Handles
  <2> QED BY <1>5, <2>3, <2>4, <2>5, <2>6 DEF Handle
<1>6. CASE UNCHANGED vars
  BY <1>6 DEF vars, busVars, queueVars, workerVars, stateVars,
              WakeupFlagIsHonest, WakeupOnItsWay, Handles
<1> QED BY <1>1, <1>2, <1>3, <1>4, <1>5, <1>6 DEF Next

(* A session marked wakeup_queued has a wakeup on the bus or in the hands   *)
(* of a worker that has not looked at it yet.                              *)
THEOREM WakeupFlagsAreHonest == SafeSpec => []WakeupFlagIsHonest
<1>1. Init => WakeupFlagIsHonest
  BY DEF Init, WakeupFlagIsHonest
<1>2. MailboxQuietDuringTurn /\ NoIdleRecord => MailboxInv
  BY DEF MailboxInv
<1> QED BY <1>1, <1>2, NextWakeupHonest, SchedulerTypes, OneTurnPerSession,
           MailboxesAreQuiet, PTL DEF SafeSpec

-----------------------------------------------------------------------------
(* The fifth layer: no message is stranded.                                 *)

LEMMA AppendTriggerable ==
    ASSUME NEW box \in Seq(Event), NEW e \in Event,
           Triggerable(Append(box, e))
    PROVE  Triggerable(box) \/ e.trig
<1>1. PICK i \in 1..Len(Append(box, e)) : Append(box, e)[i].trig
  BY DEF Triggerable
<1>2. CASE i = Len(box) + 1
  <2>1. Append(box, e)[i] = e
    BY <1>2
  <2> QED BY ONLY <1>1, <2>1, Zenon
<1>3. CASE i \in 1..Len(box)
  <2>1. Append(box, e)[i] = box[i]
    BY <1>3
  <2>2. box[i].trig
    BY ONLY <1>1, <2>1, Zenon
  <2> QED BY <1>3, <2>2, Zenon DEF Triggerable
<1>4. i = Len(box) + 1 \/ i \in 1..Len(box)
  OBVIOUS
<1> QED BY <1>2, <1>3, <1>4

LEMMA NobodyTriggersNothing == ~Triggerable(<<>>)
BY DEF Triggerable

Cared(s) == Triggerable(mailbox[s]) /\ s \notin inflight
              => s \in debounce \cup wakeup_queued

LEMMA NextNobodyStranded ==
    ASSUME TypeOK, BusInv, InflightIsOneTurn, MailboxInv,
           NoStrandedMessage, [Next]_vars, NEW r \in Session
    PROVE  Cared(r)'
<1>0. Cared(r)
  BY DEF NoStrandedMessage, Cared
<1>1. ASSUME UNCHANGED <<mailbox, inflight, debounce, wakeup_queued>>
      PROVE  Cared(r)'
  BY <1>0, <1>1, Zenon DEF Cared, Triggerable
<1>2. ASSUME NEW s \in Session, NEW source, RequestWakeup(s, mailbox[s], source),
             UNCHANGED <<mailbox, inflight>>, debounce \ {s} \subseteq debounce'
      PROVE  Cared(r)'
  <2>1. /\ wakeup_queued \subseteq wakeup_queued'
        /\ Triggerable(mailbox[s]) => s \in inflight \cup wakeup_queued'
    BY <1>2 DEF RequestWakeup
  <2>2. Triggerable(mailbox[r])' <=> Triggerable(mailbox[r])
    BY <1>2, Zenon DEF Triggerable
  <2> QED BY <1>0, <1>2, <2>1, <2>2 DEF Cared
<1>3. ASSUME NEW s \in Session, Submit(s) PROVE Cared(r)'
  BY <1>1, <1>3 DEF Submit, stateVars
<1>4. ASSUME NEW s \in Session, DebounceFires(s) PROVE Cared(r)'
  BY <1>2, <1>4 DEF DebounceFires
<1>5. ASSUME NEW s \in Session, HeartbeatTick(s) PROVE Cared(r)'
  BY <1>2, <1>5 DEF HeartbeatTick
<1>6. ASSUME NEW w \in Worker, BusStep(w) PROVE Cared(r)'
  BY <1>1, <1>6 DEF BusStep, stateVars
<1>7. ASSUME NEW w \in Worker, Handle(w) PROVE Cared(r)'
  <2> DEFINE s == serving[w]
             e == current[w]
  <2>1. Moves(w) /\ s \in Session /\ e \in Event
    BY <1>7, HandleMoves, HandlerFacts DEF BusInv
  <2>2. CASE PersistText(w) \/ HandlePluginEvent(w)
    BY <1>1, <2>2 DEF PersistText, HandlePluginEvent, stateVars
  <2>3. ASSUME HandleUserMessage(w) \/ HandleSubtaskCompleted(w)
        PROVE  Cared(r)'
    <3>1. /\ Handles(w, MessageKind)
          /\ inflight' = inflight
          /\ mailbox' = [mailbox EXCEPT ![s] = Append(@, e)]
      BY <2>3 DEF HandleUserMessage, HandleSubtaskCompleted, Handles,
                  MessageKind, Enqueue
    <3>2. s \notin inflight
      BY <2>1, <3>1, MessengerIsAlone
    <3>3. /\ debounce \subseteq debounce'
          /\ wakeup_queued \subseteq wakeup_queued'
      BY <2>3 DEF HandleUserMessage, HandleSubtaskCompleted, StartDebounce,
                  RequestWakeup
    <3>4. CASE r # s
      <4>1. mailbox'[r] = mailbox[r]
        BY <3>1, <3>4 DEF TypeOK
      <4>2. Triggerable(mailbox[r])' <=> Triggerable(mailbox[r])
        BY <4>1, Zenon DEF Triggerable
      <4> QED BY <1>0, <3>1, <3>3, <4>2 DEF Cared
    <3>5. CASE r = s
      <4>1. /\ mailbox[s] \in Seq(Event)
            /\ mailbox'[s] = Append(mailbox[s], e)
        BY <2>1, <3>1 DEF TypeOK
      <4>2. Triggerable(mailbox'[s]) => Triggerable(mailbox[s]) \/ e.trig
        BY <2>1, <4>1, AppendTriggerable, Zenon
      <4>3. CASE e.trig
        <5>1. CASE HandleUserMessage(w)
          BY <3>5, <4>3, <5>1 DEF HandleUserMessage, StartDebounce, Cared
        <5>2. CASE HandleSubtaskCompleted(w) /\ s \in debounce
          BY <3>3, <3>5, <5>2 DEF Cared
        <5>3. CASE HandleSubtaskCompleted(w) /\ s \notin debounce
          <6>1. RequestWakeup(s, mailbox'[s], "subtask_completed")
            BY <4>3, <5>3 DEF HandleSubtaskCompleted
          <6>2. Triggerable(mailbox'[s]) => s \in wakeup_queued'
            BY <3>2, <6>1 DEF RequestWakeup
          <6> QED BY <3>5, <6>2, Zenon DEF Cared
        <5> QED BY <2>3, <5>1, <5>2, <5>3
      <4>4. CASE Triggerable(mailbox[s])
        BY <1>0, <3>2, <3>3, <3>5, <4>4 DEF Cared
      <4>5. CASE ~Triggerable(mailbox'[s])
        BY <3>5, <4>5, Zenon DEF Cared
      <4> QED BY <4>2, <4>3, <4>4, <4>5
    <3> QED BY <3>4, <3>5
  <2>4. CASE DropWakeup(w)
    <3>1. /\ ~RunsTurn(s, e.source)
          /\ wakeup_queued' = wakeup_queued \ {s}
          /\ UNCHANGED <<states, mailbox, inflight, debounce>>
      BY <2>4 DEF DropWakeup
    <3>2. Triggerable(mailbox[s]) => s \in inflight
      BY <2>1, <3>1, NobodyTriggersNothing DEF RunsTurn, MailboxInv, NoIdleRecord
    <3>3. Triggerable(mailbox[r])' <=> Triggerable(mailbox[r])
      BY <3>1, Zenon DEF Triggerable
    <3> QED BY <1>0, <3>1, <3>2, <3>3 DEF Cared
  <2>5. CASE StartTurn(w)
    <3>1. /\ wakeup_queued' = wakeup_queued \ {s}
          /\ inflight' = inflight \cup {s}
          /\ mailbox' = [mailbox EXCEPT ![s] = <<>>]
          /\ debounce' = debounce
      BY <2>5 DEF StartTurn
    <3>2. CASE r = s
      BY <3>1, <3>2 DEF Cared
    <3>3. CASE r # s
      <4>1. mailbox'[r] = mailbox[r]
        BY <3>1, <3>3 DEF TypeOK
      <4>2. Triggerable(mailbox[r])' <=> Triggerable(mailbox[r])
        BY <4>1, Zenon DEF Triggerable
      <4> QED BY <1>0, <3>1, <3>3, <4>2 DEF Cared
    <3> QED BY <3>2, <3>3
  <2>6. CASE EndTurn(w)
    <3>1. InTurn(w) /\ mailbox' = mailbox /\ inflight' = inflight \ {s}
          /\ debounce' = debounce /\ wakeup_queued \ {s} \subseteq wakeup_queued'
      BY <2>6 DEF EndTurn, InTurn, ReturnLater, Goto
    <3>2. mailbox[s] = <<>>
      BY <3>1 DEF InflightIsOneTurn, MailboxInv, MailboxQuietDuringTurn
    <3>3. Triggerable(mailbox[r])' <=> Triggerable(mailbox[r])
      BY <3>1, Zenon DEF Triggerable
    <3>4. r = s => ~Triggerable(mailbox[r])
      BY <3>2, NobodyTriggersNothing
    <3> QED BY <1>0, <3>1, <3>3, <3>4 DEF Cared
  <2> QED BY <1>7, <2>2, <2>3, <2>4, <2>5, <2>6 DEF Handle
<1>8. CASE UNCHANGED vars
  BY <1>1, <1>8 DEF vars, stateVars
<1> QED BY <1>3, <1>4, <1>5, <1>6, <1>7, <1>8 DEF Next

(* A session that is not in a turn and whose mailbox asks for one has a     *)
(* debounce timer running or a wakeup queued.                              *)
THEOREM NobodyIsStranded == SafeSpec => []NoStrandedMessage
<1>1. Init => NoStrandedMessage
  BY NobodyTriggersNothing DEF Init, NoStrandedMessage
<1>2. TypeOK /\ BusInv /\ InflightIsOneTurn /\ MailboxInv /\ NoStrandedMessage
        /\ [Next]_vars => NoStrandedMessage'
  BY NextNobodyStranded DEF NoStrandedMessage, Cared
<1>3. MailboxQuietDuringTurn /\ NoIdleRecord => MailboxInv
  BY DEF MailboxInv
<1> QED BY <1>1, <1>2, <1>3, SchedulerTypes, OneTurnPerSession,
           MailboxesAreQuiet, PTL DEF SafeSpec

-----------------------------------------------------------------------------
(* The sixth layer: the inbox.  First the messages of a queue.              *)

(* The recursive function exists, so it satisfies its equation.            *)
LEMMA KeptUnfolds ==
    ASSUME NEW q \in Seq(Event)
    PROVE  /\ Kept(q)[0] = <<>>
           /\ \A i \in 1..Len(q) : Kept(q)[i] = Keep(Kept(q)[i - 1], q[i])
<1> DEFINE Is(g, n) == g = [i \in 0..n |-> IF i = 0 THEN <<>>
                                           ELSE Keep(g[i - 1], q[i])]
           T == {n \in 0..Len(q) : \E g : Is(g, n)}
<1>1. 0 \in T
  <2> DEFINE g == [i \in 0..0 |-> <<>>]
  <2>1. Is(g, 0)
    OBVIOUS
  <2>2. \E g1 : Is(g1, 0)
    <3> HIDE DEF g, Is
    <3> QED BY <2>1
  <2> QED BY <2>2
<1>2. ASSUME NEW n \in 0..Len(q), n \in T, n < Len(q) PROVE n + 1 \in T
  <2>1. PICK g : Is(g, n)
    BY <1>2
  <2> DEFINE h == [i \in 0..(n + 1) |-> IF i = n + 1 THEN Keep(g[n], q[n + 1])
                                                     ELSE g[i]]
  <2>2. ASSUME NEW i \in 0..(n + 1)
        PROVE  h[i] = IF i = 0 THEN <<>> ELSE Keep(h[i - 1], q[i])
    <3>1. CASE i = n + 1
      <4>1. h[i - 1] = g[n] /\ h[i] = Keep(g[n], q[i])
        BY <3>1
      <4> QED BY <3>1, <4>1
    <3>2. CASE i \in 1..n
      <4>1. h[i] = g[i] /\ h[i - 1] = g[i - 1]
        BY <3>2
      <4>2. g[i] = Keep(g[i - 1], q[i])
        BY <2>1, <3>2
      <4> QED BY <3>2, <4>1, <4>2
    <3>3. CASE i = 0
      BY <2>1, <3>3
    <3> QED BY <3>1, <3>2, <3>3
  <2>3. Is(h, n + 1)
    BY <2>2
  <2>4. \E g1 : Is(g1, n + 1)
    <3> HIDE DEF h, Is
    <3> QED BY <2>3
  <2> QED BY <1>2, <2>4
<1>3. Len(q) \in T
  <2>1. Len(q) \in Nat /\ Len(q) \in 0..Len(q)
    OBVIOUS
  <2>2. \A i \in 0..Len(q) : i \in T /\ i < Len(q) => i + 1 \in T
    BY <1>2
  <2> HIDE DEF T
  <2>3. 0..Len(q) \subseteq T
    BY <1>1, <2>1, <2>2, UpTo
  <2> QED BY <2>1, <2>3
<1>4. Is(Kept(q), Len(q))
  BY <1>3 DEF Kept
<1> QED BY <1>4
(* It computes sequences of events.                                         *)
LEMMA KeptType ==
    ASSUME NEW q \in Seq(Event)
    PROVE  \A n \in 0..Len(q) : Kept(q)[n] \in Seq(Event)
<1> DEFINE T == {n \in 0..Len(q) : Kept(q)[n] \in Seq(Event)}
<1>1. 0 \in T
  <2>1. Kept(q)[0] = <<>>
    BY KeptUnfolds
  <2>2. <<>> \in Seq(Event) /\ 0 \in 0..Len(q)
    OBVIOUS
  <2> QED BY <2>1, <2>2
<1>2. ASSUME NEW n \in 0..Len(q), n \in T, n < Len(q) PROVE n + 1 \in T
  <2>1. Kept(q)[n + 1] = Keep(Kept(q)[n], q[n + 1])
    BY <1>2, KeptUnfolds
  <2>2. Kept(q)[n] \in Seq(Event) /\ q[n + 1] \in Event
    BY <1>2
  <2>3. Kept(q)[n + 1] \in Seq(Event)
    BY <2>1, <2>2 DEF Keep
  <2> QED BY <1>2, <2>3
<1>3. Len(q) \in Nat
  OBVIOUS
<1> HIDE DEF T
<1>4. 0..Len(q) \subseteq T
  BY <1>1, <1>2, <1>3, UpTo
<1> QED BY <1>4 DEF T

LEMMA MessagesType ==
    ASSUME NEW q \in Seq(Event) PROVE MessagesIn(q) \in Seq(Event)
BY KeptType DEF MessagesIn

(* The messages of an empty queue, of one that grew, of one whose first    *)
(* event was taken.                                                        *)
LEMMA MessagesOfNone == MessagesIn(<<>>) = <<>>
<1>1. <<>> \in Seq(Event) /\ Len(<<>>) = 0
  OBVIOUS
<1> QED BY <1>1, KeptUnfolds DEF MessagesIn

LEMMA MessagesOfAppend ==
    ASSUME NEW q \in Seq(Event), NEW e \in Event
    PROVE  MessagesIn(Append(q, e)) = Keep(MessagesIn(q), e)
<1> DEFINE r == Append(q, e)
           T == {n \in 0..Len(q) : Kept(r)[n] = Kept(q)[n]}
<1>1. /\ r \in Seq(Event) /\ Len(r) = Len(q) + 1 /\ r[Len(r)] = e
      /\ \A i \in 1..Len(q) : r[i] = q[i]
      /\ Len(q) \in Nat
  OBVIOUS
<1> HIDE DEF r
<1>2. 0 \in T
  BY <1>1, KeptUnfolds
<1>3. ASSUME NEW n \in 0..Len(q), n \in T, n < Len(q) PROVE n + 1 \in T
  <2>1. /\ Kept(q)[n + 1] = Keep(Kept(q)[n], q[n + 1])
        /\ Kept(r)[n + 1] = Keep(Kept(r)[n], r[n + 1])
    BY <1>1, <1>3, KeptUnfolds
  <2> QED BY <1>1, <1>3, <2>1
<1> HIDE DEF T
<1>4. 0..Len(q) \subseteq T
  BY <1>1, <1>2, <1>3, UpTo
<1>5. Kept(r)[Len(q)] = Kept(q)[Len(q)]
  BY <1>1, <1>4 DEF T
<1>6. Kept(r)[Len(r)] = Keep(Kept(r)[Len(q)], e)
  BY <1>1, KeptUnfolds
<1> QED BY <1>5, <1>6 DEF MessagesIn, r

(* Laws of concatenation.                                                   *)
LEMMA AppendAfter ==
    \A a, b \in Seq(Event) : \A x \in Event :
        a \o Append(b, x) = Append(a \o b, x)
OBVIOUS

LEMMA MessagesOfTail ==
    ASSUME NEW q \in Seq(Event), q # <<>>
    PROVE  MessagesIn(q) = Keep(<<>>, Head(q)) \o MessagesIn(Tail(q))
<1> DEFINE r == Tail(q)
           h == Keep(<<>>, Head(q))
           T == {n \in 0..Len(r) : Kept(q)[n + 1] = h \o Kept(r)[n]}
<1>1. /\ r \in Seq(Event) /\ Len(q) = Len(r) + 1
      /\ \A i \in 1..Len(r) : r[i] = q[i + 1]
      /\ Len(r) \in Nat /\ Head(q) = q[1] /\ q[1] \in Event
  OBVIOUS
<1>2. h \in Seq(Event)
  BY <1>1 DEF Keep
<1> HIDE DEF r
<1>3. 0 \in T
  <2>1. Kept(q)[1] = Keep(<<>>, q[1]) /\ Kept(r)[0] = <<>>
    BY <1>1, KeptUnfolds
  <2>2. h \o <<>> = h
    BY <1>2
  <2>3. Kept(q)[0 + 1] = h \o Kept(r)[0]
    BY <1>1, <2>1, <2>2
  <2> HIDE DEF h
  <2> QED BY <1>1, <2>3
<1> HIDE DEF h
<1>4. ASSUME NEW n \in 0..Len(r), n \in T, n < Len(r) PROVE n + 1 \in T
  <2> DEFINE m == n + 2
  <2>1. /\ m \in 1..Len(q) /\ m - 1 = n + 1 /\ n + 1 \in 1..Len(r)
        /\ q[m] = r[n + 1] /\ r[n + 1] \in Event
    BY <1>1, <1>4
  <2>2. Kept(q)[m] = Keep(Kept(q)[n + 1], q[m])
    BY <2>1, KeptUnfolds
  <2>3. Kept(r)[n + 1] = Keep(Kept(r)[n], r[n + 1])
    BY <1>1, <2>1, KeptUnfolds
  <2>4. Kept(r)[n] \in Seq(Event)
    BY <1>1, KeptType
  <2>5. Keep(h \o Kept(r)[n], r[n + 1]) = h \o Keep(Kept(r)[n], r[n + 1])
    <3>1. h \o Append(Kept(r)[n], r[n + 1]) = Append(h \o Kept(r)[n], r[n + 1])
      BY ONLY <1>2, <2>1, <2>4, AppendAfter
    <3> QED BY <3>1 DEF Keep
  <2>6. Kept(q)[n + 1] = h \o Kept(r)[n] /\ (n + 1) + 1 = m
    BY <1>4
  <2> HIDE DEF m
  <2>7. Kept(q)[(n + 1) + 1] = h \o Kept(r)[n + 1]
    BY <2>1, <2>2, <2>3, <2>5, <2>6, Zenon
  <2> QED BY <2>1, <2>7
<1> HIDE DEF T
<1>5. 0..Len(r) \subseteq T
  BY <1>1, <1>3, <1>4, UpTo
<1>6. Kept(q)[Len(q)] = h \o Kept(r)[Len(r)]
  BY <1>1, <1>5 DEF T
<1> QED BY <1>6 DEF MessagesIn, r, h

(* The workers that bring a message of s to its mailbox.                    *)
Carriers(s) == {w \in Worker : /\ serving[w] = s
                               /\ pc[w] \in {"popped", "running"}
                               /\ IsMessage(current[w])}

LEMMA OnTheWayIs ==
    ASSUME NEW s
    PROVE  /\ Carriers(s) = {} => OnTheWay(s) = <<>>
           /\ Carriers(s)' = {} => OnTheWay(s)' = <<>>
           /\ \A w : Carriers(s) = {w} => OnTheWay(s) = <<current[w]>>
           /\ \A w : Carriers(s)' = {w} => OnTheWay(s)' = <<current'[w]>>
           /\ /\ Carriers(s)' = Carriers(s)
              /\ \A w \in Carriers(s) : current'[w] = current[w]
              => OnTheWay(s)' = OnTheWay(s)
<1>1. OnTheWay(s) = IF Carriers(s) = {} THEN <<>>
                    ELSE <<current[CHOOSE w \in Carriers(s) : TRUE]>>
  BY DEF OnTheWay, Carriers
<1>2. OnTheWay(s)' = IF Carriers(s)' = {} THEN <<>>
                     ELSE <<current'[CHOOSE w \in Carriers(s)' : TRUE]>>
  BY DEF OnTheWay, Carriers
<1>3. \A C : C # {} => (CHOOSE w \in C : TRUE) \in C
  OBVIOUS
<1>4. \A w : (CHOOSE v \in {w} : TRUE) = w
  OBVIOUS
<1> HIDE DEF Carriers
<1>5. \A w : Carriers(s) = {w} => OnTheWay(s) = <<current[w]>>
  BY <1>1, <1>4
<1>6. \A w : Carriers(s)' = {w} => OnTheWay(s)' = <<current'[w]>>
  BY <1>2, <1>4
<1>7. ASSUME Carriers(s)' = Carriers(s),
             \A w \in Carriers(s) : current'[w] = current[w]
      PROVE  OnTheWay(s)' = OnTheWay(s)
  <2>1. CASE Carriers(s) = {}
    BY <1>1, <1>2, <1>7, <2>1
  <2>2. CASE Carriers(s) # {}
    <3> DEFINE w == CHOOSE v \in Carriers(s) : TRUE
    <3>1. w \in Carriers(s)
      BY <1>3, <2>2
    <3>2. OnTheWay(s) = <<current[w]>> /\ OnTheWay(s)' = <<current'[w]>>
      BY <1>1, <1>2, <1>7, <2>2
    <3> QED BY <1>7, <3>1, <3>2
  <2> QED BY <2>1, <2>2
<1> QED BY <1>1, <1>2, <1>5, <1>6, <1>7

(* Only the worker that serves a session can bring it a message.            *)
LEMMA OneCarrier ==
    ASSUME BusInv, NEW w \in Worker, pc[w] # "idle"
    PROVE  Carriers(serving[w]) \subseteq {w}
BY DEF Carriers, BusInv, OneTokenPerSession

LEMMA UnconsumedTypes ==
    ASSUME TypeOK, NEW s \in Session
    PROVE  /\ OnTheWay(s) \in Seq(Event)
           /\ MessagesIn(queue[s]) \in Seq(Event)
           /\ Unconsumed(s) \in Seq(Event)
<1>1. OnTheWay(s) \in Seq(Event)
  <2>1. CASE Carriers(s) = {}
    <3>1. <<>> \in Seq(Event)
      OBVIOUS
    <3> QED BY <2>1, <3>1, OnTheWayIs
  <2>2. CASE Carriers(s) # {}
    <3>1. (CHOOSE w \in Carriers(s) : TRUE) \in Carriers(s)
      BY <2>2
    <3>2. OnTheWay(s) = <<current[CHOOSE w \in Carriers(s) : TRUE]>>
      BY <2>2 DEF OnTheWay, Carriers
    <3>3. \A w \in Carriers(s) : current[w] \in Event
      BY DEF Carriers, TypeOK, BusTypeOK
    <3> HIDE DEF Carriers
    <3> QED BY <3>1, <3>2, <3>3
  <2> QED BY <2>1, <2>2
<1>2. MessagesIn(queue[s]) \in Seq(Event)
  BY MessagesType DEF TypeOK, BusTypeOK
<1>3. mailbox[s] \in Seq(Event)
  BY DEF TypeOK
<1> QED BY <1>1, <1>2, <1>3 DEF Unconsumed

(* Handling an event that is no message, or none at all, carries nothing.   *)
LEMMA SameCarriers ==
    ASSUME BusTypeOK, UNCHANGED <<serving, current>>, NEW w \in Worker,
           ~IsMessage(current[w]), pc' \in [Worker -> PC],
           \A v \in Worker \ {w} : pc'[v] = pc[v], NEW s
    PROVE  OnTheWay(s)' = OnTheWay(s)
<1>1. Carriers(s)' = Carriers(s)
  BY DEF Carriers, BusTypeOK
<1> QED BY <1>1, OnTheWayIs

LEMMA SameWorkers ==
    ASSUME UNCHANGED workerVars, NEW s
    PROVE  OnTheWay(s)' = OnTheWay(s)
BY OnTheWayIs DEF Carriers, workerVars

(* An event that is no message leaves the messages on the bus as they are.  *)
LEMMA OtherEventOnBus ==
    ASSUME BusTypeOK, NEW s \in Session, NEW e \in Event, ~IsMessage(e),
           Publish(s, e), NEW r \in Session
    PROVE  MessagesIn(queue'[r]) = MessagesIn(queue[r])
<1>1. CASE r = s
  <2>1. queue[s] \in Seq(Event) /\ queue'[s] = Append(queue[s], e)
    BY DEF Publish, BusTypeOK
  <2> QED BY <1>1, <2>1, MessagesOfAppend DEF Keep
<1>2. CASE r # s
  <2>1. queue'[r] = queue[r]
    BY <1>2 DEF Publish, BusTypeOK
  <2> QED BY <2>1
<1> QED BY <1>1, <1>2

LEMMA WakeupOnBus ==
    ASSUME BusTypeOK, NEW s \in Session, NEW box, NEW source \in Source,
           RequestWakeup(s, box, source), NEW r \in Session
    PROVE  MessagesIn(queue'[r]) = MessagesIn(queue[r])
<1>1. ~IsMessage(Wakeup(source))
  BY DEF IsMessage, Wakeup, MessageKind
<1>2. CASE Publish(s, Wakeup(source))
  BY <1>1, <1>2, WakeupIsEvent, OtherEventOnBus
<1>3. CASE UNCHANGED queueVars
  BY <1>3 DEF queueVars
<1> QED BY <1>2, <1>3 DEF RequestWakeup

LEMMA SameInbox ==
    ASSUME inflight' = inflight,
           \A r \in Session : /\ mailbox'[r] = mailbox[r]
                              /\ OnTheWay(r)' = OnTheWay(r)
                              /\ MessagesIn(queue'[r]) = MessagesIn(queue[r])
    PROVE  UNCHANGED Inbox!abstractVars
BY DEF Inbox!abstractVars, Unconsumed

(* Publishing a message is accepting it.                                    *)
LEMMA SubmitAccepts ==
    ASSUME TypeOK, NEW s \in Session, Submit(s)
    PROVE  [Inbox!Next]_(Inbox!abstractVars)
<1>1. PICK e \in Event : Publish(s, e) /\ (IsMessage(e) => e \in Message)
  BY SubmittedIsEvent
<1>5. /\ inflight' = inflight /\ mailbox' = mailbox
      /\ \A r \in Session : OnTheWay(r)' = OnTheWay(r)
  BY SameWorkers DEF Submit, stateVars
<1>6. CASE ~IsMessage(e)
  BY <1>1, <1>5, <1>6, OtherEventOnBus, SameInbox DEF TypeOK
<1>7. CASE IsMessage(e)
  <2>1. queue[s] \in Seq(Event) /\ queue' = [queue EXCEPT ![s] = Append(@, e)]
    BY <1>1 DEF Publish, TypeOK, BusTypeOK
  <2>2. MessagesIn(queue'[s]) = Append(MessagesIn(queue[s]), e)
    BY <1>1, <1>7, <2>1, MessagesOfAppend DEF Keep, TypeOK, BusTypeOK
  <2>3. Unconsumed(s)' = Append(Unconsumed(s), e)
    <3>1. /\ mailbox[s] \o OnTheWay(s) \in Seq(Event)
          /\ MessagesIn(queue[s]) \in Seq(Event)
      BY UnconsumedTypes DEF TypeOK
    <3>2. (mailbox[s] \o OnTheWay(s)) \o Append(MessagesIn(queue[s]), e)
            = Append((mailbox[s] \o OnTheWay(s)) \o MessagesIn(queue[s]), e)
      BY ONLY <3>1, AppendAfter, e \in Event, Zenon
    <3>3. /\ mailbox'[s] = mailbox[s] /\ OnTheWay(s)' = OnTheWay(s)
          /\ MessagesIn(queue[s])' = Append(MessagesIn(queue[s]), e)
      BY <1>5, <2>2
    <3> QED BY <3>2, <3>3 DEF Unconsumed
  <2>4. \A r \in Session \ {s} : Unconsumed(r)' = Unconsumed(r)
    BY <1>5, <2>1 DEF Unconsumed, TypeOK, BusTypeOK
  <2>5. Inbox!Accept(s, e)
    BY <1>5, <2>3, <2>4 DEF Inbox!Accept
  <2> QED BY <1>1, <1>7, <2>5 DEF Inbox!Next
<1> QED BY <1>6, <1>7

LEMMA Regroup ==
    \A a, h, q \in Seq(Event) : (a \o h) \o q = (a \o <<>>) \o (h \o q)
<1> SUFFICES ASSUME NEW a \in Seq(Event), NEW h \in Seq(Event),
                    NEW q \in Seq(Event)
             PROVE  (a \o h) \o q = (a \o <<>>) \o (h \o q)
  OBVIOUS
<1>1. a \o <<>> = a
  BY ConcatEmptySeq
<1> QED BY <1>1, ConcatAssociative

(* The message a worker takes off the bus is the next one on the way.       *)
LEMMA TakeKeepsInbox ==
    ASSUME TypeOK, BusInv, NEW w \in Worker, Take(w), NEW r \in Session,
           mailbox' = mailbox
    PROVE  Unconsumed(r)' = Unconsumed(r)
<1> USE DEF BusInv, BusTypeOK
<1>1. PICK s \in Session : /\ s = Head(ready) /\ s \in OnReady
                           /\ pc[w] = "idle"
  BY DEF Take, OnReady
<1>2. queue[s] # <<>> /\ queue[s] \in Seq(Event)
  BY <1>1 DEF QueuedMeansScheduled
<1>3. /\ queue' = [queue EXCEPT ![s] = Tail(@)]
      /\ serving' = [serving EXCEPT ![w] = s]
      /\ current' = [current EXCEPT ![w] = Head(queue[s])]
      /\ pc' = [pc EXCEPT ![w] = "popped"]
  BY <1>1, <1>2 DEF Take
<1>4. s \notin Held
  BY <1>1 DEF OneTokenPerSession
<1>5. CASE r # s
  <2>1. Carriers(r)' = Carriers(r) /\ w \notin Carriers(r)
    BY <1>1, <1>3, <1>5 DEF Carriers
  <2>2. OnTheWay(r)' = OnTheWay(r)
    BY <1>3, <2>1, OnTheWayIs DEF Carriers
  <2> QED BY <1>3, <1>5, <2>2 DEF Unconsumed
<1>6. CASE r = s
  <2>1. PICK h \in Event : h = Head(queue[s])
    BY <1>2
  <2>0. Carriers(s) = {}
    BY <1>4 DEF Carriers, Held
  <2>2. Carriers(s)' = IF IsMessage(h) THEN {w} ELSE {}
    <3>1. \A v \in Worker \ {w} : v \notin Carriers(s)'
      BY <1>3, <2>0 DEF Carriers
    <3>2. w \in Carriers(s)' <=> IsMessage(h)
      BY <1>1, <1>3, <2>1 DEF Carriers
    <3>3. \A v \in Carriers(s)' : v \in Worker
      BY DEF Carriers
    <3> HIDE DEF Carriers
    <3> QED BY <3>1, <3>2, <3>3
  <2>3. OnTheWay(s) = <<>> /\ OnTheWay(s)' = Keep(<<>>, h)
    <3>1. current'[w] = h
      BY <1>3, <2>1
    <3>2. Append(<<>>, h) = <<h>>
      BY <2>1
    <3> QED BY <2>0, <2>2, <3>1, <3>2, OnTheWayIs DEF Keep
  <2>4. /\ MessagesIn(queue[s]) = Keep(<<>>, h) \o MessagesIn(queue'[s])
        /\ MessagesIn(queue'[s]) \in Seq(Event)
    <3>1. queue'[s] = Tail(queue[s]) /\ Tail(queue[s]) \in Seq(Event)
      BY <1>1, <1>2, <1>3
    <3> QED BY <1>2, <2>1, <3>1, MessagesOfTail, MessagesType
  <2>5. Keep(<<>>, h) \in Seq(Event) /\ mailbox[s] \in Seq(Event)
    BY <1>1, <2>1 DEF Keep, TypeOK
  <2>6. (mailbox[s] \o Keep(<<>>, h)) \o MessagesIn(queue'[s])
          = (mailbox[s] \o <<>>) \o (Keep(<<>>, h) \o MessagesIn(queue'[s]))
    <3>1. /\ mailbox[s] \in Seq(Event) /\ Keep(<<>>, h) \in Seq(Event)
          /\ MessagesIn(queue'[s]) \in Seq(Event)
      BY <2>4, <2>5
    <3> QED BY ONLY <3>1, Regroup, Zenon
  <2>7. /\ mailbox'[s] = mailbox[s] /\ OnTheWay(s) = <<>>
        /\ OnTheWay(s)' = Keep(<<>>, h)
        /\ MessagesIn(queue[s])' = MessagesIn(queue'[s])
    BY <1>1, <2>3
  <2> QED BY <1>6, <2>4, <2>6, <2>7 DEF Unconsumed
<1> QED BY <1>5, <1>6

(* A message that is put in the mailbox was the one on the way.             *)
LEMMA EnqueueKeepsInbox ==
    ASSUME TypeOK, BusInv, NEW w \in Worker, Moves(w), Handles(w, MessageKind),
           Enqueue(serving[w], current[w]), pc'[w] = "returned",
           \A r \in Session : MessagesIn(queue'[r]) = MessagesIn(queue[r])
    PROVE  UNCHANGED Inbox!abstractVars
<1>1. PICK s \in Session, e \in Event :
         s = serving[w] /\ e = current[w] /\ IsMessage(e)
  BY HandlerFacts DEF BusInv, Handles, IsMessage
<1>2. /\ UNCHANGED <<serving, current>>
      /\ pc[w] \in {"popped", "running"}
      /\ pc' = [pc EXCEPT ![w] = "returned"]
  BY DEF Moves, Suspend, ReturnAtOnce, ReturnLater, Goto, BusInv, BusTypeOK
<1>3. mailbox' = [mailbox EXCEPT ![s] = Append(@, e)] /\ inflight' = inflight
  BY <1>1 DEF Enqueue
<1>4. Carriers(s) = {w} /\ Carriers(s)' = {}
  <2>1. w \in Carriers(s) /\ Carriers(s) \subseteq {w}
    BY <1>1, <1>2, OneCarrier DEF Carriers
  <2>2. \A v : v \in Carriers(s)' => v \in Carriers(s) /\ v # w
    BY <1>2 DEF Carriers, BusInv, BusTypeOK
  <2> QED BY <2>1, <2>2
<1>5. Unconsumed(s)' = Unconsumed(s)
  <2>1. OnTheWay(s) = <<e>> /\ OnTheWay(s)' = <<>>
    BY <1>1, <1>4, OnTheWayIs
  <2>2. /\ mailbox[s] \in Seq(Event) /\ MessagesIn(queue[s]) \in Seq(Event)
        /\ mailbox'[s] = Append(mailbox[s], e)
        /\ MessagesIn(queue'[s]) = MessagesIn(queue[s])
    BY <1>1, <1>3, UnconsumedTypes DEF TypeOK
  <2>3. Append(mailbox[s], e) \o <<>> = mailbox[s] \o <<e>>
    BY ONLY e \in Event, <2>2
  <2>4. Unconsumed(s)' = (Append(mailbox[s], e) \o <<>>) \o MessagesIn(queue[s])
    BY <2>1, <2>2 DEF Unconsumed
  <2> QED BY <2>1, <2>3, <2>4 DEF Unconsumed
<1>6. ASSUME NEW r \in Session, r # s PROVE Unconsumed(r)' = Unconsumed(r)
  <2>1. Carriers(r)' = Carriers(r)
    BY <1>1, <1>2, <1>6 DEF Carriers, BusInv, BusTypeOK
  <2>2. OnTheWay(r)' = OnTheWay(r)
    BY <1>2, <2>1, OnTheWayIs
  <2> QED BY <1>3, <1>6, <2>2 DEF Unconsumed, TypeOK
<1>7. \A r \in Session : Unconsumed(r)' = Unconsumed(r)
  BY <1>5, <1>6
<1> HIDE DEF Unconsumed
<1> QED BY <1>3, <1>7 DEF Inbox!abstractVars

(* A turn consumes the whole mailbox, which is a prefix of the inbox.       *)
LEMMA TurnConsumesPrefix ==
    ASSUME TypeOK, BusInv, InflightIsOneTurn, MailboxInv,
           NEW w \in Worker, StartTurn(w)
    PROVE  Inbox!Next
<1>1. PICK s \in Session : /\ s = serving[w]
                           /\ pc[w] = "popped" /\ ~IsMessage(current[w])
  BY HandlerFacts DEF StartTurn, AwaitTurn, Suspend, Goto, Moves, BusInv,
                      BusTypeOK, Handles, IsMessage, MessageKind
<1>2. /\ s \notin inflight /\ inflight' = inflight \cup {s}
      /\ mailbox' = [mailbox EXCEPT ![s] = <<>>]
      /\ queue' = queue
      /\ UNCHANGED <<serving, current>> /\ pc' = [pc EXCEPT ![w] = "running"]
  BY <1>1 DEF StartTurn, RunsTurn, queueVars, AwaitTurn, Suspend, Goto
<1>3. mailbox[s] # <<>> /\ Triggerable(mailbox[s])
  BY <1>1 DEF StartTurn, RunsTurn, MailboxInv, NoIdleRecord
<1>4. /\ mailbox[s] \in Seq(Event) /\ MessagesIn(queue[s]) \in Seq(Event)
  BY <1>1, UnconsumedTypes DEF TypeOK
<1>5. OnTheWay(s) = <<>>
  <2>1. Carriers(s) = {}
    BY <1>1, OneCarrier DEF Carriers
  <2> QED BY <2>1, OnTheWayIs
<1>6. \A r \in Session : OnTheWay(r)' = OnTheWay(r)
  BY <1>1, <1>2, SameCarriers DEF BusInv, BusTypeOK, PC
<1>0. PICK n \in Nat : n = Len(mailbox[s])
  BY <1>4
<1>7. /\ Unconsumed(s) = mailbox[s] \o MessagesIn(queue[s])
      /\ Unconsumed(s)' = MessagesIn(queue[s])
  <2>1. /\ mailbox[s] \o <<>> = mailbox[s]
        /\ <<>> \o <<>> \o MessagesIn(queue[s]) = MessagesIn(queue[s])
    BY <1>4
  <2>2. mailbox'[s] = <<>>
    BY <1>1, <1>2 DEF TypeOK
  <2>3. OnTheWay(s)' = <<>> /\ MessagesIn(queue[s])' = MessagesIn(queue[s])
    BY <1>1, <1>2, <1>5, <1>6
  <2> QED BY <1>5, <2>1, <2>2, <2>3 DEF Unconsumed
<1>8. /\ n \in 1..Len(Unconsumed(s))
      /\ SubSeq(Unconsumed(s), 1, n) = mailbox[s]
      /\ SubSeq(Unconsumed(s), n + 1, Len(Unconsumed(s))) = Unconsumed(s)'
  <2> DEFINE m == mailbox[s]
             q == MessagesIn(queue[s])
  <2>1. m \in Seq(Event) /\ q \in Seq(Event) /\ m # <<>>
    BY <1>3, <1>4
  <2> HIDE DEF m, q
  <2>2. /\ Len(m) \in 1..Len(m \o q)
        /\ SubSeq(m \o q, 1, Len(m)) = m
        /\ SubSeq(m \o q, Len(m) + 1, Len(m \o q)) = q
    BY ONLY <2>1
  <2> QED BY <1>0, <1>7, <2>2 DEF m, q
<1>9. Inbox!AsksForTurn(SubSeq(Unconsumed(s), 1, n))
  BY <1>3, <1>8 DEF Inbox!AsksForTurn, Triggerable
<1>10. \A r \in Session \ {s} : Unconsumed(r)' = Unconsumed(r)
  BY <1>2, <1>6 DEF Unconsumed, TypeOK
<1> DEFINE inbox == [r \in Session |-> Unconsumed(r)]
<1>11. inbox' = [inbox EXCEPT ![s] =
                    SubSeq(inbox[s], n + 1, Len(inbox[s]))]
  <2> HIDE DEF Unconsumed
  <2> QED BY <1>1, <1>8, <1>10
<1>12. Inbox!StartTurn(s)
  BY <1>1, <1>2, <1>8, <1>9, <1>11 DEF Inbox!StartTurn
<1> QED BY <1>1, <1>12 DEF Inbox!Next

(* Every step of the scheduler is a step of the inbox or leaves it alone.   *)
LEMMA StepImplementsInbox ==
    ASSUME TypeOK, BusInv, InflightIsOneTurn, MailboxInv, [Next]_vars
    PROVE  [Inbox!Next]_(Inbox!abstractVars)
<1> DEFINE SameBus == \A r \in Session : MessagesIn(queue'[r]) = MessagesIn(queue[r])
<1> USE DEF BusInv
<1>1. ASSUME NEW s \in Session, Submit(s)
      PROVE  [Inbox!Next]_(Inbox!abstractVars)
  BY <1>1, SubmitAccepts
<1>2. ASSUME NEW s \in Session, DebounceFires(s) \/ HeartbeatTick(s)
      PROVE  UNCHANGED Inbox!abstractVars
  <2>1. \E source \in Source : RequestWakeup(s, mailbox[s], source)
    BY <1>2 DEF DebounceFires, HeartbeatTick, Source, InternalSource
  <2>2. SameBus
    BY <2>1, WakeupOnBus
  <2>3. inflight' = inflight /\ mailbox' = mailbox /\ UNCHANGED workerVars
    BY <1>2 DEF DebounceFires, HeartbeatTick
  <2> QED BY <2>2, <2>3, SameWorkers, SameInbox
<1>3. ASSUME NEW w \in Worker, BusStep(w)
      PROVE  UNCHANGED Inbox!abstractVars
  <2>1. inflight' = inflight /\ mailbox' = mailbox
    BY <1>3 DEF BusStep, stateVars
  <2>2. CASE Take(w)
    <3>1. \A r \in Session : Unconsumed(r)' = Unconsumed(r)
      BY <2>1, <2>2, TakeKeepsInbox
    <3> HIDE DEF Unconsumed
    <3> QED BY <2>1, <3>1 DEF Inbox!abstractVars
  <2>3. CASE Reschedule(w)
    <3>1. /\ pc[w] = "returned" /\ queue' = queue
          /\ serving' = [serving EXCEPT ![w] = None]
          /\ current' = [current EXCEPT ![w] = None]
          /\ pc' = [pc EXCEPT ![w] = "idle"]
      BY <2>3 DEF Reschedule, Release
    <3>2. ASSUME NEW r \in Session PROVE OnTheWay(r)' = OnTheWay(r)
      <4>1. Carriers(r)' = Carriers(r) /\ w \notin Carriers(r)
        BY <3>1 DEF Carriers, BusTypeOK
      <4>2. \A v \in Carriers(r) : current'[v] = current[v]
        BY <3>1, <4>1 DEF Carriers, BusTypeOK
      <4> QED BY <4>1, <4>2, OnTheWayIs
    <3> QED BY <2>1, <3>1, <3>2, SameInbox
  <2> QED BY <1>3, <2>2, <2>3 DEF BusStep
<1>4. ASSUME NEW w \in Worker, Handle(w)
      PROVE  [Inbox!Next]_(Inbox!abstractVars)
  <2>1. /\ Moves(w) /\ serving[w] \in Session /\ current[w] \in Event
        /\ UNCHANGED <<serving, current>>
        /\ pc[w] \in {"popped", "running"} /\ pc' \in [Worker -> PC]
        /\ \A v \in Worker \ {w} : pc'[v] = pc[v]
        /\ \E to \in {"running", "returned"} : pc' = [pc EXCEPT ![w] = to]
    BY <1>4, HandleMoves, HandlerFacts
       DEF Moves, Suspend, ReturnAtOnce, ReturnLater, Goto, BusTypeOK, PC
  <2>2. CASE PersistText(w)
    <3>1. \A r \in Session : Carriers(r)' = Carriers(r)
      BY <2>1, <2>2 DEF Carriers, PersistText, Suspend, Goto, BusTypeOK
    <3>2. \A r \in Session : OnTheWay(r)' = OnTheWay(r)
      BY <2>1, <3>1, OnTheWayIs
    <3> QED BY <2>2, <3>2, SameInbox DEF PersistText, queueVars, stateVars
  <2>3. CASE HandleUserMessage(w) \/ HandleSubtaskCompleted(w)
    <3>1. /\ Handles(w, MessageKind) /\ Enqueue(serving[w], current[w])
          /\ pc'[w] = "returned"
      BY <2>1, <2>3
         DEF HandleUserMessage, HandleSubtaskCompleted, Handles, MessageKind,
             ReturnAtOnce, ReturnLater, Goto, BusTypeOK
    <3>2. SameBus
      <4>1. CASE UNCHANGED queueVars
        BY <4>1 DEF queueVars
      <4>2. CASE \E source \in Source :
                    RequestWakeup(serving[w], mailbox'[serving[w]], source)
        BY <2>1, <4>2, WakeupOnBus
      <4> QED BY <2>3, <4>1, <4>2
              DEF HandleUserMessage, HandleSubtaskCompleted, Source, InternalSource
    <3> QED BY <2>1, <3>1, <3>2, EnqueueKeepsInbox
  <2>4. CASE HandlePluginEvent(w) \/ DropWakeup(w)
    <3>1. ~IsMessage(current[w]) /\ queue' = queue /\ mailbox' = mailbox
          /\ inflight' = inflight
      BY <2>4 DEF HandlePluginEvent, DropWakeup, Handles, IsMessage, MessageKind,
                  queueVars, stateVars
    <3> QED BY <2>1, <3>1, SameCarriers, SameInbox
  <2>5. CASE StartTurn(w)
    BY <2>5, TurnConsumesPrefix
  <2>6. CASE EndTurn(w)
    <3>1. /\ InTurn(w) /\ ~IsMessage(current[w]) /\ mailbox' = mailbox
          /\ inflight' = inflight \ {serving[w]}
      BY <2>6 DEF EndTurn, InTurn, ReturnLater, Goto, Handles, IsMessage,
                  MessageKind
    <3>2. serving[w] \in inflight /\ mailbox[serving[w]] = <<>>
      BY <3>1 DEF InflightIsOneTurn, MailboxInv, MailboxQuietDuringTurn
    <3>3. queue' = queue
      BY <2>6, <3>2, NobodyTriggersNothing DEF EndTurn, queueVars
    <3>4. \A r \in Session : OnTheWay(r)' = OnTheWay(r)
      BY <2>1, <3>1, SameCarriers
    <3>5. \A r \in Session : Unconsumed(r)' = Unconsumed(r)
      BY <3>1, <3>3, <3>4 DEF Unconsumed
    <3> HIDE DEF Unconsumed
    <3>6. Inbox!EndTurn(serving[w])
      BY <3>1, <3>2, <3>5 DEF Inbox!EndTurn
    <3> QED BY <2>1, <3>6 DEF Inbox!Next
  <2> QED BY <1>4, <2>2, <2>3, <2>4, <2>5, <2>6 DEF Handle
<1>5. CASE UNCHANGED vars
  <2>1. /\ inflight' = inflight /\ mailbox' = mailbox /\ UNCHANGED workerVars
        /\ queue' = queue
    BY <1>5 DEF vars, busVars, queueVars, stateVars
  <2> QED BY <2>1, SameWorkers, SameInbox
<1> QED BY <1>1, <1>2, <1>3, <1>4, <1>5 DEF Next

(* For every number of sessions, workers and events: no message is lost,    *)
(* duplicated or reordered between its submission and the turn that        *)
(* consumes it, a turn consumes a prefix of what is kept that asks for a   *)
(* turn, and a session runs one turn at a time.                            *)
THEOREM InboxIsKept == SafeSpec => ImplementsInboxSafely
<1>1. Init => Inbox!Init
  <2> SUFFICES ASSUME Init PROVE Inbox!Init
    OBVIOUS
  <2>1. ASSUME NEW s \in Session PROVE Unconsumed(s) = <<>>
    <3>1. Carriers(s) = {}
      BY DEF Init, BusInit, Carriers
    <3>2. OnTheWay(s) = <<>>
      BY <3>1, OnTheWayIs
    <3>3. mailbox[s] = <<>> /\ queue[s] = <<>>
      BY DEF Init, BusInit
    <3>4. <<>> \o <<>> \o <<>> = <<>>
      OBVIOUS
    <3> QED BY <3>2, <3>3, <3>4, MessagesOfNone DEF Unconsumed
  <2> HIDE DEF Unconsumed
  <2> QED BY <2>1 DEF Init, Inbox!Init
<1>2. TypeOK /\ BusInv /\ InflightIsOneTurn /\ MailboxInv /\ [Next]_vars
        => [Inbox!Next]_(Inbox!abstractVars)
  BY StepImplementsInbox
<1>3. MailboxQuietDuringTurn /\ NoIdleRecord => MailboxInv
  BY DEF MailboxInv
<1> QED BY <1>1, <1>2, <1>3, SchedulerTypes, OneTurnPerSession,
           MailboxesAreQuiet, PTL
        DEF SafeSpec, ImplementsInboxSafely, Inbox!SafeSpec
=============================================================================
