-------------------------- MODULE SessionScheduler --------------------------
(***************************************************************************)
(* RuntimeSessionScheduler of                                              *)
(* src/fairyclaw/core/events/session_scheduler.py on top of the event bus: *)
(* a mailbox per session, the debounce timers of user messages, the        *)
(* WAKEUP_REQUESTED events the scheduler sends to itself through the bus,  *)
(* and the planner turns those events start.                               *)
(*                                                                         *)
(* As on the bus, no block under state_lock suspends, so a block and the   *)
(* publish that follows it are one step.  What the planner does in a turn  *)
(* is abstracted to the events it publishes, which Submit may do while any *)
(* turn runs; turns end (process_background_turn swallows their failures). *)
(* Heartbeat times are only logged, so they are left out.                  *)
(***************************************************************************)
EXTENDS EventBus

CONSTANT MaxSubmit      \* bound: the events that outsiders publish

MessageKind == {"user_message_received", "internal_text", "subtask_completed"}

(* "internal_text" is a USER_MESSAGE_RECEIVED whose payload carries an      *)
(* internal_user_text; "plugin" every event type that goes to the plugin   *)
(* dispatcher (file uploads, forced finishes, events of capabilities).     *)
Kind == MessageKind \cup {"wakeup_requested", "plugin"}

(* The sources the scheduler itself puts on its wakeups.                    *)
InternalSource ==
    {"event_bus", "heartbeat_watchdog", "debounce_timer", "subtask_completed"}

Source == InternalSource \cup {"capability"}

Message == [kind : MessageKind, id : 1..MaxSubmit,
            trig : BOOLEAN, source : {"capability"}]

RuntimeEvent == Message \cup [kind : Kind \ MessageKind, id : 0..MaxSubmit,
                              trig : {FALSE}, source : Source]

ASSUME SchedulerAssumption == MaxSubmit \in Nat /\ Event = RuntimeEvent

VARIABLES
    states,         \* the sessions that have a record in session_states
    mailbox,        \* mailbox[s] of that record, <<>> without one
    inflight,       \* the sessions whose record has inflight = True
    wakeup_queued,  \* the sessions whose record has wakeup_queued = True
    debounce,       \* the sessions whose debounce task is asleep
    submitted       \* how many events outsiders have published

stateVars == <<states, mailbox, inflight, wakeup_queued>>
vars == <<busVars, stateVars, debounce, submitted>>

TypeOK == /\ BusTypeOK
          /\ states \in SUBSET Session
          /\ mailbox \in [Session -> Seq(Event)]
          /\ inflight \in SUBSET Session
          /\ wakeup_queued \in SUBSET Session
          /\ debounce \in SUBSET Session
          /\ submitted \in 0..MaxSubmit

Init == /\ BusInit
        /\ states = {}
        /\ mailbox = [s \in Session |-> <<>>]
        /\ inflight = {}
        /\ wakeup_queued = {}
        /\ debounce = {}
        /\ submitted = 0

IsMessage(e) == e.kind \in MessageKind

(* has_triggerable_mailbox_events                                           *)
Triggerable(box) == \E i \in 1..Len(box) : box[i].trig

Wakeup(source) == [kind |-> "wakeup_requested", id |-> 0,
                   trig |-> FALSE, source |-> source]

(* Mutant of RequestWakeup: the flag without the event.                     *)
RequestWakeupSilently(s, box, source) ==
    /\ wakeup_queued' = IF Triggerable(box) /\ s \notin inflight
                          THEN wakeup_queued \cup {s} ELSE wakeup_queued
    /\ UNCHANGED queueVars

(* request_wakeup_if_needed for a session whose mailbox is box.             *)
RequestWakeup(s, box, source) ==
    IF Triggerable(box) /\ s \notin inflight \cup wakeup_queued
      THEN /\ wakeup_queued' = wakeup_queued \cup {s}
           /\ Publish(s, Wakeup(source))
      ELSE UNCHANGED <<wakeup_queued, queueVars>>
-----------------------------------------------------------------------------
(* Anything that is not the scheduler publishes an event: the ingress      *)
(* service, the planner's follow-up after a tool call, the timer watchdog, *)
(* the sub-task coordinator, a capability script, a hook.  Only scripts of *)
(* the SDK publish messages that ask for no turn.                          *)
MayBeSubmitted(e) ==
    /\ e.kind \in {"internal_text", "subtask_completed"} => e.trig
    /\ e.trig => IsMessage(e)

Submit(s) ==
    /\ submitted < MaxSubmit
    /\ submitted' = submitted + 1
    /\ \E k \in Kind, t \in BOOLEAN :
         LET e == [kind |-> k, id |-> submitted', trig |-> t,
                   source |-> "capability"]
         IN MayBeSubmitted(e) /\ Publish(s, e)
    /\ UNCHANGED <<workerVars, stateVars, debounce>>

(* Mutants of Enqueue: the payload in place of the envelope; the newest     *)
(* event first.                                                            *)
EnqueueBare(s, e) ==
    /\ states' = states \cup {s}
    /\ mailbox' = [mailbox EXCEPT ![s] = Append(@, [trig |-> e.trig])]
    /\ UNCHANGED inflight

EnqueueInFront(s, e) ==
    /\ states' = states \cup {s}
    /\ mailbox' = [mailbox EXCEPT ![s] = <<e>> \o @]
    /\ UNCHANGED inflight

(* Put an event in the mailbox of its session, creating the record.         *)
Enqueue(s, e) ==
    /\ states' = states \cup {s}
    /\ mailbox' = [mailbox EXCEPT ![s] = Append(@, e)]
    /\ UNCHANGED inflight

(* Mutant of StartDebounce: only the message that finds the mailbox empty  *)
(* starts one.                                                             *)
StartDebounceOnce(s, e) ==
    debounce' = IF e.trig /\ mailbox[s] = <<>> THEN debounce \cup {s} ELSE debounce

(* A message that asks for a turn starts a debounce task unless the        *)
(* session has a live one.                                                 *)
StartDebounce(s, e) ==
    debounce' = IF e.trig THEN debounce \cup {s} ELSE debounce

(* on_event: what worker w is handling is an event of one of these kinds.   *)
Handles(w, kinds) == current[w] # None /\ current[w].kind \in kinds

(* _handle_user_message awaits the write of an internal_user_text.          *)
PersistText(w) ==
    /\ Handles(w, {"internal_text"})
    /\ Suspend(w)
    /\ UNCHANGED <<queueVars, stateVars, debounce, submitted>>

(* The rest of _handle_user_message.                                        *)
HandleUserMessage(w) ==
    /\ \/ Handles(w, {"user_message_received"}) /\ ReturnAtOnce(w)
       \/ Handles(w, {"internal_text"}) /\ ReturnLater(w)
    /\ Enqueue(serving[w], current[w])
    /\ StartDebounce(serving[w], current[w])
    /\ UNCHANGED <<queueVars, wakeup_queued, submitted>>

(* _handle_subtask_completed: no debounce of its own, and no wakeup while   *)
(* one of the session's user messages is debounced.                        *)
HandleSubtaskCompleted(w) ==
    LET s == serving[w]
        e == current[w] IN
    /\ Handles(w, {"subtask_completed"})
    /\ ReturnAtOnce(w)
    /\ Enqueue(s, e)
    /\ IF e.trig /\ s \notin debounce
         THEN RequestWakeup(s, mailbox'[s], "subtask_completed")
         ELSE UNCHANGED <<wakeup_queued, queueVars>>
    /\ UNCHANGED <<debounce, submitted>>

(* EventPluginDispatcher.dispatch: hooks run, or none is bound.             *)
HandlePluginEvent(w) ==
    /\ Handles(w, {"plugin"})
    /\ Suspend(w) \/ ReturnAtOnce(w) \/ ReturnLater(w)
    /\ UNCHANGED <<queueVars, stateVars, debounce, submitted>>

(* run_session runs a turn for a wakeup unless the session has no record,  *)
(* is in a turn, has an empty mailbox (a wakeup from outside is let pass)  *)
(* or only messages that ask for no turn.                                  *)
RunsTurn(s, source) ==
    /\ s \in states
    /\ s \notin inflight
    /\ mailbox[s] = <<>> => source \notin InternalSource
    /\ mailbox[s] # <<>> => Triggerable(mailbox[s])

DropWakeup(w) ==
    /\ Handles(w, {"wakeup_requested"})
    /\ ~RunsTurn(serving[w], current[w].source)
    /\ ReturnAtOnce(w)
    /\ wakeup_queued' = wakeup_queued \ {serving[w]}
    /\ UNCHANGED <<queueVars, states, mailbox, inflight, debounce, submitted>>

(* Mutant of AwaitTurn: the turn is a task the handler does not wait for.   *)
DetachTurn(w) == ReturnAtOnce(w)

AwaitTurn(w) == Suspend(w)

(* run_session up to the planner: the mailbox is consumed.  In a           *)
(* sub-session the groups are routed first; that wait is in the turn.      *)
StartTurn(w) ==
    LET s == serving[w] IN
    /\ Handles(w, {"wakeup_requested"})
    /\ RunsTurn(s, current[w].source)
    /\ AwaitTurn(w)
    /\ wakeup_queued' = wakeup_queued \ {s}
    /\ inflight' = inflight \cup {s}
    /\ mailbox' = [mailbox EXCEPT ![s] = <<>>]
    /\ UNCHANGED <<queueVars, states, debounce, submitted>>

(* A session without messages loses its record at the end of a turn.        *)
DropIdleRecord(s) == states' = IF mailbox[s] = <<>> THEN states \ {s} ELSE states

(* The finally block of run_session: messages that came meanwhile get a    *)
(* wakeup; the flag goes with the record.                                  *)
EndTurn(w) ==
    LET s == serving[w] IN
    /\ Handles(w, {"wakeup_requested"})
    /\ ReturnLater(w)
    /\ inflight' = inflight \ {s}
    /\ IF Triggerable(mailbox[s]) /\ s \notin wakeup_queued
         THEN /\ wakeup_queued' = wakeup_queued \cup {s}
              /\ Publish(s, Wakeup("event_bus"))
         ELSE /\ wakeup_queued' = IF mailbox[s] = <<>> THEN wakeup_queued \ {s}
                                                       ELSE wakeup_queued
              /\ UNCHANGED queueVars
    /\ DropIdleRecord(s)
    /\ UNCHANGED <<mailbox, debounce, submitted>>

(* The debounce task of s wakes up, asks for a wakeup and ends.             *)
DebounceFires(s) ==
    /\ s \in debounce
    /\ debounce' = debounce \ {s}
    /\ RequestWakeup(s, mailbox[s], "debounce_timer")
    /\ UNCHANGED <<workerVars, states, mailbox, inflight, submitted>>

(* heartbeat_watchdog looks at s.                                           *)
HeartbeatTick(s) ==
    /\ RequestWakeup(s, mailbox[s], "heartbeat_watchdog")
    /\ UNCHANGED <<workerVars, states, mailbox, inflight, debounce, submitted>>

(* What the bus does between handlers.                                      *)
BusStep(w) == /\ Take(w) \/ Reschedule(w)
              /\ UNCHANGED <<stateVars, debounce, submitted>>

Handle(w) == \/ PersistText(w)
             \/ HandleUserMessage(w)
             \/ HandleSubtaskCompleted(w)
             \/ HandlePluginEvent(w)
             \/ DropWakeup(w)
             \/ StartTurn(w)
             \/ EndTurn(w)

Next == \/ \E s \in Session : Submit(s) \/ DebounceFires(s) \/ HeartbeatTick(s)
        \/ \E w \in Worker : BusStep(w) \/ Handle(w)

SafeSpec == Init /\ [][Next]_vars

(* Tasks that can go on do, sleeps end, and handlers and turns return.  No *)
(* fairness is assumed of the watchdog, nor of anybody who submits.        *)
Fairness == /\ \A w \in Worker : WF_vars(BusStep(w)) /\ WF_vars(Handle(w))
            /\ \A s \in Session : WF_vars(DebounceFires(s))

Spec == SafeSpec /\ Fairness
-----------------------------------------------------------------------------
InTurn(w) == pc[w] = "running" /\ Handles(w, {"wakeup_requested"})

(* A session is marked inflight exactly while one worker runs its turn.     *)
InflightIsOneTurn ==
    /\ inflight = {serving[w] : w \in {v \in Worker : InTurn(v)}}
    /\ \A v, w \in Worker :
         InTurn(v) /\ InTurn(w) /\ serving[v] = serving[w] => v = w

(* Nothing reaches a mailbox while its session is in a turn: the bus holds *)
(* the session's events back.  The requeue in the finally block of         *)
(* run_session never has anything to requeue.                              *)
MailboxQuietDuringTurn == \A s \in inflight : mailbox[s] = <<>>

(* A record exists only for a session that is in a turn or has messages,   *)
(* so session_states does not grow with the sessions ever seen.            *)
NoIdleRecord == states = inflight \cup {s \in Session : mailbox[s] # <<>>}

(* A wakeup for s waits in its queue, or a worker has just taken it.        *)
WakeupOnItsWay(s) ==
    \/ \E i \in 1..Len(queue[s]) : queue[s][i].kind = "wakeup_requested"
    \/ \E w \in Worker : /\ pc[w] = "popped" /\ serving[w] = s
                         /\ Handles(w, {"wakeup_requested"})

(* The debounce timer, the watchdog, the handlers and the end of a turn    *)
(* share one flag that keeps the others from asking for a wakeup; it is    *)
(* never left True without a wakeup on its way, or the session would not   *)
(* be woken again (request_wakeup_if_needed, run_session).                 *)
WakeupFlagIsHonest == \A s \in wakeup_queued : WakeupOnItsWay(s)

(* A session whose mailbox asks for a turn has a debounce timer running or *)
(* a wakeup queued: the watchdog is never the only one that would wake it. *)
NoStrandedMessage ==
    \A s \in Session : Triggerable(mailbox[s]) /\ s \notin inflight
                         => s \in debounce \cup wakeup_queued

-----------------------------------------------------------------------------
(* The messages among the events of q, in their order: kept[i] has those   *)
(* of its first i events.                                                  *)
Keep(box, e) == IF IsMessage(e) THEN Append(box, e) ELSE box

Kept(q) == LET kept[i \in 0..Len(q)] ==
                   IF i = 0 THEN <<>> ELSE Keep(kept[i - 1], q[i])
           IN  kept

MessagesIn(q) == Kept(q)[Len(q)]

(* The messages of s that no turn has consumed: the mailbox, then the one  *)
(* a worker is bringing to it, then those still on the bus.                *)
OnTheWay(s) ==
    LET carriers == {w \in Worker : /\ serving[w] = s
                                    /\ pc[w] \in {"popped", "running"}
                                    /\ IsMessage(current[w])}
    IN IF carriers = {} THEN <<>> ELSE <<current[CHOOSE w \in carriers : TRUE]>>

Unconsumed(s) == mailbox[s] \o OnTheWay(s) \o MessagesIn(queue[s])

Inbox == INSTANCE SessionInbox
            WITH inbox <- [s \in Session |-> Unconsumed(s)],
                 turns <- inflight

(* No message is lost, duplicated or reordered between submission and the  *)
(* turn that consumes it, and a message that asks for a turn gets one.     *)
ImplementsInbox == Inbox!Spec

(* The same without the liveness part.                                     *)
ImplementsInboxSafely == Inbox!SafeSpec

(* What the SDK says of request_planner_wakeup: it resumes the planner, to *)
(* be used without a user message.  A wakeup from a capability that a      *)
(* worker is handling starts a turn unless one is running.                 *)
NudgeResumesPlanner ==
    [][\A w \in Worker :
         /\ pc[w] = "popped" /\ pc'[w] # "popped"
         /\ Handles(w, {"wakeup_requested"})
         /\ current[w].source = "capability"
         => serving[w] \in inflight']_vars
=============================================================================
