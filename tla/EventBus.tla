------------------------------ MODULE EventBus ------------------------------
(***************************************************************************)
(* SessionEventBus of src/fairyclaw/core/events/bus.py: one FIFO of events *)
(* per session, one FIFO of the sessions that have events ("ready"), a set *)
(* of sessions that are ready or being served ("scheduled"), and a fixed   *)
(* number of worker tasks.                                                 *)
(*                                                                         *)
(* Atomicity.  Every coroutine runs on one asyncio loop and gives it up    *)
(* only where an await really suspends.  No block under the bus's lock     *)
(* suspends (Queue.put on an unbounded queue never does), so the lock is   *)
(* never contended and each block is one step.  A worker suspends where it *)
(* waits for the ready queue and where it waits for the handlers; these    *)
(* are the boundaries of the actions below.                                *)
(*                                                                         *)
(* A key missing from _session_queues and a key with an empty queue are    *)
(* handled alike everywhere, so both are the empty sequence here.          *)
(***************************************************************************)
EXTENDS Naturals, Sequences

CONSTANTS
    Session,    \* session ids
    Event,      \* runtime events
    Worker,     \* worker tasks, settings.event_bus_worker_count of them
    None        \* no session, no event

ASSUME BusAssumption == /\ None \notin Session
                        /\ None \notin Event

VARIABLES
    queue,      \* _session_queues
    ready,      \* _ready_sessions
    scheduled,  \* _scheduled_sessions
    serving,    \* serving[w]: the session worker w took off the ready queue
    current,    \* current[w]: the event worker w popped
    pc          \* pc[w]: where worker w is in its loop

queueVars == <<queue, ready, scheduled>>
workerVars == <<serving, current, pc>>
busVars == <<queueVars, workerVars>>

(* A worker waits for a ready session ("idle"), has popped an event whose   *)
(* handler task has not run yet ("popped"), waits for a handler that is     *)
(* suspended ("running"), or has its handlers' results ("returned").        *)
PC == {"idle", "popped", "running", "returned"}

BusTypeOK == /\ queue \in [Session -> Seq(Event)]
             /\ ready \in Seq(Session)
             /\ scheduled \in SUBSET Session
             /\ serving \in [Worker -> Session \cup {None}]
             /\ current \in [Worker -> Event \cup {None}]
             /\ pc \in [Worker -> PC]
             /\ \A w \in Worker : IF pc[w] = "idle"
                                   THEN serving[w] = None /\ current[w] = None
                                   ELSE serving[w] # None /\ current[w] # None

BusInit == /\ queue = [s \in Session |-> <<>>]
           /\ ready = <<>>
           /\ scheduled = {}
           /\ serving = [w \in Worker |-> None]
           /\ current = [w \in Worker |-> None]
           /\ pc = [w \in Worker |-> "idle"]

OnReady == {ready[i] : i \in 1..Len(ready)}

Held == {serving[w] : w \in {v \in Worker : pc[v] # "idle"}}
-----------------------------------------------------------------------------
(* Mutant of Publish: the ready queue without the test on scheduled.       *)
PublishAlwaysReady(s, e) ==
    /\ queue' = [queue EXCEPT ![s] = Append(@, e)]
    /\ scheduled' = scheduled \cup {s}
    /\ ready' = Append(ready, s)

(* publish(): append to the session's queue and make the session ready     *)
(* unless it is scheduled already.                                         *)
Publish(s, e) ==
    /\ queue' = [queue EXCEPT ![s] = Append(@, e)]
    /\ scheduled' = scheduled \cup {s}
    /\ ready' = IF s \in scheduled THEN ready ELSE Append(ready, s)

(* Mutant of Take: the newest event first.                                  *)
TakeNewest(w) ==
    /\ pc[w] = "idle"
    /\ ready # <<>>
    /\ ready' = Tail(ready)
    /\ LET s == Head(ready)
           n == Len(queue[s]) IN
       /\ queue' = [queue EXCEPT ![s] = SubSeq(@, 1, n - 1)]
       /\ serving' = [serving EXCEPT ![w] = s]
       /\ current' = [current EXCEPT ![w] = queue[s][n]]
       /\ pc' = [pc EXCEPT ![w] = "popped"]
       /\ UNCHANGED scheduled

(* _worker_loop up to the await of _dispatch: take the first ready session *)
(* and _pop_next_event of it.  A session whose queue is empty is no longer *)
(* scheduled and the worker goes back to wait.                             *)
Take(w) ==
    /\ pc[w] = "idle"
    /\ ready # <<>>
    /\ ready' = Tail(ready)
    /\ LET s == Head(ready) IN
       IF queue[s] = <<>>
         THEN /\ scheduled' = scheduled \ {s}
              /\ UNCHANGED <<queue, workerVars>>
         ELSE /\ queue' = [queue EXCEPT ![s] = Tail(@)]
              /\ serving' = [serving EXCEPT ![w] = s]
              /\ current' = [current EXCEPT ![w] = Head(queue[s])]
              /\ pc' = [pc EXCEPT ![w] = "popped"]
              /\ UNCHANGED scheduled

(* The handlers gathered by _dispatch suspend, or return; gather swallows  *)
(* their exceptions, so an event is never dispatched twice.                *)
Goto(w, from, to) ==
    /\ pc[w] = from
    /\ pc' = [pc EXCEPT ![w] = to]
    /\ UNCHANGED <<serving, current>>

Suspend(w) == Goto(w, "popped", "running")
ReturnAtOnce(w) == Goto(w, "popped", "returned")
ReturnLater(w) == Goto(w, "running", "returned")

Release(w) == /\ pc' = [pc EXCEPT ![w] = "idle"]
              /\ serving' = [serving EXCEPT ![w] = None]
              /\ current' = [current EXCEPT ![w] = None]

(* Mutants of Reschedule: the queue is not looked at; the worker keeps the *)
(* session it has served.                                                  *)
RescheduleForgets(w) ==
    /\ pc[w] = "returned"
    /\ scheduled' = scheduled \ {serving[w]}
    /\ Release(w)
    /\ UNCHANGED <<queue, ready>>

RescheduleWithoutRelease(w) ==
    /\ pc[w] = "returned"
    /\ ready' = Append(ready, serving[w])
    /\ pc' = [pc EXCEPT ![w] = "idle"]
    /\ UNCHANGED <<queue, scheduled, serving, current>>

(* _reschedule_session: a session with events goes to the back of ready,   *)
(* one without is no longer scheduled.                                     *)
Reschedule(w) ==
    /\ pc[w] = "returned"
    /\ LET s == serving[w] IN
       IF queue[s] = <<>>
         THEN scheduled' = scheduled \ {s} /\ UNCHANGED ready
         ELSE ready' = Append(ready, s) /\ UNCHANGED scheduled
    /\ Release(w)
    /\ UNCHANGED queue
-----------------------------------------------------------------------------
(* The bus by itself: anybody publishes at any time (a handler too), and   *)
(* handlers suspend and return as they like.                               *)
PublishAny == /\ \E s \in Session, e \in Event : Publish(s, e)
              /\ UNCHANGED workerVars

HandlerStep(w) == /\ Suspend(w) \/ ReturnAtOnce(w) \/ ReturnLater(w)
                  /\ UNCHANGED queueVars

HandlerReturns(w) == /\ ReturnAtOnce(w) \/ ReturnLater(w)
                     /\ UNCHANGED queueVars

BusNext == \/ PublishAny
           \/ \E w \in Worker : Take(w) \/ HandlerStep(w) \/ Reschedule(w)

BusSafeSpec == BusInit /\ [][BusNext]_busVars

(* The event loop runs every task that can go on, and a handler returns:   *)
(* its waits (database, model, tools) are bounded by their own timeouts.   *)
BusFairness == \A w \in Worker : /\ WF_busVars(Take(w))
                                 /\ WF_busVars(HandlerReturns(w))
                                 /\ WF_busVars(Reschedule(w))

BusSpec == BusSafeSpec /\ BusFairness
-----------------------------------------------------------------------------
(* Every scheduled session has exactly one token: one place on the ready   *)
(* queue or one worker, never both and never two.  It is what makes the    *)
(* handling of a session serial; publish relies on it when it skips the    *)
(* ready queue, _reschedule_session when it does not look at it.           *)
OneTokenPerSession ==
    /\ \A i, j \in 1..Len(ready) : ready[i] = ready[j] => i = j
    /\ \A v, w \in Worker : /\ pc[v] # "idle" /\ pc[w] # "idle"
                            /\ serving[v] = serving[w]
                            => v = w
    /\ OnReady \cap Held = {}
    /\ scheduled = OnReady \cup Held

(* No event is stranded in a queue no worker will come back to, and no     *)
(* place on the ready queue is wasted on a session without events: the     *)
(* two defensive branches of _pop_next_event are never taken.              *)
QueuedMeansScheduled ==
    /\ \A s \in Session : queue[s] # <<>> => s \in scheduled
    /\ \A s \in OnReady : queue[s] # <<>>

BusInv == /\ BusTypeOK
          /\ OneTokenPerSession
          /\ QueuedMeansScheduled

(* The events being handled, for the abstract specification.               *)
Handling == {<<serving[w], current[w]>> :
                w \in {v \in Worker : pc[v] \in {"popped", "running"}}}

Serial == INSTANCE SerialDispatch WITH pending <- queue, handling <- Handling

(* The bus implements in-order, one-at-a-time handling per session, and    *)
(* serves every session that has events.                                   *)
HandlesInOrder == Serial!Spec

(* The same without the liveness part.                                     *)
HandlesInOrderSafely == Serial!SafeSpec
=============================================================================
