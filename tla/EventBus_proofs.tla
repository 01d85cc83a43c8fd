--------------------------- MODULE EventBus_proofs ---------------------------
(***************************************************************************)
(* The event bus keeps one token per session, whatever the number of       *)
(* sessions and workers.  The lemmas are about the bus's actions and not   *)
(* about its specification, so that SessionScheduler_proofs cites them.    *)
(***************************************************************************)
EXTENDS EventBus, TLAPS

(* A session appended to the ready queue is on it, with those before it.    *)
LEMMA AppendAddsOne ==
    ASSUME NEW S, NEW q \in Seq(S), NEW x \in S
    PROVE  {Append(q, x)[i] : i \in 1..Len(Append(q, x))}
             = {q[i] : i \in 1..Len(q)} \cup {x}
<1> DEFINE r == Append(q, x)
<1>1. /\ Len(r) = Len(q) + 1 /\ Len(q) \in Nat
      /\ r[Len(q) + 1] = x
      /\ \A i \in 1..Len(q) : r[i] = q[i]
  OBVIOUS
<1> HIDE DEF r
<1>2. {r[i] : i \in 1..Len(r)} \subseteq {q[i] : i \in 1..Len(q)} \cup {x}
  <2> SUFFICES ASSUME NEW i \in 1..Len(r)
               PROVE  r[i] \in {q[j] : j \in 1..Len(q)} \cup {x}
    OBVIOUS
  <2>1. CASE i \in 1..Len(q)
    BY <1>1, <2>1
  <2>2. CASE i = Len(q) + 1
    BY <1>1, <2>2
  <2> QED BY <1>1, <2>1, <2>2
<1>3. x \in {r[i] : i \in 1..Len(r)}
  BY <1>1
<1>4. {q[i] : i \in 1..Len(q)} \subseteq {r[i] : i \in 1..Len(r)}
  <2> SUFFICES ASSUME NEW i \in 1..Len(q)
               PROVE  q[i] \in {r[j] : j \in 1..Len(r)}
    OBVIOUS
  <2>1. i \in 1..Len(r) /\ q[i] = r[i]
    BY <1>1
  <2> QED BY <2>1
<1>5. {r[i] : i \in 1..Len(r)} = {q[i] : i \in 1..Len(q)} \cup {x}
  BY <1>2, <1>3, <1>4
<1> QED BY <1>5 DEF r

(* Taking the head of a queue without repetitions takes it off the queue.   *)
LEMMA TailDropsOne ==
    ASSUME NEW S, NEW q \in Seq(S), q # <<>>,
           \A i, j \in 1..Len(q) : q[i] = q[j] => i = j
    PROVE  {Tail(q)[i] : i \in 1..Len(Tail(q))}
             = {q[i] : i \in 1..Len(q)} \ {Head(q)}
<1> DEFINE r == Tail(q)
<1>1. /\ Len(r) = Len(q) - 1 /\ Len(q) \in Nat /\ Len(q) > 0
      /\ Head(q) = q[1]
      /\ \A i \in 1..Len(r) : r[i] = q[i + 1]
  OBVIOUS
<1> HIDE DEF r
<1>2. ASSUME NEW i \in 1..Len(r)
      PROVE  r[i] \in {q[j] : j \in 1..Len(q)} \ {Head(q)}
  <2>1. i + 1 \in 1..Len(q) /\ i + 1 # 1 /\ 1 \in 1..Len(q) /\ r[i] = q[i + 1]
    BY <1>1
  <2> QED BY <1>1, <2>1
<1>3. ASSUME NEW j \in 1..Len(q), q[j] # Head(q)
      PROVE  q[j] \in {r[i] : i \in 1..Len(r)}
  <2>1. j - 1 \in 1..Len(r)
    BY <1>1, <1>3
  <2>2. r[j - 1] = q[j]
    BY <1>1, <2>1
  <2> QED BY <2>1, <2>2
<1>4. {r[i] : i \in 1..Len(r)} = {q[j] : j \in 1..Len(q)} \ {Head(q)}
  BY <1>2, <1>3
<1> QED BY <1>4 DEF r

(* What a handler's step does to the workers: some may move, none becomes   *)
(* idle or busy.                                                           *)
WorkersStay == /\ UNCHANGED <<serving, current>>
               /\ pc' \in [Worker -> PC]
               /\ \A w \in Worker : pc'[w] = "idle" <=> pc[w] = "idle"

LEMMA GotoStays ==
    ASSUME BusTypeOK, NEW w \in Worker, NEW from \in PC \ {"idle"},
           NEW to \in PC \ {"idle"}, Goto(w, from, to)
    PROVE  WorkersStay
BY DEF BusTypeOK, Goto, WorkersStay, PC

LEMMA SameHeld ==
    ASSUME WorkersStay
    PROVE  Held' = Held
BY DEF Held, WorkersStay

LEMMA QuietInv ==
    ASSUME BusInv, UNCHANGED queueVars, WorkersStay
    PROVE  BusInv'
<1>1. BusTypeOK'
  BY DEF BusInv, BusTypeOK, queueVars, WorkersStay
<1>2. OneTokenPerSession'
  BY SameHeld DEF BusInv, OneTokenPerSession, queueVars, WorkersStay, OnReady
<1>3. QueuedMeansScheduled'
  BY DEF BusInv, QueuedMeansScheduled, queueVars, OnReady
<1> QED BY <1>1, <1>2, <1>3 DEF BusInv

(* A session that publish finds unscheduled is nowhere: its token is new.   *)
LEMMA PublishInv ==
    ASSUME BusInv, NEW s \in Session, NEW e \in Event, Publish(s, e),
           WorkersStay
    PROVE  BusInv'
<1> USE DEF BusInv, BusTypeOK
<1>1. BusTypeOK'
  BY DEF Publish, WorkersStay
<1>2. CASE s \in scheduled
  <2>1. ready' = ready /\ scheduled' = scheduled /\ OnReady' = OnReady
    BY <1>2 DEF Publish, OnReady
  <2>2. OneTokenPerSession'
    BY <2>1, SameHeld DEF OneTokenPerSession, WorkersStay
  <2>3. queue'[s] # <<>> /\ \A r \in Session : r # s => queue'[r] = queue[r]
    <3>1. queue[s] \in Seq(Event) /\ queue'[s] = Append(queue[s], e)
      BY DEF Publish
    <3>2. Append(queue[s], e) # <<>>
      BY ONLY <3>1, e \in Event
    <3> QED BY <3>1, <3>2 DEF Publish
  <2>4. OnReady \subseteq Session
    BY DEF OnReady
  <2>5. QueuedMeansScheduled'
    BY <1>2, <2>1, <2>3, <2>4 DEF QueuedMeansScheduled
  <2> QED BY <1>1, <2>2, <2>5
<1>3. CASE s \notin scheduled
  <2>1. /\ ready' = Append(ready, s)
        /\ scheduled' = scheduled \cup {s}
    BY <1>3 DEF Publish
  <2>2. OnReady' = OnReady \cup {s}
    BY <2>1, AppendAddsOne DEF OnReady
  <2>3. s \notin OnReady /\ s \notin Held
    BY <1>3 DEF OneTokenPerSession
  <2>4. \A i, j \in 1..Len(ready') : ready'[i] = ready'[j] => i = j
    BY <2>1, <2>3 DEF OneTokenPerSession, OnReady
  <2>5. OneTokenPerSession'
    BY <2>1, <2>2, <2>3, <2>4, SameHeld DEF OneTokenPerSession, WorkersStay
  <2>6. QueuedMeansScheduled'
    BY <2>1, <2>2 DEF QueuedMeansScheduled, Publish
  <2> QED BY <1>1, <2>5, <2>6
<1> QED BY <1>2, <1>3

(* The token moves from the head of the ready queue to the worker.          *)
LEMMA TakeInv ==
    ASSUME BusInv, NEW w \in Worker, Take(w)
    PROVE  BusInv'
<1> USE DEF BusInv, BusTypeOK
<1> DEFINE s == Head(ready)
<1>1. /\ s \in Session /\ s \in OnReady /\ ready # <<>>
      /\ pc[w] = "idle" /\ ready' = Tail(ready)
  BY DEF Take, OnReady
<1>2. queue[s] # <<>>
  BY <1>1 DEF QueuedMeansScheduled
<1>3. /\ queue' = [queue EXCEPT ![s] = Tail(@)]
      /\ serving' = [serving EXCEPT ![w] = s]
      /\ current' = [current EXCEPT ![w] = Head(queue[s])]
      /\ pc' = [pc EXCEPT ![w] = "popped"]
      /\ scheduled' = scheduled
  BY <1>2 DEF Take
<1>4. BusTypeOK'
  BY <1>1, <1>2, <1>3, BusAssumption DEF PC
<1>5. /\ \A i \in 1..Len(ready') : ready'[i] = ready[i + 1]
      /\ Len(ready') = Len(ready) - 1
      /\ s = ready[1]
  BY <1>1
<1>6. OnReady' = OnReady \ {s}
  BY <1>1, TailDropsOne, ZenonT(40) DEF OneTokenPerSession, OnReady
<1>7. Held' = Held \cup {s}
  BY <1>1, <1>3 DEF Held
<1>8. \A i, j \in 1..Len(ready') : ready'[i] = ready'[j] => i = j
  BY <1>1, <1>5 DEF OneTokenPerSession
<1>9. \A u, v \in Worker : /\ pc'[u] # "idle" /\ pc'[v] # "idle"
                           /\ serving'[u] = serving'[v]
                           => u = v
  BY <1>1, <1>3 DEF OneTokenPerSession, Held
<1>10. OneTokenPerSession'
  BY <1>1, <1>3, <1>6, <1>7, <1>8, <1>9 DEF OneTokenPerSession
<1>11. QueuedMeansScheduled'
  BY <1>1, <1>3, <1>6 DEF QueuedMeansScheduled, OneTokenPerSession
<1> QED BY <1>4, <1>10, <1>11

(* The worker gives the token back, or drops it with the empty queue.       *)
LEMMA RescheduleInv ==
    ASSUME BusInv, NEW w \in Worker, Reschedule(w)
    PROVE  BusInv'
<1> USE DEF BusInv, BusTypeOK
<1> DEFINE s == serving[w]
<1>1. /\ pc[w] = "returned" /\ s \in Session /\ s \in Held /\ s \in scheduled
      /\ s \notin OnReady
  BY DEF Reschedule, Held, OneTokenPerSession
<1>2. /\ queue' = queue
      /\ serving' = [serving EXCEPT ![w] = None]
      /\ current' = [current EXCEPT ![w] = None]
      /\ pc' = [pc EXCEPT ![w] = "idle"]
  BY DEF Reschedule, Release
<1>3. Held' = Held \ {s}
  BY <1>1, <1>2 DEF Held, OneTokenPerSession
<1>4. \A u, v \in Worker : /\ pc'[u] # "idle" /\ pc'[v] # "idle"
                           /\ serving'[u] = serving'[v]
                           => u = v
  BY <1>2 DEF OneTokenPerSession
<1>5. CASE queue[s] = <<>>
  <2>1. ready' = ready /\ scheduled' = scheduled \ {s} /\ OnReady' = OnReady
    BY <1>5 DEF Reschedule, OnReady
  <2>2. BusTypeOK'
    BY <1>2, <2>1 DEF PC
  <2>3. OneTokenPerSession'
    BY <1>1, <1>3, <1>4, <2>1 DEF OneTokenPerSession
  <2>4. QueuedMeansScheduled'
    BY <1>2, <1>5, <2>1 DEF QueuedMeansScheduled
  <2> QED BY <2>2, <2>3, <2>4
<1>6. CASE queue[s] # <<>>
  <2>1. ready' = Append(ready, s) /\ scheduled' = scheduled
    BY <1>6 DEF Reschedule
  <2>2. OnReady' = OnReady \cup {s}
    <3>1. s \in Session /\ ready \in Seq(Session)
      BY <1>1
    <3> HIDE DEF s
    <3> QED BY ONLY <3>1, <2>1, AppendAddsOne DEF OnReady
  <2>3. BusTypeOK'
    BY <1>1, <1>2, <2>1 DEF PC
  <2>4. \A i, j \in 1..Len(ready') : ready'[i] = ready'[j] => i = j
    BY <1>1, <2>1 DEF OneTokenPerSession, OnReady
  <2>5. OneTokenPerSession'
    BY <1>1, <1>3, <1>4, <2>1, <2>2, <2>4 DEF OneTokenPerSession
  <2>6. QueuedMeansScheduled'
    BY <1>2, <1>6, <2>1, <2>2 DEF QueuedMeansScheduled
  <2> QED BY <2>3, <2>5, <2>6
<1> QED BY <1>5, <1>6

LEMMA BusInitInv == BusInit => BusInv
BY BusAssumption DEF BusInit, BusInv, BusTypeOK, OneTokenPerSession,
                     QueuedMeansScheduled, OnReady, Held, PC

LEMMA BusNextInv == BusInv /\ [BusNext]_busVars => BusInv'
<1> SUFFICES ASSUME BusInv, [BusNext]_busVars PROVE BusInv'
  OBVIOUS
<1> USE DEF BusInv
<1>1. ASSUME NEW s \in Session, NEW e \in Event, Publish(s, e),
             UNCHANGED workerVars
      PROVE  BusInv'
  <2>1. WorkersStay
    BY <1>1 DEF workerVars, WorkersStay, BusTypeOK
  <2> QED BY <1>1, <2>1, PublishInv
<1>2. ASSUME NEW w \in Worker, Take(w) PROVE BusInv'
  BY <1>2, TakeInv
<1>3. ASSUME NEW w \in Worker, HandlerStep(w) PROVE BusInv'
  <2>1. WorkersStay
    BY <1>3, GotoStays
       DEF HandlerStep, Suspend, ReturnAtOnce, ReturnLater, PC
  <2> QED BY <1>3, <2>1, QuietInv DEF HandlerStep
<1>4. ASSUME NEW w \in Worker, Reschedule(w) PROVE BusInv'
  BY <1>4, RescheduleInv
<1>5. CASE UNCHANGED busVars
  <2>1. WorkersStay
    BY <1>5 DEF busVars, workerVars, WorkersStay, BusTypeOK
  <2> QED BY <1>5, <2>1, QuietInv DEF busVars
<1> QED BY <1>1, <1>2, <1>3, <1>4, <1>5 DEF BusNext, PublishAny

(* In every state of the bus each scheduled session has one token, and no  *)
(* session with events is forgotten.                                       *)
THEOREM BusIsConsistent == BusSafeSpec => []BusInv
BY BusInitInv, BusNextInv, PTL DEF BusSafeSpec

(* A scheduled session is on the ready queue once or with one worker, never *)
(* both, for every number of sessions and workers.                         *)
THEOREM TokensAreUnique == BusSafeSpec => []OneTokenPerSession
<1>1. BusInv => OneTokenPerSession
  BY DEF BusInv
<1> QED BY <1>1, BusIsConsistent, PTL
-----------------------------------------------------------------------------
(* The bus implements SerialDispatch: the steps under its refinement        *)
(* mapping.                                                                *)
USE DEF Serial!abstractVars

LEMMA HandlingUnchanged ==
    ASSUME UNCHANGED <<serving, current>>, BusTypeOK, BusTypeOK',
           \A w \in Worker : pc[w] \in {"popped", "running"}
                              <=> pc'[w] \in {"popped", "running"}
    PROVE  Handling' = Handling
BY DEF Handling

LEMMA TakeBegins ==
    ASSUME BusInv, NEW w \in Worker, Take(w)
    PROVE  \E s \in Session : Serial!Begin(s)
<1> DEFINE s == Head(ready)
<1>1. /\ s \in Session /\ s \in OnReady /\ pc[w] = "idle"
  BY DEF Take, OnReady, BusInv, BusTypeOK
<1>2. queue[s] # <<>>
  BY <1>1 DEF BusInv, QueuedMeansScheduled
<1>3. /\ queue' = [queue EXCEPT ![s] = Tail(@)]
      /\ serving' = [serving EXCEPT ![w] = s]
      /\ current' = [current EXCEPT ![w] = Head(queue[s])]
      /\ pc' = [pc EXCEPT ![w] = "popped"]
  BY <1>2 DEF Take
<1>4. s \notin Held
  BY <1>1 DEF BusInv, OneTokenPerSession
<1> HIDE DEF s
<1>5. ~Serial!Busy(s)
  BY <1>4 DEF Serial!Busy, Handling, Held
<1>6. Handling' = Handling \cup {<<s, Head(queue[s])>>}
  BY <1>1, <1>3 DEF Handling, BusInv, BusTypeOK
<1> QED BY <1>1, <1>2, <1>3, <1>5, <1>6 DEF Serial!Begin

LEMMA ReturnEnds ==
    ASSUME BusInv, NEW w \in Worker, HandlerReturns(w)
    PROVE  \E s \in Session : Serial!End(s)
<1> DEFINE s == serving[w]
<1>1. /\ pc[w] \in {"popped", "running"}
      /\ pc' = [pc EXCEPT ![w] = "returned"]
      /\ UNCHANGED <<queue, serving, current>>
  BY DEF HandlerReturns, ReturnAtOnce, ReturnLater, Goto, queueVars
<1>2. s \in Session
  BY <1>1 DEF BusInv, BusTypeOK
<1>3. Serial!Busy(s)
  <2>1. <<s, current[w]>> \in Handling
    BY <1>1 DEF Handling
  <2>2. <<s, current[w]>>[1] = s
    OBVIOUS
  <2> QED BY <2>1, <2>2 DEF Serial!Busy
<1>4. \A v \in Worker : pc[v] \in {"popped", "running"} /\ v # w
                          => serving[v] # s
  BY <1>1 DEF BusInv, OneTokenPerSession
<1>5. Handling' = {h \in Handling : h[1] # s}
  <2>1. \A h : h \in Handling' <=>
               \E v \in Worker : /\ pc[v] \in {"popped", "running"} /\ v # w
                                 /\ h = <<serving[v], current[v]>>
    BY <1>1 DEF Handling, BusInv, BusTypeOK
  <2>2. \A h : h \in Handling <=>
               \E v \in Worker : /\ pc[v] \in {"popped", "running"}
                                 /\ h = <<serving[v], current[v]>>
    BY DEF Handling
  <2> QED BY <1>4, <2>1, <2>2
<1> QED BY <1>1, <1>2, <1>3, <1>5 DEF Serial!End

LEMMA BusStepsAreSerial ==
    BusInv /\ BusInv' /\ [BusNext]_busVars
       => [Serial!Next]_(Serial!abstractVars)
<1> SUFFICES ASSUME BusInv, BusInv', [BusNext]_busVars
             PROVE  Serial!Next \/ UNCHANGED <<queue, Handling>>
  OBVIOUS
<1>1. ASSUME NEW s \in Session, NEW e \in Event, Publish(s, e),
             UNCHANGED workerVars
      PROVE  Serial!Publish(s, e)
  BY <1>1, HandlingUnchanged
     DEF Serial!Publish, Publish, workerVars, BusInv
<1>2. ASSUME NEW w \in Worker, Take(w) PROVE Serial!Next
  BY <1>2, TakeBegins DEF Serial!Next
<1>3. ASSUME NEW w \in Worker, HandlerStep(w)
      PROVE  Serial!Next \/ UNCHANGED <<queue, Handling>>
  <2>1. CASE HandlerReturns(w)
    BY <2>1, ReturnEnds DEF Serial!Next
  <2>2. CASE Suspend(w) /\ UNCHANGED queueVars
    <3>1. /\ UNCHANGED <<queue, serving, current>>
          /\ pc[w] = "popped" /\ pc' = [pc EXCEPT ![w] = "running"]
      BY <2>2 DEF Suspend, Goto, queueVars
    <3>2. Handling' = Handling
      BY <3>1, HandlingUnchanged DEF BusInv, BusTypeOK
    <3> QED BY <3>1, <3>2
  <2> QED BY <1>3, <2>1, <2>2 DEF HandlerStep, HandlerReturns
<1>4. ASSUME NEW w \in Worker, Reschedule(w)
      PROVE  UNCHANGED <<queue, Handling>>
  <2>1. /\ queue' = queue /\ pc[w] = "returned"
        /\ pc' = [pc EXCEPT ![w] = "idle"]
        /\ serving' = [serving EXCEPT ![w] = None]
        /\ current' = [current EXCEPT ![w] = None]
    BY <1>4 DEF Reschedule, Release
  <2>2. Handling' = Handling
    BY <2>1 DEF Handling, BusInv, BusTypeOK
  <2> QED BY <2>1, <2>2
<1>5. CASE UNCHANGED busVars
  BY <1>5, HandlingUnchanged DEF busVars, workerVars, queueVars, BusInv
<1> QED BY <1>1, <1>2, <1>3, <1>4, <1>5 DEF BusNext, PublishAny, Serial!Next

(* For every set of sessions and workers, the events of a session are      *)
(* handled one at a time and in the order of their publication.            *)
THEOREM BusIsSerial == BusSafeSpec => HandlesInOrderSafely
<1>1. BusInit => Serial!Init
  BY DEF BusInit, Serial!Init, Handling
<1>2. BusInv /\ BusInv' /\ [BusNext]_busVars
         => [Serial!Next]_(Serial!abstractVars)
  BY BusStepsAreSerial
<1> QED BY <1>1, <1>2, BusIsConsistent, PTL
        DEF BusSafeSpec, HandlesInOrderSafely, Serial!SafeSpec
=============================================================================
