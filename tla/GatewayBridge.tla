--------------------------- MODULE GatewayBridge ---------------------------
(***************************************************************************)
(* The bridge between the gateway process (WsBridgeClient of               *)
(* src/fairyclaw/gateway/bridge/ws_client.py) and the business process     *)
(* (UserGateway of src/fairyclaw/bridge/user_gateway.py): messages of      *)
(* users go in, messages for users go out, over one WebSocket that the     *)
(* client opens again whenever it breaks.                                  *)
(*                                                                         *)
(* The client has one connection at a time, the server one handler per     *)
(* connection, and the handler of a broken connection goes on with the     *)
(* frame it is at and with those it has received, while the handler of the *)
(* next connection runs.                                                   *)
(*                                                                         *)
(* Atomicity.  Both sides send under a lock that is first come, first      *)
(* served, and never wait between the change that makes a frame and        *)
(* queueing for the lock; so a send is part of the step that decides on    *)
(* it.  The steps of a handler end where it waits for the next frame, for  *)
(* the database, or between two frames of a replay.                        *)
(*                                                                         *)
(* Frames that only ask for an answer (session_open, file_*, control) and  *)
(* heartbeats change no state that is modelled here.                       *)
(***************************************************************************)
EXTENDS Naturals, Sequences, FiniteSets

CONSTANTS
    Inbound,        \* inbound frames, named by their ids
    Outbound,       \* outbound frames
    ProcessedLimit, \* limit of _RecentFrameSet
    BacklogSize,    \* settings.bridge_outbound_backlog_size
    MaxConns,       \* bound: connections the client opens
    MaxRestarts,    \* bound: restarts of the business process
    IoMayFail       \* may the database and the adapters fail?

ASSUME BridgeAssumption == /\ ProcessedLimit \in Nat \ {0}
                           /\ BacklogSize \in Nat \ {0}
                           /\ MaxConns \in Nat
                           /\ MaxRestarts \in Nat
                           /\ IoMayFail \in BOOLEAN
                           /\ Inbound \cap Outbound = {}

Conn == 1..MaxConns
NoConn == 0

VARIABLES
    \* the client
    phase,          \* where _run is
    resend,         \* frames _handshake is still to send again
    pending,        \* _pending_inbound_frames
    caller,         \* caller[m]: what became of the call of send_inbound
    dispatching,    \* dispatching[o]: tasks at _dispatch_outbound_and_ack
    \* the connections
    last,           \* the latest connection
    open,           \* is it intact?  All the earlier ones are not
    up, down,       \* frames under way to the server and to the client
    \* the server
    stage, todo,    \* stage[c], todo[c]: where the handler of c is, and with
                    \* which frames
    skip,           \* skip[c]: what its replay leaves out
    active,         \* _active_websocket
    processed,      \* _processed_inbound
    backlog,        \* _outbound_backlog
    acked,          \* _acked_outbound
    restarts,
    \* history
    stored,         \* stored[m]: copies of m in the session's history
    published,      \* published[m]: events published for m, since a restart
    pushed,         \* frames handed to push_outbound
    gone,           \* pushed, and dropped before they were acknowledged
    dispatched,     \* dispatched[o]: times an adapter has sent o
    refused         \* frames an adapter has failed to send

client == <<phase, resend, pending, caller, dispatching>>
wire == <<last, open, up, down>>
dedup == <<processed, stored, published>>
outbox == <<active, backlog, acked, pushed, gone>>
handlers == <<stage, todo, skip>>
dispatches == <<dispatched, refused>>
vars == <<client, wire, dedup, outbox, handlers, dispatches, restarts>>

(* The client is waiting to connect ("down"), for the hello_ack ("hello"),  *)
(* has set _ready_event and sent resume ("resume"), or has begun to send    *)
(* the pending frames again, and then receives ("up").                      *)
Phase == {"down", "hello", "resume", "up"}
Ready == phase \in {"resume", "up"}

Caller == {"idle", "waiting", "ok", "failed"}

(* A handler that has no frame is "idle"; one that stores a message or is   *)
(* about to publish it holds its frame; one at _replay_backlog the frames   *)
(* that are left.                                                           *)
Stage == {"none", "idle", "store", "publish", "replay", "ended"}

Hello == [type |-> "hello"]
Resume == [type |-> "resume"]
HelloAck == [type |-> "hello_ack"]
Carry(f) == [type |-> "message", id |-> f]
Ack(f, s) == [type |-> "ack", id |-> f, status |-> s]

UpFrame == {Hello, Resume} \cup {Carry(m) : m \in Inbound}
                           \cup {Ack(o, "ok") : o \in Outbound}
DownFrame == {HelloAck} \cup {Carry(o) : o \in Outbound}
               \cup {Ack(m, s) : m \in Inbound, s \in {"ok", "duplicate", "failed"}}

Elems(s) == {s[i] : i \in DOMAIN s}
Unacked == Elems(backlog) \ acked

(* The keys of an OrderedDict, of which one is popped.                     *)
Without(s, e) ==
    IF e \notin Elems(s) THEN s
    ELSE LET k == CHOOSE i \in DOMAIN s : s[i] = e
         IN [i \in 1..(Len(s) - 1) |-> s[IF i < k THEN i ELSE i + 1]]

Open(c) == c = last /\ open

(* What a handler holds fits where it is.                                  *)
HoldsItsWork(c) ==
    /\ stage[c] \in {"store", "publish"} => \E m \in Inbound : todo[c] = <<m>>
    /\ stage[c] = "replay" => todo[c] \in Seq(Outbound) /\ todo[c] # <<>>
    /\ stage[c] \in {"none", "idle", "ended"} => todo[c] = <<>>

TypeOK == /\ phase \in Phase
          /\ resend \in Seq(Inbound)
          /\ pending \in Seq(Inbound)
          /\ caller \in [Inbound -> Caller]
          /\ dispatching \in [Outbound -> Nat]
          /\ last \in Conn \cup {NoConn}
          /\ open \in BOOLEAN
          /\ open => phase # "down"
          /\ up \in [Conn -> Seq(UpFrame)]
          /\ down \in [Conn -> Seq(DownFrame)]
          /\ stage \in [Conn -> Stage]
          /\ todo \in [Conn -> Seq(Inbound \cup Outbound)]
          /\ skip \in [Conn -> SUBSET Outbound]
          /\ \A c \in Conn : HoldsItsWork(c)
          /\ active \in Conn \cup {NoConn}
          /\ processed \in Seq(Inbound)
          /\ Len(processed) <= ProcessedLimit
          /\ backlog \in Seq(Outbound)
          /\ Len(backlog) <= BacklogSize
          /\ acked \in SUBSET Outbound
          /\ restarts \in 0..MaxRestarts
          /\ stored \in [Inbound -> Nat]
          /\ published \in [Inbound -> Nat]
          /\ pushed \in SUBSET Outbound
          /\ gone \in SUBSET pushed
          /\ dispatched \in [Outbound -> Nat]
          /\ refused \in SUBSET Outbound

Init == /\ phase = "down"
        /\ resend = <<>>
        /\ pending = <<>>
        /\ caller = [m \in Inbound |-> "idle"]
        /\ dispatching = [o \in Outbound |-> 0]
        /\ last = NoConn
        /\ open = FALSE
        /\ up = [c \in Conn |-> <<>>]
        /\ down = [c \in Conn |-> <<>>]
        /\ stage = [c \in Conn |-> "none"]
        /\ todo = [c \in Conn |-> <<>>]
        /\ skip = [c \in Conn |-> {}]
        /\ active = NoConn
        /\ processed = <<>>
        /\ backlog = <<>>
        /\ acked = {}
        /\ restarts = 0
        /\ stored = [m \in Inbound |-> 0]
        /\ published = [m \in Inbound |-> 0]
        /\ pushed = {}
        /\ gone = {}
        /\ dispatched = [o \in Outbound |-> 0]
        /\ refused = {}
-----------------------------------------------------------------------------
(* What is sent on a broken connection is lost; the sender may also get an *)
(* exception, which ends the handler or the connection loop (Disconnect,   *)
(* Drop) and fails the call of a sender.                                   *)
Up(f) == up' = IF open THEN [up EXCEPT ![last] = Append(@, f)] ELSE up

(* The handler of c takes a frame and answers with the frames s.           *)
Answer(c, s) == down' = IF Open(c) THEN [down EXCEPT ![c] = @ \o s] ELSE down

Taken(c, f) == /\ stage[c] = "idle"
               /\ up[c] # <<>> /\ Head(up[c]) = f
               /\ up' = [up EXCEPT ![c] = Tail(@)]
-----------------------------------------------------------------------------
(* The connection loop of the client.                                      *)

Connect ==
    /\ phase = "down" /\ last < MaxConns
    /\ last' = last + 1
    /\ open' = TRUE
    /\ phase' = "hello"
    /\ up' = [up EXCEPT ![last'] = <<Hello>>]
    /\ stage' = [stage EXCEPT ![last'] = "idle"]
    /\ UNCHANGED <<resend, pending, caller, dispatching, down, todo, skip,
                   dedup, outbox, dispatches, restarts>>

(* The connection breaks, which neither side has noticed yet.              *)
Cut == /\ open
       /\ open' = FALSE
       /\ UNCHANGED <<client, last, up, down, dedup, outbox, handlers,
                      dispatches, restarts>>

(* The client notices, and forgets what it has not received.               *)
Drop == /\ phase # "down" /\ ~open
        /\ phase' = "down"
        /\ resend' = <<>>
        /\ down' = [down EXCEPT ![last] = <<>>]
        /\ UNCHANGED <<pending, caller, dispatching, last, open, up, dedup,
                       outbox, handlers, dispatches, restarts>>

Handshake ==
    /\ phase = "hello"
    /\ down[last] # <<>> /\ Head(down[last]) = HelloAck
    /\ down' = [down EXCEPT ![last] = Tail(@)]
    /\ phase' = "resume"
    /\ Up(Resume)
    /\ UNCHANGED <<resend, pending, caller, dispatching, last, open, dedup,
                   outbox, handlers, dispatches, restarts>>

(* Mutant of StartResend: what is pending is not sent again.               *)
StartAfresh ==
    /\ phase = "resume"
    /\ phase' = "up"
    /\ resend' = <<>>
    /\ UNCHANGED <<pending, caller, dispatching, wire, dedup, outbox, handlers,
                   dispatches, restarts>>

StartResend ==
    /\ phase = "resume"
    /\ phase' = "up"
    /\ resend' = pending
    /\ UNCHANGED <<pending, caller, dispatching, wire, dedup, outbox, handlers,
                   dispatches, restarts>>

Resend ==
    /\ phase = "up" /\ resend # <<>>
    /\ Up(Carry(Head(resend)))
    /\ resend' = Tail(resend)
    /\ UNCHANGED <<phase, pending, caller, dispatching, last, open, down, dedup,
                   outbox, handlers, dispatches, restarts>>
-----------------------------------------------------------------------------
(* The calls and the receiver of the client.                               *)

(* send_inbound: the frame is pending before it is sent, and remains so    *)
(* when sending it fails.                                                  *)
SendInbound(m) ==
    /\ Ready /\ caller[m] = "idle"
    /\ pending' = Append(pending, m)
    /\ Up(Carry(m))
    /\ \E r \in {"waiting"} \cup (IF open THEN {} ELSE {"failed"}) :
          caller' = [caller EXCEPT ![m] = r]
    /\ UNCHANGED <<phase, resend, dispatching, last, open, down, dedup, outbox,
                   handlers, dispatches, restarts>>

Receives(f) == /\ phase = "up" /\ resend = <<>>
               /\ down[last] # <<>> /\ Head(down[last]) = f
               /\ down' = [down EXCEPT ![last] = Tail(@)]

(* Mutant of ReceiveAck: a failure leaves the caller waiting, as the frame *)
(* is still pending.                                                       *)
ReceiveGoodAck(m, s) ==
    /\ Receives(Ack(m, s))
    /\ IF s = "failed"
         THEN UNCHANGED <<caller, pending>>
         ELSE /\ caller' = [caller EXCEPT ![m] = IF @ = "waiting" THEN "ok" ELSE @]
              /\ pending' = Without(pending, m)
    /\ UNCHANGED <<phase, resend, dispatching, last, open, up, dedup, outbox,
                   handlers, dispatches, restarts>>

(* An ack answers the caller; a failed one leaves the frame pending.       *)
ReceiveAck(m, s) ==
    /\ Receives(Ack(m, s))
    /\ LET answer == IF s = "failed" THEN "failed" ELSE "ok"
       IN caller' = [caller EXCEPT ![m] = IF @ = "waiting" THEN answer ELSE @]
    /\ pending' = IF s = "failed" THEN pending ELSE Without(pending, m)
    /\ UNCHANGED <<phase, resend, dispatching, last, open, up, dedup, outbox,
                   handlers, dispatches, restarts>>

(* An outbound frame gets a task of its own.                               *)
ReceiveOutbound(o) ==
    /\ Receives(Carry(o))
    /\ dispatching' = [dispatching EXCEPT ![o] = @ + 1]
    /\ UNCHANGED <<phase, resend, pending, caller, last, open, up, dedup, outbox,
                   handlers, dispatches, restarts>>

(* The task hands the message to its adapter and sends the ack on the      *)
(* connection that there is by then.  A failed ack changes nothing at the  *)
(* server.                                                                 *)
Dispatch(o) ==
    /\ dispatching[o] > 0
    /\ dispatching' = [dispatching EXCEPT ![o] = @ - 1]
    /\ \/ /\ dispatched' = [dispatched EXCEPT ![o] = @ + 1]
          /\ Up(Ack(o, "ok"))
          /\ UNCHANGED refused
       \/ /\ IoMayFail
          /\ refused' = refused \cup {o}
          /\ UNCHANGED <<dispatched, up>>
    /\ UNCHANGED <<phase, resend, pending, caller, last, open, down, dedup,
                   outbox, handlers, restarts>>
-----------------------------------------------------------------------------
(* The handler of connection c.                                            *)

(* Connections are a reconnect delay apart: the hello of one reaches the   *)
(* server before that of the next.                                         *)
HelloInOrder(c) == \A d \in 1..(c - 1) : Hello \notin Elems(up[d])

ServeHello(c) ==
    /\ Taken(c, Hello)
    /\ HelloInOrder(c)
    /\ active' = c
    /\ Answer(c, <<HelloAck>>)
    /\ UNCHANGED <<client, last, open, dedup, backlog, acked, pushed, gone,
                   handlers, dispatches, restarts>>

(* The handler is at its next frame when there is nothing left to replay.  *)
Replaying(c, s) == /\ todo' = [todo EXCEPT ![c] = s]
                   /\ stage' = [stage EXCEPT ![c] = IF s = <<>> THEN "idle"
                                                              ELSE "replay"]

ServeResume(c) ==
    /\ Taken(c, Resume)
    /\ Replaying(c, backlog)
    /\ skip' = [skip EXCEPT ![c] = acked]
    /\ UNCHANGED <<client, last, open, down, dedup, outbox, dispatches, restarts>>

Replay(c) ==
    /\ stage[c] = "replay"
    /\ LET o == Head(todo[c])
       IN IF o \in skip[c] THEN UNCHANGED down ELSE Answer(c, <<Carry(o)>>)
    /\ Replaying(c, Tail(todo[c]))
    /\ UNCHANGED <<client, last, open, up, skip, dedup, outbox, dispatches, restarts>>

ServeAck(c, o) ==
    /\ Taken(c, Ack(o, "ok"))
    /\ acked' = acked \cup {o}
    /\ UNCHANGED <<client, last, open, down, dedup, active, backlog, pushed,
                   gone, handlers, dispatches, restarts>>

(* Mutant of Remember: one frame too few is kept.                          *)
RememberFewer(m) ==
    LET s == Append(Without(processed, m), m)
    IN IF Len(s) >= ProcessedLimit THEN Tail(s) ELSE s

(* _RecentFrameSet.add                                                     *)
Remember(m) ==
    LET s == Append(Without(processed, m), m)
    IN IF Len(s) > ProcessedLimit THEN Tail(s) ELSE s

Work(c, where, s) == /\ stage' = [stage EXCEPT ![c] = where]
                     /\ todo' = [todo EXCEPT ![c] = s]
                     /\ UNCHANGED skip

(* Mutant of ServeInbound: a duplicate gets no answer.                     *)
ServeInboundSilently(c, m) ==
    /\ Taken(c, Carry(m))
    /\ IF m \in Elems(processed)
         THEN UNCHANGED handlers
         ELSE Work(c, "store", <<m>>)
    /\ UNCHANGED <<client, last, open, down, dedup, outbox, dispatches, restarts>>

(* Mutant of ServeInbound: the frame is remembered before it is handled.   *)
ServeInboundEagerly(c, m) ==
    /\ Taken(c, Carry(m))
    /\ processed' = Remember(m)
    /\ IF m \in Elems(processed)
         THEN /\ Answer(c, <<Ack(m, "duplicate")>>)
              /\ UNCHANGED handlers
         ELSE /\ Work(c, "store", <<m>>)
              /\ UNCHANGED down
    /\ UNCHANGED <<client, last, open, stored, published, outbox, dispatches,
                   restarts>>

ServeInbound(c, m) ==
    /\ Taken(c, Carry(m))
    /\ IF m \in Elems(processed)
         THEN /\ Answer(c, <<Ack(m, "duplicate")>>)
              /\ UNCHANGED handlers
         ELSE /\ Work(c, "store", <<m>>)
              /\ UNCHANGED down
    /\ UNCHANGED <<client, last, open, dedup, outbox, dispatches, restarts>>

(* submit_message stores the message in the history of its session ...     *)
Store(c) ==
    /\ stage[c] = "store"
    /\ stored' = [stored EXCEPT ![Head(todo[c])] = @ + 1]
    /\ stage' = [stage EXCEPT ![c] = "publish"]
    /\ UNCHANGED <<client, wire, todo, skip, processed, published, outbox, dispatches,
                   restarts>>

(* ... or raises (no such session, no valid segment, the database) ...     *)
Reject(c) ==
    /\ IoMayFail
    /\ stage[c] = "store"
    /\ Answer(c, <<Ack(Head(todo[c]), "failed")>>)
    /\ Work(c, "idle", <<>>)
    /\ UNCHANGED <<client, last, open, up, dedup, outbox, dispatches, restarts>>

(* ... and publishes USER_MESSAGE_RECEIVED.  The frame is remembered and   *)
(* acknowledged.                                                           *)
Publish(c) ==
    /\ stage[c] = "publish"
    /\ LET m == Head(todo[c])
       IN /\ published' = [published EXCEPT ![m] = @ + 1]
          /\ processed' = Remember(m)
          /\ Answer(c, <<Ack(m, "ok")>>)
    /\ Work(c, "idle", <<>>)
    /\ UNCHANGED <<client, last, open, up, stored, outbox, dispatches, restarts>>

(* Mutant of Disconnect: whatever connection is active is given up.        *)
DisconnectAny(c) ==
    /\ stage[c] \in {"idle", "replay"} /\ ~Open(c)
    /\ Work(c, "ended", <<>>)
    /\ up' = [up EXCEPT ![c] = <<>>]
    /\ active' = NoConn
    /\ UNCHANGED <<client, last, open, down, dedup, backlog, acked, pushed, gone,
                   dispatches, restarts>>

(* The handler gets to the end of what it has received, or cannot send.    *)
Disconnect(c) ==
    /\ stage[c] \in {"idle", "replay"} /\ ~Open(c)
    /\ Work(c, "ended", <<>>)
    /\ up' = [up EXCEPT ![c] = <<>>]
    /\ active' = IF active = c THEN NoConn ELSE active
    /\ UNCHANGED <<client, last, open, down, dedup, backlog, acked, pushed, gone,
                   dispatches, restarts>>
-----------------------------------------------------------------------------
(* Mutant of Keep: the backlog grows to one more than its size.            *)
KeepOneMore(o) ==
    IF Len(backlog) > BacklogSize
      THEN /\ backlog' = Append(Tail(backlog), o)
           /\ gone' = gone \cup ({Head(backlog)} \ acked)
      ELSE /\ backlog' = Append(backlog, o)
           /\ UNCHANGED gone

(* A full backlog drops its oldest frame.                                  *)
Keep(o) ==
    IF Len(backlog) = BacklogSize
      THEN /\ backlog' = Append(Tail(backlog), o)
           /\ gone' = gone \cup ({Head(backlog)} \ acked)
      ELSE /\ backlog' = Append(backlog, o)
           /\ UNCHANGED gone

(* Mutant of PushOutbound: only what cannot be sent is kept.               *)
PushOrKeep(o) ==
    /\ o \notin pushed
    /\ pushed' = pushed \cup {o}
    /\ IF active # NoConn THEN UNCHANGED <<backlog, gone>> ELSE Keep(o)
    /\ IF active = NoConn THEN UNCHANGED down ELSE Answer(active, <<Carry(o)>>)
    /\ UNCHANGED <<client, last, open, up, dedup, active, acked, handlers,
                   dispatches, restarts>>

(* push_outbound: the frame goes to the backlog and to the active          *)
(* connection.                                                             *)
PushOutbound(o) ==
    /\ o \notin pushed
    /\ pushed' = pushed \cup {o}
    /\ Keep(o)
    /\ IF active = NoConn THEN UNCHANGED down ELSE Answer(active, <<Carry(o)>>)
    /\ UNCHANGED <<client, last, open, up, dedup, active, acked, handlers,
                   dispatches, restarts>>

(* The business process ends and is started again: only the histories of   *)
(* the sessions are kept.                                                  *)
Restart ==
    /\ restarts < MaxRestarts
    /\ restarts' = restarts + 1
    /\ open' = FALSE
    /\ up' = [c \in Conn |-> <<>>]
    /\ stage' = [c \in Conn |-> IF stage[c] = "none" THEN "none" ELSE "ended"]
    /\ todo' = [c \in Conn |-> <<>>]
    /\ skip' = [c \in Conn |-> {}]
    /\ active' = NoConn
    /\ processed' = <<>>
    /\ published' = [m \in Inbound |-> 0]
    /\ gone' = gone \cup Unacked
    /\ backlog' = <<>>
    /\ acked' = {}
    /\ UNCHANGED <<client, last, down, stored, pushed, dispatches>>
-----------------------------------------------------------------------------
ClientStep == \/ Connect \/ Drop \/ Handshake \/ StartResend \/ Resend
              \/ \E m \in Inbound, s \in {"ok", "duplicate", "failed"} : ReceiveAck(m, s)
              \/ \E o \in Outbound : ReceiveOutbound(o)

Handler(c) == \/ ServeHello(c) \/ ServeResume(c) \/ Replay(c)
              \/ \E m \in Inbound : ServeInbound(c, m)
              \/ \E o \in Outbound : ServeAck(c, o)
              \/ Store(c) \/ Reject(c) \/ Publish(c) \/ Disconnect(c)

Next == \/ ClientStep
        \/ \E m \in Inbound : SendInbound(m)
        \/ \E o \in Outbound : Dispatch(o) \/ PushOutbound(o)
        \/ \E c \in Conn : Handler(c)
        \/ Cut \/ Restart

SafeSpec == Init /\ [][Next]_vars

(* Every task goes on.  Nothing has to be sent, pushed or cut.             *)
Fairness == /\ WF_vars(ClientStep)
            /\ \A c \in Conn : WF_vars(Handler(c))
            /\ \A o \in Outbound : WF_vars(Dispatch(o))

Spec == SafeSpec /\ Fairness
-----------------------------------------------------------------------------
(* What a caller was told of is in the history of the session, whatever    *)
(* breaks or restarts.                                                     *)
OkIsStored == \A m \in Inbound : caller[m] = "ok" => stored[m] > 0

(* A frame that was submitted is recognised when it comes again, as long   *)
(* as the process lives and remembers enough frames.                       *)
SubmittedIsRemembered ==
    Cardinality(Inbound) <= ProcessedLimit
      => \A m \in Inbound : published[m] > 0 => m \in Elems(processed)

(* The frame of a caller that waits is on its way to the server, in its    *)
(* hands, to be sent again, or its answer is on the way back: no caller    *)
(* waits on an intact connection for a frame that is lost.                 *)
InHandOf(c, m) == stage[c] \in {"store", "publish"} /\ Head(todo[c]) = m

WaitingIsCarried ==
    \A m \in Inbound : caller[m] = "waiting" =>
       /\ m \in Elems(pending)
       /\ phase = "up" /\ open =>
             \/ m \in Elems(resend)
             \/ Carry(m) \in Elems(up[last])
             \/ InHandOf(last, m)
             \/ \E s \in {"ok", "duplicate", "failed"} : Ack(m, s) \in Elems(down[last])

(* On an intact connection that has been resumed, the server sends to it,  *)
(* and whatever the server holds unacknowledged is on its way, at its      *)
(* adapter, acknowledged on the way back, or was refused by its adapter.   *)
BacklogIsCarried ==
    phase \in {"resume", "up"} /\ open =>
       /\ active = last
       /\ Resume \notin Elems(up[last]) =>
             \A o \in Unacked : \/ o \in Elems(todo[last])
                                       \/ Carry(o) \in Elems(down[last])
                                       \/ dispatching[o] > 0
                                       \/ Ack(o, "ok") \in Elems(up[last])
                                       \/ o \in refused

(* There are no more connections in the model.                             *)
OutOfConns == phase = "down" /\ last = MaxConns

(* A caller gets an answer, and a pushed message gets to its adapter,      *)
(* across any number of broken connections.                                *)
CallersAreAnswered ==
    \A m \in Inbound : caller[m] = "waiting" ~> caller[m] # "waiting" \/ OutOfConns

PushedIsDispatched ==
    \A o \in Outbound : o \in pushed ~> \/ dispatched[o] > 0 \/ o \in refused
                                        \/ o \in gone \/ OutOfConns
-----------------------------------------------------------------------------
(* Frame ids are used for deduplication: no message is sent to the user    *)
(* twice.                                                                  *)
DispatchedOnce == \A o \in Outbound : dispatched[o] <= 1

(* ... and no message of a user is submitted twice.                        *)
SubmittedOnce == \A m \in Inbound : stored[m] <= 1
=============================================================================
