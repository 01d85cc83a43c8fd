----------------------------- MODULE WebClients -----------------------------
(***************************************************************************)
(* The browsers of the web gateway: WebGatewayAdapter and the loop that    *)
(* serves one socket (run_web_gateway_socket).                             *)
(*                                                                         *)
(* A push is a task of its own.  Under the lock it is appended to the      *)
(* backlog of its session and the sockets bound to the session are read;   *)
(* it is then sent to one after the other, outside the lock.  A push no    *)
(* socket is bound for goes to the sockets of the parent session.  A       *)
(* socket that connects or binds is added under the lock and then sent     *)
(* the backlog, also outside.  Every send may suspend, and to a socket     *)
(* whose browser is gone it may raise, which ends the loop that sends.     *)
(*                                                                         *)
(* The broadcast session of the code is Broadcast; all sockets count as    *)
(* bound to it.                                                            *)
(***************************************************************************)
EXTENDS Naturals, Sequences, SequencesExt

CONSTANTS
    Socket,         \* connections of browsers
    WebSession,     \* sessions, sub-sessions among them
    Broadcast,      \* the id that stands for all of them
    Push,           \* outbound messages
    BacklogSize     \* pushes kept per session (128, 64 for broadcasts)

ASSUME WebAssumption == /\ Broadcast \notin WebSession
                        /\ BacklogSize \in Nat \ {0}

VARIABLES
    web_parent,     \* parent of a sub-session by its route, "none" for others
    web_socket,     \* "new", "replaying", "open", "gone", "closed"
    web_bound,      \* sockets per session: _session_sockets, _all_websockets
    web_backlog,    \* pushes per session, the oldest first
    web_replay,     \* what a socket is still to be sent of a backlog
    web_push,       \* where each push is
    web_got         \* history: the pushes each browser has received

web_vars == <<web_parent, web_socket, web_bound, web_backlog, web_replay,
              web_push, web_got>>

Channel == WebSession \cup {Broadcast}

Alive(k) == web_socket[k] \in {"replaying", "open"}

WebInit ==
    /\ web_parent \in {f \in [Channel -> WebSession \cup {"none"}] :
                          \A s \in Channel : f[s] # "none" => f[f[s]] = "none"
                                                           /\ s # Broadcast}
    /\ web_socket = [k \in Socket |-> "new"]
    /\ web_bound = [s \in Channel |-> {}]
    /\ web_backlog = [s \in Channel |-> <<>>]
    /\ web_replay = [k \in Socket |-> <<>>]
    /\ web_push = [m \in Push |-> [at |-> "new"]]
    /\ web_got = [k \in Socket |-> {}]

(***************************************************************************)
(* The loop of a socket.                                                   *)
(***************************************************************************)
\* register_client: the socket is known before its loop is guarded.
RegisterClient(k) ==
    /\ web_socket[k] = "new"
    /\ web_bound' = [web_bound EXCEPT ![Broadcast] = @ \cup {k}]
    /\ web_replay' = [web_replay EXCEPT ![k] = web_backlog[Broadcast]]
    /\ web_socket' = [web_socket EXCEPT ![k] =
                        IF web_backlog[Broadcast] = <<>> THEN "open" ELSE "replaying"]
    /\ UNCHANGED <<web_parent, web_backlog, web_push, web_got>>

\* Mutant: the backlog is not sent to who binds.
BindWithoutReplay(k, s) ==
    /\ web_socket[k] = "open" /\ web_replay[k] = <<>>
    /\ web_bound' = [web_bound EXCEPT ![s] = @ \cup {k}]
    /\ UNCHANGED <<web_parent, web_socket, web_backlog, web_replay, web_push, web_got>>

\* session.bind: the socket is added and the backlog copied in one go.
BindSession(k, s) ==
    /\ web_socket[k] = "open" /\ web_replay[k] = <<>>
    /\ web_bound' = [web_bound EXCEPT ![s] = @ \cup {k}]
    /\ web_replay' = [web_replay EXCEPT ![k] = web_backlog[s]]
    /\ UNCHANGED <<web_parent, web_socket, web_backlog, web_push, web_got>>

ReplayOne(k) ==
    /\ Alive(k) /\ web_replay[k] # <<>>
    /\ web_got' = [web_got EXCEPT ![k] = @ \cup {Head(web_replay[k])}]
    /\ web_replay' = [web_replay EXCEPT ![k] = Tail(@)]
    /\ web_socket' = [web_socket EXCEPT ![k] =
                        IF Tail(web_replay[k]) = <<>> THEN "open" ELSE @]
    /\ UNCHANGED <<web_parent, web_bound, web_backlog, web_push>>

\* The browser goes away, at any moment.
Disconnect(k) ==
    /\ Alive(k)
    /\ web_socket' = [web_socket EXCEPT ![k] =
                        IF @ = "open" THEN "gone" ELSE "closed"]
    /\ web_replay' = [web_replay EXCEPT ![k] = <<>>]
    /\ UNCHANGED <<web_parent, web_bound, web_backlog, web_push, web_got>>

\* The loop notices and forgets the socket; the loop of a socket that was
\* lost in register_client ends before the part that does.
UnregisterClient(k) ==
    /\ web_socket[k] = "gone"
    /\ web_socket' = [web_socket EXCEPT ![k] = "closed"]
    /\ web_bound' = [s \in Channel |-> web_bound[s] \ {k}]
    /\ UNCHANGED <<web_parent, web_backlog, web_replay, web_push, web_got>>

(***************************************************************************)
(* The task of a push.                                                     *)
(***************************************************************************)
Appended(s, m) == LET q == Append(web_backlog[s], m)
                  IN IF Len(q) > BacklogSize THEN Tail(q) ELSE q

Orphan(s) == s # Broadcast /\ web_bound[s] = {}

ParentSockets(s) == IF web_parent[s] = "none" THEN {} ELSE web_bound[web_parent[s]]

\* Append and read the targets, in one go.  watchers are the sockets of the
\* parent at this moment, a note for the property below.
BeginPush(m, s) ==
    /\ web_push[m].at = "new"
    /\ web_backlog' = [web_backlog EXCEPT ![s] = Appended(s, m)]
    /\ web_push' = [web_push EXCEPT ![m] =
          [at |-> IF Orphan(s) THEN "orphan" ELSE "sending",
           session |-> s, targets |-> web_bound[s],
           watchers |-> IF Orphan(s) THEN ParentSockets(s) ELSE {}]]
    /\ UNCHANGED <<web_parent, web_socket, web_bound, web_replay, web_got>>

\* A file is downloaded first; when that fails nothing is kept.
DownloadFails(m) ==
    /\ web_push[m].at = "new"
    /\ web_push' = [web_push EXCEPT ![m] = [at |-> "dropped"]]
    /\ UNCHANGED <<web_parent, web_socket, web_bound, web_backlog, web_replay, web_got>>

\* One send.  What is sent to a browser that is gone is lost or raises.
SendPush(m, k) ==
    /\ web_push[m].at = "sending" /\ k \in web_push[m].targets
    /\ \/ /\ web_push' = [web_push EXCEPT ![m].targets = @ \ {k}]
          /\ web_got' = [web_got EXCEPT ![k] = IF Alive(k) THEN @ \cup {m} ELSE @]
       \/ /\ ~Alive(k)
          /\ web_push' = [web_push EXCEPT ![m].at = "failed"]
          /\ UNCHANGED web_got
    /\ UNCHANGED <<web_parent, web_socket, web_bound, web_backlog, web_replay>>

\* Mutant: the sockets of the session are looked up once more.
FallBackToNobody(m) ==
    /\ web_push[m].at = "orphan"
    /\ web_push' = [web_push EXCEPT ![m].at = "sending",
                                    ![m].targets = web_bound[web_push[m].session]]
    /\ UNCHANGED <<web_parent, web_socket, web_bound, web_backlog, web_replay, web_got>>

\* Nobody was bound: the sockets of the parent, if there is one, get it.
FallBackToParent(m) ==
    /\ web_push[m].at = "orphan"
    /\ web_push' = [web_push EXCEPT ![m].at = "sending",
                                    ![m].targets = ParentSockets(web_push[m].session)]
    /\ UNCHANGED <<web_parent, web_socket, web_bound, web_backlog, web_replay, web_got>>

WebNext ==
    \/ \E k \in Socket : \/ RegisterClient(k) \/ ReplayOne(k)
                         \/ Disconnect(k) \/ UnregisterClient(k)
    \/ \E k \in Socket, s \in WebSession : BindSession(k, s)
    \/ \E m \in Push : DownloadFails(m) \/ FallBackToParent(m)
    \/ \E m \in Push, s \in Channel : BeginPush(m, s)
    \/ \E m \in Push, k \in Socket : SendPush(m, k)

WebSpec == WebInit /\ [][WebNext]_web_vars

(***************************************************************************)
(* Properties.                                                             *)
(***************************************************************************)
\* A push before its task has begun or after its download failed, and one
\* that was appended to a backlog.
PushRecord ==
    [at : {"new", "dropped"}]
    \cup [at : {"orphan", "sending", "failed"}, session : Channel,
          targets : SUBSET Socket, watchers : SUBSET Socket]

\* Every variable has its type.
WebTypeOK ==
    /\ web_parent \in [Channel -> WebSession \cup {"none"}]
    /\ web_socket \in [Socket -> {"new", "replaying", "open", "gone", "closed"}]
    /\ web_bound \in [Channel -> SUBSET Socket]
    /\ web_backlog \in [Channel -> Seq(Push)]
    /\ web_replay \in [Socket -> Seq(Push)]
    /\ web_push \in [Push -> PushRecord]
    /\ web_got \in [Socket -> SUBSET Push]

\* A push that is on its way to k, or may never get there: one that failed.
OnItsWay(m, k) == \/ m \in ToSet(web_replay[k])
                  \/ web_push[m].at = "sending" /\ k \in web_push[m].targets
                  \/ web_push[m].at = "failed"

\* A browser bound to a session misses nothing of the backlog, whether a
\* push comes before, after or between the moments it is added and replayed
\* to (WebGatewayAdapter.send, session.bind, register_client): it has it, or
\* it is about to, unless the push failed at another browser.
BoundClientsMissNothing ==
    \A s \in Channel : \A k \in web_bound[s] : Alive(k) =>
        \A m \in ToSet(web_backlog[s]) : m \in web_got[k] \/ OnItsWay(m, k)

\* A push of a sub-session that nobody has opened reaches every browser that
\* watches the parent and stays (WebGatewayAdapter.send,
\* GATEWAY_RUNTIME_PROTOCOL.md "Sub-session push routing").
OrphansReachTheParent ==
    \A m \in Push : web_push[m].at = "sending" /\ web_push[m].targets = {} =>
        \A k \in web_push[m].watchers : Alive(k) => m \in web_got[k]

\* A browser only gets what belongs to a session it is bound to, to a
\* sub-session of one, or to everybody.
ClientsGetTheirOwn ==
    \A k \in Socket : Alive(k) => \A m \in web_got[k] :
        LET s == web_push[m].session
        IN k \in web_bound[s] \/ (web_parent[s] # "none" /\ k \in web_bound[web_parent[s]])

\* Who is registered is served or being taken out.  The code does not keep it:
\* a socket lost in register_client stays registered.
NoDeadRegistrations ==
    \A s \in Channel : \A k \in web_bound[s] : web_socket[k] # "closed"

\* A broadcast goes to every connected browser (GATEWAY_RUNTIME_PROTOCOL.md).
\* The code does not keep it: a send that raises ends the push.
BroadcastsReachEverybody ==
    \A m \in ToSet(web_backlog[Broadcast]) : web_push[m].at = "failed" =>
        \A k \in web_push[m].targets : ~Alive(k)
=============================================================================
