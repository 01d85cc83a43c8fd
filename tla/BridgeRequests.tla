--------------------------- MODULE BridgeRequests ---------------------------
(***************************************************************************)
(* Requests of the gateway over the bridge that wait for an answer: open a *)
(* session, upload and download a file, control calls; and files pushed to *)
(* the gateway, whose dispatch downloads them over the same connection.    *)
(* WsBridgeClient on one side, UserGateway and GatewayFileService on the   *)
(* other.                                                                  *)
(*                                                                         *)
(* Unlike inbound messages these frames are never sent again, and nobody   *)
(* fails a waiter whose connection is lost: only control calls have a      *)
(* timeout.  Uploads survive a lost connection, not a restart.  Both sides *)
(* handle one frame after the other; the tasks that wait run beside.       *)
(*                                                                         *)
(* A file is the sequence of its chunks, a chunk is told by its owner and  *)
(* its place.  Digests and sizes never disagree on a connection that loses *)
(* frames only by breaking.  An error of the database in the handling of   *)
(* a file ends the connection and is one of its losses.                    *)
(***************************************************************************)
EXTENDS Naturals, Sequences, FiniteSets

CONSTANTS
    Request,        \* calls of the gateway, and files pushed to it
    MaxChunks,      \* chunks of the largest file the limit allows
    MaxLosses       \* bound: lost connections and restarts

\* A gateway makes finitely many calls.
ASSUME RequestAssumption ==
    IsFiniteSet(Request) /\ MaxChunks \in Nat /\ MaxLosses \in Nat

VARIABLES
    req_up,         \* the bridge is ready
    req_losses,     \* connections lost so far
    req_out,        \* frames to the business side
    req_in,         \* frames to the gateway
    req_call,       \* what each caller is doing, and the answer it was given
    req_uploads,    \* _uploads: the chunks of the uploads begun
    req_files,      \* files stored: the request and its chunks
    req_sessions    \* sessions opened, by the request they were opened for

req_link == <<req_up, req_losses>>
req_store == <<req_files, req_sessions>>
req_vars == <<req_link, req_out, req_in, req_call, req_uploads, req_store>>

RequestKind == {"open", "upload", "download", "control"}

ReqIdle == [at |-> "idle", kind |-> "none", size |-> 0, seq |-> 0, got |-> {},
            status |-> "none", epoch |-> 0]

Waiting(r) == req_call[r].at = "waiting"

ReqInit == /\ req_up = TRUE /\ req_losses = 0
           /\ req_out = <<>> /\ req_in = <<>>
           /\ req_call = [r \in Request |-> ReqIdle]
           /\ req_uploads = [r \in {} |-> {}]
           /\ req_files = {} /\ req_sessions = {}

(***************************************************************************)
(* The caller.                                                             *)
(***************************************************************************)
\* Send a frame and wait for its answer.  On a broken connection the send
\* raises, or the frame vanishes.
Asks(r, call, frame) ==
    \/ /\ req_up
       /\ req_out' = Append(req_out, frame)
       /\ req_call' = [req_call EXCEPT ![r] = [call EXCEPT !.at = "waiting"]]
    \/ /\ ~req_up
       /\ req_call' = [req_call EXCEPT ![r] = [call EXCEPT !.at = "waiting"]]
       /\ UNCHANGED req_out
    \/ /\ ~req_up
       /\ req_call' = [req_call EXCEPT ![r] = [call EXCEPT !.at = "failed"]]
       /\ UNCHANGED req_out

Returns(r, at) == /\ req_call' = [req_call EXCEPT ![r].at = at]
                  /\ UNCHANGED req_out

FirstFrame(r, kind) == [req |-> r, type |-> CASE kind = "open" -> "session_open"
                                              [] kind = "upload" -> "file_put_init"
                                              [] kind = "control" -> "gateway_control"
                                              [] OTHER -> "file_get"]

\* A call waits until the bridge is ready.  The epoch is a note.
StartRequest(r, kind, size) ==
    /\ req_call[r] = ReqIdle /\ req_up
    /\ kind \in RequestKind
    /\ Asks(r, [ReqIdle EXCEPT !.kind = kind, !.size = size, !.epoch = req_losses],
            FirstFrame(r, kind))
    /\ UNCHANGED <<req_link, req_in, req_uploads, req_store>>

\* The business side pushes a file to the gateway.
PushFile(r, size) ==
    /\ req_call[r] = ReqIdle /\ req_up
    /\ req_call' = [req_call EXCEPT ![r] =
          [ReqIdle EXCEPT !.at = "pushed", !.kind = "dispatch", !.size = size,
                          !.epoch = req_losses]]
    /\ req_in' = Append(req_in, [req |-> r, type |-> "outbound"])
    /\ UNCHANGED <<req_link, req_out, req_uploads, req_store>>

\* The task of a pushed file asks for it.
BeginDispatch(r) ==
    /\ req_call[r].at = "dispatching" /\ req_up
    /\ Asks(r, [req_call[r] EXCEPT !.epoch = req_losses], FirstFrame(r, "dispatch"))
    /\ UNCHANGED <<req_link, req_in, req_uploads, req_store>>

\* The answer is there: an upload goes on with its next chunk or its commit,
\* everything else ends.
ResumeRequest(r) ==
    LET call == req_call[r]
        next == [call EXCEPT !.seq = @ + 1]
    IN /\ call.at = "answered"
       /\ CASE call.status \notin {"ok", "duplicate"} -> Returns(r, "failed")
            [] call.kind = "upload" /\ call.seq < call.size ->
                 Asks(r, next, [req |-> r, type |-> "file_put_chunk", seq |-> call.seq])
            [] call.kind = "upload" /\ call.seq = call.size ->
                 Asks(r, next, [req |-> r, type |-> "file_put_commit", total |-> call.size])
            [] OTHER -> Returns(r, "done")
       /\ UNCHANGED <<req_link, req_in, req_uploads, req_store>>

\* Only a control call gives up.
ControlTimesOut(r) ==
    /\ Waiting(r) /\ req_call[r].kind = "control"
    /\ Returns(r, "failed")
    /\ UNCHANGED <<req_link, req_in, req_uploads, req_store>>

(***************************************************************************)
(* The business side: one frame after the other.                           *)
(***************************************************************************)
AnswerFrame(r, status) == <<[req |-> r, type |-> "answer", status |-> status]>>

\* put_chunk
StoreChunk(r, seq) ==
    LET known == r \in DOMAIN req_uploads
        status == IF ~known THEN "invalid"
                  ELSE IF seq \in req_uploads[r] THEN "duplicate" ELSE "ok"
    IN /\ req_uploads' = IF known THEN [req_uploads EXCEPT ![r] = @ \cup {seq}]
                         ELSE req_uploads
       /\ req_in' = req_in \o AnswerFrame(r, status)
       /\ UNCHANGED req_store

\* put_commit: the upload is forgotten when the file is stored.
CommitUpload(r, total) ==
    LET complete == r \in DOMAIN req_uploads /\ Cardinality(req_uploads[r]) = total
    IN /\ req_files' = IF complete THEN req_files \cup {<<r, req_uploads[r]>>} ELSE req_files
       /\ req_uploads' = IF complete
                         THEN [u \in DOMAIN req_uploads \ {r} |-> req_uploads[u]]
                         ELSE req_uploads
       /\ req_in' = req_in \o AnswerFrame(r, IF complete THEN "ok" ELSE "invalid")
       /\ UNCHANGED req_sessions

\* Mutant: the acknowledgement is sent first.
SendAckFirst(r) ==
    /\ req_in' = req_in \o AnswerFrame(r, "ok")
                       \o [i \in 1..req_call[r].size |->
                              [req |-> r, type |-> "file_get_chunk", seq |-> i - 1]]
    /\ UNCHANGED <<req_uploads, req_store>>

\* get_chunks: every chunk is a frame, the acknowledgement comes last.  The
\* file may be gone, or belong to another session.
SendChunks(r) ==
    /\ \/ req_in' = req_in \o [i \in 1..req_call[r].size |->
                                  [req |-> r, type |-> "file_get_chunk", seq |-> i - 1]]
                           \o AnswerFrame(r, "ok")
       \/ req_in' = req_in \o AnswerFrame(r, "invalid")
    /\ UNCHANGED <<req_uploads, req_store>>

\* A session is opened; when its workspace cannot be set up it stays behind.
HandleRequest ==
    /\ req_out # <<>>
    /\ req_out' = Tail(req_out)
    /\ LET frame == Head(req_out)
           r == frame.req
       IN CASE frame.type = "session_open" ->
                 /\ \/ /\ req_sessions' = req_sessions \cup {r}
                       /\ req_in' = req_in \o AnswerFrame(r, "ok")
                    \/ /\ req_in' = req_in \o AnswerFrame(r, "failed")
                       /\ \/ UNCHANGED req_sessions
                          \/ req_sessions' = req_sessions \cup {r}
                 /\ UNCHANGED <<req_uploads, req_files>>
            [] frame.type = "file_put_init" ->
                 /\ req_uploads' = [u \in DOMAIN req_uploads \cup {r} |->
                                       IF u = r THEN {} ELSE req_uploads[u]]
                 /\ req_in' = req_in \o AnswerFrame(r, "ok")
                 /\ UNCHANGED req_store
            [] frame.type = "file_put_chunk" -> StoreChunk(r, frame.seq)
            [] frame.type = "file_put_commit" -> CommitUpload(r, frame.total)
            [] frame.type = "file_get" -> SendChunks(r)
            [] frame.type = "gateway_control" ->
                 /\ \E status \in {"ok", "failed"} : req_in' = req_in \o AnswerFrame(r, status)
                 /\ UNCHANGED <<req_uploads, req_store>>
    /\ UNCHANGED <<req_link, req_call>>

(***************************************************************************)
(* The receiver of the gateway.                                            *)
(***************************************************************************)
\* An answer wakes its waiter, if there still is one; a chunk is put in its
\* place; a pushed file begins to be dispatched.
TakeFrame(frame) ==
    LET r == frame.req
    IN req_call' = CASE frame.type = "outbound" ->
                          [req_call EXCEPT ![r].at = "dispatching", ![r].got = {}]
                     [] frame.type = "file_get_chunk" ->
                          [req_call EXCEPT ![r].got = @ \cup {frame.seq}]
                     [] OTHER -> IF Waiting(r)
                                 THEN [req_call EXCEPT ![r].at = "answered",
                                                       ![r].status = frame.status]
                                 ELSE req_call

\* Mutant: a pushed file is dispatched by the receiver itself.
ReceiveInTurn ==
    /\ req_in # <<>>
    /\ \A r \in Request : req_call[r].kind = "dispatch"
                             => req_call[r].at \in {"pushed", "done", "failed"}
    /\ req_in' = Tail(req_in)
    /\ TakeFrame(Head(req_in))
    /\ UNCHANGED <<req_link, req_out, req_uploads, req_store>>

\* The dispatch of a file is a task of its own, for the receiver has to read
\* the chunks the dispatch will ask for.
ReceiveAnswer ==
    /\ req_in # <<>>
    /\ req_in' = Tail(req_in)
    /\ TakeFrame(Head(req_in))
    /\ UNCHANGED <<req_link, req_out, req_uploads, req_store>>

(***************************************************************************)
(* The connection.                                                         *)
(***************************************************************************)
\* Lost, with the frames under way; in a restart with the uploads too.
LoseBridge(restart) ==
    /\ req_up /\ req_losses < MaxLosses
    /\ req_up' = FALSE /\ req_losses' = req_losses + 1
    /\ req_out' = <<>> /\ req_in' = <<>>
    /\ req_uploads' = IF restart THEN [r \in {} |-> {}] ELSE req_uploads
    /\ UNCHANGED <<req_call, req_store>>

\* After a new handshake, a pushed file that was not acknowledged is pushed
\* again; the task that waits in vain is left alone.
RestoreBridge ==
    LET unacked == {r \in Request : req_call[r].at \in {"pushed", "waiting"}
                                    /\ req_call[r].kind = "dispatch"}
    IN /\ ~req_up
       /\ req_up' = TRUE
       /\ \E order \in [1..Cardinality(unacked) -> unacked] :
             /\ \A i, j \in DOMAIN order : order[i] = order[j] => i = j
             /\ req_in' = [i \in DOMAIN order |-> [req |-> order[i], type |-> "outbound"]]
       /\ UNCHANGED <<req_losses, req_out, req_call, req_uploads, req_store>>

ReqNext == \/ \E r \in Request, kind \in RequestKind, size \in 0..MaxChunks :
                 StartRequest(r, kind, size)
           \/ \E r \in Request, size \in 0..MaxChunks : PushFile(r, size)
           \/ \E r \in Request : \/ BeginDispatch(r) \/ ResumeRequest(r)
                                 \/ ControlTimesOut(r)
           \/ HandleRequest \/ ReceiveAnswer
           \/ \E restart \in BOOLEAN : LoseBridge(restart)
           \/ RestoreBridge

ReqSafeSpec == ReqInit /\ [][ReqNext]_req_vars

\* Both sides read what arrives, tasks run, clocks go on, and the client
\* tries to connect until it can.
ReqFairness == /\ WF_req_vars(HandleRequest) /\ WF_req_vars(ReceiveAnswer)
               /\ WF_req_vars(RestoreBridge)
               /\ \A r \in Request : /\ WF_req_vars(BeginDispatch(r))
                                     /\ WF_req_vars(ResumeRequest(r))
                                     /\ WF_req_vars(ControlTimesOut(r))

(***************************************************************************)
(* Properties.                                                             *)
(***************************************************************************)
RequestRecord == [at : {"idle", "pushed", "dispatching", "waiting", "answered", "done", "failed"},
               kind : RequestKind \cup {"none", "dispatch"}, size : 0..MaxChunks, seq : Nat,
               got : SUBSET Nat, status : {"none", "ok", "duplicate", "invalid", "failed"},
               epoch : Nat]

OutFrame ==
    [req : Request, type : {"session_open", "file_put_init", "file_get", "gateway_control"}]
    \cup [req : Request, type : {"file_put_chunk"}, seq : Nat]
    \cup [req : Request, type : {"file_put_commit"}, total : Nat]

InFrame ==
    [req : Request, type : {"outbound"}]
    \cup [req : Request, type : {"file_get_chunk"}, seq : Nat]
    \cup [req : Request, type : {"answer"}, status : {"ok", "duplicate", "invalid", "failed"}]

\* Every variable has its type.
ReqTypeOK ==
    /\ req_up \in BOOLEAN /\ req_losses \in Nat
    /\ req_out \in Seq(OutFrame) /\ req_in \in Seq(InFrame)
    /\ req_call \in [Request -> RequestRecord]
    /\ DOMAIN req_uploads \subseteq Request
    /\ req_uploads \in [DOMAIN req_uploads -> SUBSET Nat]
    /\ req_files \subseteq Request \X SUBSET Nat
    /\ req_sessions \subseteq Request

Done(r, kinds) == req_call[r].at = "done" /\ req_call[r].kind \in kinds

Chunks(r) == {i \in 0..MaxChunks : i < req_call[r].size}

\* A file is stored with all its chunks; who is told of a file or a session
\* finds it; who downloaded a file has all of it: whatever connections were
\* lost between the frames of a request, no answer of a lost connection comes
\* in later, and the acknowledgement never overtakes a chunk
\* (WsBridgeClient.upload_file, download_file, GatewayFileService.put_commit).
TransfersAreWhole ==
    /\ \A f \in req_files : f[2] = Chunks(f[1])
    /\ \A r \in Request :
          /\ Done(r, {"upload"}) => \E f \in req_files : f[1] = r
          /\ Done(r, {"open"}) => r \in req_sessions
          /\ Done(r, {"download", "dispatch"}) => req_call[r].got = Chunks(r)

Pending == {"pushed", "dispatching", "waiting", "answered"}

\* A call is answered unless its connection is lost, and so is a pushed file
\* although it is downloaded on the connection that delivers it
\* (WsBridgeClient._handle_frame); a control call ends in any case
\* (WsBridgeClient.send_bridge_control).
AnsweredOrLost ==
    \A r \in Request :
        req_call[r].at \in Pending ~>
            \/ req_call[r].at \in {"done", "failed"}
            \/ req_call[r].kind # "control" /\ req_call[r].epoch < req_losses
=============================================================================
