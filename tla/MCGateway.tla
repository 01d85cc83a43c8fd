----------------------------- MODULE MCGateway -----------------------------
(* The adapters of the gateway on a small instance: the chats of OneBot    *)
(* and the browsers.  They share nothing, so each is checked by itself:    *)
(* focus says which.  Titles are sequences of letters, of which a user may *)
(* give one that begins like another.                                      *)
EXTENDS OneBotSessions, WebClients, TLC

VARIABLE focus

MCInit == /\ ChatInit /\ WebInit
          /\ focus \in {"chats", "browsers"}
          /\ focus = "chats" => web_parent = [s \in Channel |-> "none"]

MCNext == \/ focus = "chats" /\ ChatNext /\ UNCHANGED <<web_vars, focus>>
          \/ focus = "browsers" /\ WebNext /\ UNCHANGED <<chat_vars, focus>>

MCSpec == MCInit /\ [][MCNext]_<<chat_vars, web_vars, focus>>

Default == <<3>>
Given == {<<1>>, <<1, 2>>}

Symmetry == UNION {Permutations(S) : S \in {Chat, Webhook, ChatSession, Socket, Push}}
=============================================================================
