--------------------------- MODULE OneBotSessions ---------------------------
(***************************************************************************)
(* The sessions of OneBot chats: OneBotGatewayAdapter, its session store,  *)
(* the routes of the gateway and the rows they are kept in.                *)
(*                                                                         *)
(* Every message of a chat is a webhook call, and calls run beside each    *)
(* other.  A call goes from one await to the next: it reads the pointer    *)
(* to the active session of its chat, checks the route, looks for another  *)
(* session or has one opened, moves the pointer and submits; or it is a    *)
(* command (new, checkout, rm) that does some of these.  Nothing excludes  *)
(* two calls of one chat, so what a call has read may be gone when it is   *)
(* used.                                                                   *)
(*                                                                         *)
(* A title is the sequence of its letters, for commands name a session by  *)
(* its id, its title or the beginning of its title.  Help, usage and ls    *)
(* only answer, and so does a command that is refused: it ends the call.   *)
(***************************************************************************)
EXTENDS Naturals, Sequences, FiniteSets, SequencesExt

CONSTANTS
    Chat,           \* senders: platform, user, group and own id together
    Webhook,        \* webhook calls
    ChatSession,    \* session ids
    DefaultTitle,   \* title of a session opened without one
    GivenTitle      \* titles users give and the needles they type

\* Ids are random and of a fixed length, so there are finitely many.
ASSUME ChatAssumption == /\ "none" \notin Chat \cup ChatSession
                         /\ IsFiniteSet(ChatSession)
                         /\ <<>> \notin GivenTitle \cup {DefaultTitle}

VARIABLES
    chat_title,     \* title of a session, empty before it is created
    chat_live,      \* sessions with a row in the business tables
    chat_route,     \* sender of a session's route, "none" without one
    chat_parent,    \* parent of a sub-session's route, "none" without one
    chat_active,    \* the pointer of each sender, "none" without a row
    chat_call,      \* where each webhook call is, and what it knows
    chat_stored,    \* history: sender and session of each message stored
    chat_opened     \* history: the sender a session was opened for

chat_rows == <<chat_title, chat_live, chat_route, chat_parent>>
chat_history == <<chat_stored, chat_opened>>
chat_vars == <<chat_rows, chat_active, chat_call, chat_history>>

Needle == ChatSession \cup GivenTitle

\* What a webhook call was sent for.
ChatCommand == [op : {"message"}]
    \cup [op : {"new"}, title : GivenTitle \cup {DefaultTitle}]
    \cup [op : {"checkout", "rm"}, needle : Needle]

IdleCall == [at |-> "idle"]

Goes(c, at) == chat_call' = [chat_call EXCEPT ![c].at = at]

Ends(c) == chat_call' = [chat_call EXCEPT ![c] = IdleCall]

GoesWith(c, at, s) ==
    chat_call' = [chat_call EXCEPT ![c].at = at, ![c].session = s]

Running(c, at) == chat_call[c].at = at

ChatInit == /\ chat_title = [s \in ChatSession |-> <<>>]
            /\ chat_live = {}
            /\ chat_route = [s \in ChatSession |-> "none"]
            /\ chat_parent = [s \in ChatSession |-> "none"]
            /\ chat_active = [p \in Chat |-> "none"]
            /\ chat_call = [c \in Webhook |-> IdleCall]
            /\ chat_stored = {}
            /\ chat_opened = [s \in ChatSession |-> "none"]

(***************************************************************************)
(* Queries.                                                                *)
(***************************************************************************)
\* The sessions of a sender that still exist.
Listed(p) == {s \in chat_live : chat_route[s] = p}

Titled(p, t) == {s \in Listed(p) : chat_title[s] = t}

TitledLike(p, t) == {s \in Listed(p) : IsPrefix(t, chat_title[s])}

\* The session a command names: one owned by the sender, "none" if there is
\* no such session or more than one.  An id needs a route, not a session.
Resolved(p, n) ==
    IF n \in ChatSession THEN IF chat_route[n] = p THEN n ELSE "none"
    ELSE LET hits == IF Titled(p, n) # {} THEN Titled(p, n)
                                          ELSE TitledLike(p, n)
         IN IF Cardinality(hits) = 1 THEN CHOOSE s \in hits : TRUE ELSE "none"

\* The route an answer takes: the session's own, or that of the nearest
\* ancestor that has one, of which at most n are looked at.
Receiver[n \in 0..Cardinality(ChatSession)] ==
    [s \in ChatSession |->
        IF chat_route[s] # "none" \/ chat_parent[s] = "none" \/ n = 0
        THEN chat_route[s] ELSE Receiver[n - 1][chat_parent[s]]]

ReceiverOf(s) == Receiver[Cardinality(ChatSession)][s]

(***************************************************************************)
(* A webhook call arrives.  The guards of the endpoint (not a message,     *)
(* from the bot itself, not an allowed user) let nothing through.          *)
(***************************************************************************)
CallArrives(c, p, command) ==
    /\ Running(c, "idle")
    /\ chat_call' = [chat_call EXCEPT ![c] =
          [at |-> CASE command.op = "message" -> "read"
                    [] command.op = "new" -> "open"
                    [] OTHER -> "resolve",
           sender |-> p, command |-> command, session |-> "none"]]
    /\ UNCHANGED <<chat_rows, chat_active, chat_history>>

\* Read the pointer of the sender.
ReadActive(c) ==
    /\ Running(c, "read")
    /\ LET a == chat_active[chat_call[c].sender]
       IN IF a = "none" THEN Goes(c, "find") ELSE GoesWith(c, "check", a)
    /\ UNCHANGED <<chat_rows, chat_active, chat_history>>

\* The session must have a route of this sender; else forget the pointer.
CheckActive(c) ==
    /\ Running(c, "check")
    /\ Goes(c, IF chat_route[chat_call[c].session] = chat_call[c].sender
               THEN "convert" ELSE "clear")
    /\ UNCHANGED <<chat_rows, chat_active, chat_history>>

ClearActive(c) ==
    /\ chat_call[c].at \in {"clear", "rm_clear"}
    /\ chat_active' = [chat_active EXCEPT ![chat_call[c].sender] = "none"]
    /\ Goes(c, IF Running(c, "clear") THEN "find" ELSE "rm_delete")
    /\ UNCHANGED <<chat_rows, chat_history>>

\* Mutant: the sender is not part of the query.
FindAny(c) ==
    /\ Running(c, "find")
    /\ LET found == {s \in ChatSession : chat_route[s] # "none"}
       IN IF found = {} THEN Goes(c, "open")
          ELSE \E s \in found : GoesWith(c, "activate", s)
    /\ UNCHANGED <<chat_rows, chat_active, chat_history>>

\* The query asks for the first of the sender's routes, in no stated order.
FindBySender(c) ==
    /\ Running(c, "find")
    /\ LET found == {s \in ChatSession : chat_route[s] = chat_call[c].sender}
       IN IF found = {} THEN Goes(c, "open")
          ELSE \E s \in found : GoesWith(c, "activate", s)
    /\ UNCHANGED <<chat_rows, chat_active, chat_history>>

\* The business side creates the session, the gateway binds its route when
\* the answer is back.
OpenSession(c) ==
    /\ Running(c, "open")
    /\ \E s \in ChatSession :
          /\ chat_title[s] = <<>>
          /\ chat_title' = [chat_title EXCEPT ![s] =
                IF chat_call[c].command.op = "new"
                THEN chat_call[c].command.title ELSE DefaultTitle]
          /\ chat_live' = chat_live \cup {s}
          /\ chat_opened' = [chat_opened EXCEPT ![s] = chat_call[c].sender]
          /\ GoesWith(c, "bind", s)
    /\ UNCHANGED <<chat_route, chat_parent, chat_active, chat_stored>>

\* The request is refused, or the connection to the business side is gone.
OpenFails(c) == /\ Running(c, "open")
                /\ Ends(c)
                /\ UNCHANGED <<chat_rows, chat_active, chat_history>>

\* Mutant: the sender is kept by the adapter, not by the call.
BindRouteOfAny(c) ==
    /\ chat_call[c].at \in {"bind", "rebind"}
    /\ \E d \in Webhook :
          /\ ~Running(d, "idle")
          /\ chat_route' = [chat_route EXCEPT ![chat_call[c].session] = chat_call[d].sender]
    /\ IF Running(c, "bind") THEN Goes(c, "activate") ELSE Ends(c)
    /\ UNCHANGED <<chat_title, chat_live, chat_parent, chat_active, chat_history>>

BindRoute(c) ==
    /\ chat_call[c].at \in {"bind", "rebind"}
    /\ chat_route' = [chat_route EXCEPT ![chat_call[c].session] = chat_call[c].sender]
    /\ IF Running(c, "bind") THEN Goes(c, "activate") ELSE Ends(c)
    /\ UNCHANGED <<chat_title, chat_live, chat_parent, chat_active, chat_history>>

\* The row of the pointer is looked up, then inserted or updated.
LookUpPointer(c) ==
    /\ Running(c, "activate")
    /\ Goes(c, IF chat_active[chat_call[c].sender] = "none" THEN "insert" ELSE "update")
    /\ UNCHANGED <<chat_rows, chat_active, chat_history>>

\* An insert fails if there is a row by now, an update if there is none.
WritePointer(c) ==
    LET p == chat_call[c].sender
        row == chat_active[p] # "none"
    IN /\ chat_call[c].at \in {"insert", "update"}
       /\ IF row # Running(c, "update")
          THEN Ends(c) /\ UNCHANGED chat_active
          ELSE /\ chat_active' = [chat_active EXCEPT ![p] = chat_call[c].session]
               /\ IF chat_call[c].command.op = "message"
                  THEN Goes(c, "convert") ELSE Ends(c)
       /\ UNCHANGED <<chat_rows, chat_history>>

\* The message becomes segments: its files are fetched and uploaded, which
\* may fail; a message without any is dropped.
Convert(c) ==
    /\ Running(c, "convert")
    /\ Goes(c, "submit") \/ Ends(c)
    /\ UNCHANGED <<chat_rows, chat_active, chat_history>>

\* The business side stores the message if the session exists.
Submit(c) ==
    /\ Running(c, "submit")
    /\ IF chat_call[c].session \in chat_live
       THEN /\ chat_stored' = chat_stored \cup {<<chat_call[c].sender, chat_call[c].session>>}
            /\ Goes(c, "rebind")
       ELSE Ends(c) /\ UNCHANGED chat_stored
    /\ UNCHANGED <<chat_rows, chat_active, chat_opened>>

\* checkout and rm look the session up.
ResolveOwned(c) ==
    /\ Running(c, "resolve")
    /\ LET command == chat_call[c].command
           s == Resolved(chat_call[c].sender, command.needle)
       IN IF s = "none" THEN Ends(c)
          ELSE GoesWith(c, IF command.op = "checkout" THEN "activate" ELSE "rm_read", s)
    /\ UNCHANGED <<chat_rows, chat_active, chat_history>>

\* rm forgets the pointer if it is at the session, and deletes the session.
RemoveReadsActive(c) ==
    /\ Running(c, "rm_read")
    /\ Goes(c, IF chat_active[chat_call[c].sender] = chat_call[c].session
               THEN "rm_clear" ELSE "rm_delete")
    /\ UNCHANGED <<chat_rows, chat_active, chat_history>>

\* The route stays: foreign keys are declared to cascade, but the engine is
\* opened without enforcing them.
RemoveDeletes(c) ==
    /\ Running(c, "rm_delete")
    /\ chat_live' = chat_live \ {chat_call[c].session}
    /\ Ends(c)
    /\ UNCHANGED <<chat_title, chat_route, chat_parent, chat_active, chat_history>>

\* A session delegates: the sub-session gets a route to its parent.
OpenSubSession(s) ==
    /\ s \in chat_live
    /\ \E sub \in ChatSession :
          /\ chat_title[sub] = <<>>
          /\ chat_title' = [chat_title EXCEPT ![sub] = DefaultTitle]
          /\ chat_live' = chat_live \cup {sub}
          /\ chat_parent' = [chat_parent EXCEPT ![sub] = s]
          /\ chat_opened' = [chat_opened EXCEPT ![sub] = chat_opened[s]]
    /\ UNCHANGED <<chat_route, chat_active, chat_call, chat_stored>>

CallStep(c) == \/ ReadActive(c) \/ CheckActive(c) \/ ClearActive(c)
               \/ FindBySender(c) \/ OpenSession(c) \/ OpenFails(c) \/ BindRoute(c)
               \/ LookUpPointer(c) \/ WritePointer(c)
               \/ Convert(c) \/ Submit(c)
               \/ ResolveOwned(c) \/ RemoveReadsActive(c) \/ RemoveDeletes(c)

ChatNext == \/ \E c \in Webhook : CallStep(c)
            \/ \E c \in Webhook, p \in Chat, command \in ChatCommand :
                  CallArrives(c, p, command)
            \/ \E s \in ChatSession : OpenSubSession(s)

ChatSpec == ChatInit /\ [][ChatNext]_chat_vars

(***************************************************************************)
(* Properties.                                                             *)
(***************************************************************************)
CallRecord == [at : {"read", "check", "clear", "find", "open", "bind", "activate",
                     "insert", "update", "convert", "submit", "rebind",
                     "resolve", "rm_read", "rm_clear", "rm_delete"},
               sender : Chat, command : ChatCommand,
               session : ChatSession \cup {"none"}]

\* Every variable has its type; a call that runs has a sender and a command.
ChatTypeOK ==
    /\ chat_title \in [ChatSession -> GivenTitle \cup {DefaultTitle, <<>>}]
    /\ chat_live \in SUBSET ChatSession
    /\ chat_route \in [ChatSession -> Chat \cup {"none"}]
    /\ chat_parent \in [ChatSession -> ChatSession \cup {"none"}]
    /\ chat_active \in [Chat -> ChatSession \cup {"none"}]
    /\ chat_call \in [Webhook -> CallRecord \cup {IdleCall}]
    /\ chat_stored \subseteq Chat \X ChatSession
    /\ chat_opened \in [ChatSession -> Chat \cup {"none"}]

\* Chats are private: whatever other chats do in between, a message is only
\* stored in a session that was opened for its sender, although the session
\* is chosen several awaits before it is used
\* (onebot_adapter._resolve_session_id, checkout).
MessagesStayInTheirChat ==
    \A m \in chat_stored : chat_opened[m[2]] = m[1]

\* An answer, also of a sub-session, goes to the chat the session was opened
\* for: routes are bound anew after every message and never move
\* (GatewayRuntime.submit_inbound, GatewaySessionRouteRepository.resolve).
AnswersReachTheirChat ==
    \A s \in ChatSession : ReceiverOf(s) \in {"none", chat_opened[s]}

\* Nobody removes a session of another chat, and a session is removed only
\* by an rm that is under way (onebot_adapter._handle_management_command).
OnlyOwnersRemove ==
    [][\A s \in chat_live : s \notin chat_live' =>
          \E c \in Webhook : /\ chat_call[c].at = "rm_delete"
                             /\ chat_call[c].session = s
                             /\ chat_call[c].sender = chat_opened[s]]_chat_vars

\* The tables declare the route of a session to be deleted with it
\* (models.GatewaySessionRouteModel.session_id).  The code does not keep it: rm
\* deletes the session and leaves its route.
RoutesHaveSessions ==
    \A s \in ChatSession : chat_route[s] # "none" => s \in chat_live
=============================================================================
