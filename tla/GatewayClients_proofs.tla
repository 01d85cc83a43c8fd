----------------------- MODULE GatewayClients_proofs ------------------------
(***************************************************************************)
(* The clients of the gateway, for any number of chats, sessions, browsers *)
(* and pushes: the sessions of the OneBot adapter and the pushes of the    *)
(* web adapter.                                                            *)
(***************************************************************************)
EXTENDS OneBotSessions, WebClients, Induction

(***************************************************************************)
(* OneBotSessions.  A session belongs to the chat it was opened for from   *)
(* the moment it has a title, and only sessions without one are opened; so *)
(* whatever a call, a pointer or a route holds stays the property of its   *)
(* sender over every await, also when it is removed.  Answers of           *)
(* sub-sessions follow: a lineage never leaves the chat it began in.       *)
(***************************************************************************)

(* Only a session that was created was opened for somebody.                *)
OpenedIsCreated ==
    \A s \in ChatSession : chat_opened[s] # "none" => chat_title[s] # <<>>

(* A route names the chat its session was opened for.                      *)
RoutesAreOwned ==
    \A s \in ChatSession : chat_route[s] # "none" => chat_opened[s] = chat_route[s]

(* So does the pointer of a chat.                                          *)
PointersAreOwned ==
    \A p \in Chat : chat_active[p] # "none" => chat_opened[chat_active[p]] = p

(* The places where a call has chosen its session.                         *)
Chosen == {"check", "bind", "activate", "insert", "update", "convert", "submit",
           "rebind", "rm_read", "rm_clear", "rm_delete"}

(* A call holds no session but one of its sender's, over every await.      *)
CallsAreOwned ==
    \A c \in Webhook : ~Running(c, "idle") =>
        /\ chat_call[c].session # "none" =>
              chat_opened[chat_call[c].session] = chat_call[c].sender
        /\ chat_call[c].at \in Chosen => chat_call[c].session # "none"

ChatInv == /\ ChatTypeOK /\ OpenedIsCreated
           /\ RoutesAreOwned /\ PointersAreOwned /\ CallsAreOwned
           /\ MessagesStayInTheirChat

LEMMA ChatInvInit == ChatInit => ChatInv
  BY ChatAssumption
     DEF ChatInit, ChatInv, ChatTypeOK, OpenedIsCreated, RoutesAreOwned,
         PointersAreOwned, CallsAreOwned, MessagesStayInTheirChat, IdleCall, Running

(***************************************************************************)
(* Operators.                                                              *)
(***************************************************************************)
LEMMA RunningIsRecord ==
  ASSUME ChatTypeOK, NEW c \in Webhook, ~Running(c, "idle")
  PROVE  /\ chat_call[c] \in CallRecord
         /\ chat_call[c].sender \in Chat
         /\ chat_call[c].command \in ChatCommand
         /\ chat_call[c].session \in ChatSession \cup {"none"}
  BY DEF ChatTypeOK, Running, IdleCall, CallRecord

(* A command only names sessions with a route of its sender.               *)
LEMMA ResolvedIsRouted ==
  ASSUME ChatTypeOK, NEW p \in Chat, NEW n, Resolved(p, n) # "none"
  PROVE  /\ Resolved(p, n) \in ChatSession
         /\ chat_route[Resolved(p, n)] = p
<1>1. CASE n \in ChatSession
  BY <1>1 DEF Resolved
<1>2. CASE n \notin ChatSession
  <2> DEFINE hits == IF Titled(p, n) # {} THEN Titled(p, n) ELSE TitledLike(p, n)
  <2>1. /\ hits \subseteq ChatSession
        /\ \A s \in hits : chat_route[s] = p
    BY DEF Titled, TitledLike, Listed, ChatTypeOK
  <2>2. /\ Cardinality(hits) = 1
        /\ Resolved(p, n) = CHOOSE s \in hits : TRUE
    BY <1>2 DEF Resolved
  <2>3. hits # {}
    BY <2>2, FS_EmptySet
  <2>4. (CHOOSE s \in hits : TRUE) \in hits
    BY <2>3
  <2> QED BY <2>1, <2>2, <2>4
<1> QED BY <1>1, <1>2

(***************************************************************************)
(* Ways a call goes on, while no session changes hands.                    *)
(***************************************************************************)
OpenedGrows ==
    \A s \in ChatSession : chat_opened[s] # "none" => chat_opened'[s] = chat_opened[s]

Places == {"read", "check", "clear", "find", "open", "bind", "activate", "insert",
           "update", "convert", "submit", "rebind", "resolve", "rm_read",
           "rm_clear", "rm_delete"}

CallsAreTyped == chat_call \in [Webhook -> CallRecord \cup {IdleCall}]

(* A call that is replaced by one with a session of its sender.            *)
LEMMA ReplacedCall ==
  ASSUME ChatTypeOK, CallsAreOwned, OpenedGrows, NEW c \in Webhook,
         NEW r \in CallRecord, chat_call' = [chat_call EXCEPT ![c] = r],
         r.session # "none" => chat_opened'[r.session] = r.sender,
         r.at \in Chosen => r.session # "none"
  PROVE  CallsAreTyped' /\ CallsAreOwned'
<1>1. CallsAreTyped'
  BY DEF CallsAreTyped, ChatTypeOK
<1>2. ASSUME NEW d \in Webhook, ~Running(d, "idle")'
      PROVE  /\ chat_call'[d].session # "none" =>
                   chat_opened'[chat_call'[d].session] = chat_call'[d].sender
             /\ chat_call'[d].at \in Chosen => chat_call'[d].session # "none"
  <2>1. CASE d = c
    BY <2>1 DEF ChatTypeOK
  <2>2. CASE d # c
    <3>1. chat_call'[d] = chat_call[d] /\ ~Running(d, "idle")
      BY <1>2, <2>2 DEF ChatTypeOK, Running
    <3>2. /\ chat_call[d].sender \in Chat
          /\ chat_call[d].session \in ChatSession \cup {"none"}
      BY <3>1, RunningIsRecord
    <3> QED BY <3>1, <3>2, ChatAssumption DEF CallsAreOwned, OpenedGrows
  <2> QED BY <2>1, <2>2
<1> QED BY <1>1, <1>2 DEF CallsAreOwned

LEMMA GoesKeeps ==
  ASSUME ChatTypeOK, CallsAreOwned, OpenedGrows, NEW c \in Webhook, ~Running(c, "idle"),
         NEW at \in Places, at \in Chosen => chat_call[c].session # "none", Goes(c, at)
  PROVE  CallsAreTyped' /\ CallsAreOwned'
<1> DEFINE r == [chat_call[c] EXCEPT !.at = at]
<1>1. r \in CallRecord
  BY RunningIsRecord DEF CallRecord, Places
<1>2. /\ r.session = chat_call[c].session /\ r.sender = chat_call[c].sender
      /\ r.at = at
  BY RunningIsRecord DEF CallRecord
<1>3. chat_call' = [chat_call EXCEPT ![c] = r]
  BY DEF Goes, ChatTypeOK
<1>4. r.session # "none" => chat_opened'[r.session] = r.sender
  BY <1>2, RunningIsRecord, ChatAssumption DEF CallsAreOwned, OpenedGrows
<1> HIDE DEF r
<1> QED BY <1>1, <1>2, <1>3, <1>4, ReplacedCall

LEMMA GoesWithKeeps ==
  ASSUME ChatTypeOK, CallsAreOwned, OpenedGrows, NEW c \in Webhook, ~Running(c, "idle"),
         NEW at \in Places, NEW s \in ChatSession,
         chat_opened'[s] = chat_call[c].sender, GoesWith(c, at, s)
  PROVE  CallsAreTyped' /\ CallsAreOwned'
<1> DEFINE r == [chat_call[c] EXCEPT !.at = at, !.session = s]
<1>1. r \in CallRecord
  BY RunningIsRecord DEF CallRecord, Places
<1>2. /\ r.session = s /\ r.sender = chat_call[c].sender
      /\ r.at = at
  BY RunningIsRecord DEF CallRecord
<1>3. chat_call' = [chat_call EXCEPT ![c] = r]
  BY DEF GoesWith, ChatTypeOK
<1>4. s # "none"
  BY ChatAssumption
<1> HIDE DEF r
<1> QED BY <1>1, <1>2, <1>3, <1>4, ReplacedCall

LEMMA EndsKeeps ==
  ASSUME ChatTypeOK, CallsAreOwned, OpenedGrows, NEW c \in Webhook, Ends(c)
  PROVE  CallsAreTyped' /\ CallsAreOwned'
<1>1. CallsAreTyped'
  BY DEF CallsAreTyped, ChatTypeOK, Ends
<1>2. ASSUME NEW d \in Webhook, ~Running(d, "idle")'
      PROVE  /\ chat_call'[d].session # "none" =>
                   chat_opened'[chat_call'[d].session] = chat_call'[d].sender
             /\ chat_call'[d].at \in Chosen => chat_call'[d].session # "none"
  <2>1. chat_call'[d] = chat_call[d] /\ ~Running(d, "idle")
    BY <1>2 DEF ChatTypeOK, Running, Ends, IdleCall
  <2>2. /\ chat_call[d].sender \in Chat
        /\ chat_call[d].session \in ChatSession \cup {"none"}
    BY <2>1, RunningIsRecord
  <2> QED BY <2>1, <2>2, ChatAssumption DEF CallsAreOwned, OpenedGrows
<1> QED BY <1>1, <1>2 DEF CallsAreOwned

(***************************************************************************)
(* The steps.                                                              *)
(***************************************************************************)
LEMMA OnlyCallsMove ==
  ASSUME ChatInv, UNCHANGED <<chat_rows, chat_active, chat_history>>,
         OpenedGrows => CallsAreTyped' /\ CallsAreOwned'
  PROVE  ChatInv'
<1>1. OpenedGrows
  BY DEF OpenedGrows, chat_history
<1>2. CallsAreTyped' /\ CallsAreOwned'
  BY <1>1
<1> QED BY <1>2 DEF ChatInv, ChatTypeOK, OpenedIsCreated, RoutesAreOwned, PointersAreOwned,
                    MessagesStayInTheirChat, CallsAreTyped, chat_rows, chat_history

(* What is said of sessions stands when they are opened.                   *)
LEMMA OpenedKeeps ==
  ASSUME ChatInv, NEW s \in ChatSession, chat_title[s] = <<>>,
         NEW p \in Chat \cup {"none"}, NEW t \in GivenTitle \cup {DefaultTitle},
         chat_title' = [chat_title EXCEPT ![s] = t],
         chat_opened' = [chat_opened EXCEPT ![s] = p],
         UNCHANGED <<chat_route, chat_active, chat_stored>>
  PROVE  /\ OpenedGrows
         /\ OpenedIsCreated' /\ RoutesAreOwned' /\ PointersAreOwned'
         /\ MessagesStayInTheirChat'
<1>1. chat_opened[s] = "none"
  BY DEF ChatInv, OpenedIsCreated
<1>2. OpenedGrows
  BY <1>1 DEF ChatInv, ChatTypeOK, OpenedGrows
<1>3. OpenedIsCreated'
  BY ChatAssumption DEF ChatInv, ChatTypeOK, OpenedIsCreated
<1>4. RoutesAreOwned'
  BY <1>2 DEF ChatInv, ChatTypeOK, OpenedGrows, RoutesAreOwned
<1>5. PointersAreOwned'
  BY <1>2, ChatAssumption DEF ChatInv, ChatTypeOK, OpenedGrows, PointersAreOwned
<1>6. MessagesStayInTheirChat'
  <2> SUFFICES ASSUME NEW m \in chat_stored PROVE chat_opened'[m[2]] = m[1]
    BY DEF MessagesStayInTheirChat
  <2>1. /\ m[1] \in Chat /\ m[2] \in ChatSession
        /\ chat_opened[m[2]] = m[1]
    BY DEF ChatInv, ChatTypeOK, MessagesStayInTheirChat
  <2> QED BY <1>2, <2>1, ChatAssumption DEF OpenedGrows
<1> QED BY <1>2, <1>3, <1>4, <1>5, <1>6

LEMMA CallsKeep ==
  ASSUME ChatInv, NEW c \in Webhook,
         \/ \E p \in Chat, command \in ChatCommand : CallArrives(c, p, command)
         \/ ReadActive(c) \/ CheckActive(c) \/ FindBySender(c) \/ OpenFails(c)
         \/ LookUpPointer(c) \/ Convert(c) \/ ResolveOwned(c) \/ RemoveReadsActive(c)
  PROVE  ChatInv'
<1> USE DEF ChatInv
<1>1. CASE \E p \in Chat, command \in ChatCommand : CallArrives(c, p, command)
  <2>1. PICK p \in Chat, command \in ChatCommand : CallArrives(c, p, command)
    BY <1>1
  <2> DEFINE r == [at |-> CASE command.op = "message" -> "read"
                            [] command.op = "new" -> "open"
                            [] OTHER -> "resolve",
                   sender |-> p, command |-> command, session |-> "none"]
  <2>2. r \in CallRecord /\ r.session = "none" /\ r.at \notin Chosen
    BY DEF CallRecord, Chosen
  <2>3. chat_call' = [chat_call EXCEPT ![c] = r]
    BY <2>1 DEF CallArrives
  <2> HIDE DEF r
  <2>4. UNCHANGED <<chat_rows, chat_active, chat_history>>
    BY <2>1 DEF CallArrives
  <2> QED BY <2>2, <2>3, <2>4, ReplacedCall, OnlyCallsMove
<1>2. CASE ReadActive(c)
  <2>1. ~Running(c, "idle") /\ UNCHANGED <<chat_rows, chat_active, chat_history>>
    BY <1>2 DEF ReadActive, Running
  <2>2. CASE chat_active[chat_call[c].sender] = "none"
    BY <1>2, <2>1, <2>2, GoesKeeps, OnlyCallsMove DEF ReadActive, Places, Chosen
  <2>3. CASE chat_active[chat_call[c].sender] # "none"
    <3> DEFINE s == chat_active[chat_call[c].sender]
    <3>1. s \in ChatSession /\ chat_opened'[s] = chat_call[c].sender
      BY <2>1, <2>3, RunningIsRecord DEF ChatTypeOK, PointersAreOwned, chat_history
    <3>2. GoesWith(c, "check", s)
      BY <1>2, <2>3 DEF ReadActive
    <3> QED BY <2>1, <3>1, <3>2, GoesWithKeeps, OnlyCallsMove DEF Places
  <2> QED BY <2>2, <2>3
<1>3. CASE CheckActive(c)
  <2>1. ~Running(c, "idle") /\ chat_call[c].session # "none"
    BY <1>3 DEF CheckActive, Running, CallsAreOwned, Chosen
  <2>2. UNCHANGED <<chat_rows, chat_active, chat_history>>
    BY <1>3 DEF CheckActive
  <2>3. Goes(c, "convert") \/ Goes(c, "clear")
    BY <1>3 DEF CheckActive
  <2> QED BY <2>1, <2>2, <2>3, GoesKeeps, OnlyCallsMove DEF Places
<1>4. CASE FindBySender(c)
  <2> DEFINE found == {s \in ChatSession : chat_route[s] = chat_call[c].sender}
  <2>1. ~Running(c, "idle") /\ UNCHANGED <<chat_rows, chat_active, chat_history>>
    BY <1>4 DEF FindBySender, Running
  <2>2. CASE Goes(c, "open")
    BY <2>1, <2>2, GoesKeeps, OnlyCallsMove DEF Places, Chosen
  <2>3. CASE \E s \in found : GoesWith(c, "activate", s)
    <3>1. PICK s \in found : GoesWith(c, "activate", s)
      BY <2>3
    <3>2. s \in ChatSession /\ chat_opened'[s] = chat_call[c].sender
      BY <2>1, <3>1, RunningIsRecord, ChatAssumption DEF RoutesAreOwned, chat_history
    <3> QED BY <2>1, <3>1, <3>2, GoesWithKeeps, OnlyCallsMove DEF Places
  <2> QED BY <1>4, <2>2, <2>3 DEF FindBySender
<1>5. CASE OpenFails(c)
  BY <1>5, EndsKeeps, OnlyCallsMove DEF OpenFails
<1>6. CASE LookUpPointer(c)
  <2>1. ~Running(c, "idle") /\ chat_call[c].session # "none"
    BY <1>6 DEF LookUpPointer, Running, CallsAreOwned, Chosen
  <2>2. UNCHANGED <<chat_rows, chat_active, chat_history>>
    BY <1>6 DEF LookUpPointer
  <2>3. Goes(c, "insert") \/ Goes(c, "update")
    BY <1>6 DEF LookUpPointer
  <2> QED BY <2>1, <2>2, <2>3, GoesKeeps, OnlyCallsMove DEF Places
<1>7. CASE Convert(c)
  <2>1. ~Running(c, "idle") /\ chat_call[c].session # "none"
    BY <1>7 DEF Convert, Running, CallsAreOwned, Chosen
  <2>2. UNCHANGED <<chat_rows, chat_active, chat_history>>
    BY <1>7 DEF Convert
  <2> QED BY <1>7, <2>1, <2>2, GoesKeeps, EndsKeeps, OnlyCallsMove DEF Places, Convert
<1>8. CASE ResolveOwned(c)
  <2> DEFINE s == Resolved(chat_call[c].sender, chat_call[c].command.needle)
  <2>1. ~Running(c, "idle") /\ UNCHANGED <<chat_rows, chat_active, chat_history>>
    BY <1>8 DEF ResolveOwned, Running
  <2>2. CASE s = "none"
    BY <1>8, <2>1, <2>2, EndsKeeps, OnlyCallsMove DEF ResolveOwned
  <2>3. CASE s # "none"
    <3>1. s \in ChatSession /\ chat_opened'[s] = chat_call[c].sender
      BY <2>1, <2>3, RunningIsRecord, ResolvedIsRouted, ChatAssumption
         DEF RoutesAreOwned, chat_history
    <3>2. GoesWith(c, "activate", s) \/ GoesWith(c, "rm_read", s)
      BY <1>8, <2>3 DEF ResolveOwned
    <3> QED BY <2>1, <3>1, <3>2, GoesWithKeeps, OnlyCallsMove DEF Places
  <2> QED BY <2>2, <2>3
<1>9. CASE RemoveReadsActive(c)
  <2>1. ~Running(c, "idle") /\ chat_call[c].session # "none"
    BY <1>9 DEF RemoveReadsActive, Running, CallsAreOwned, Chosen
  <2>2. UNCHANGED <<chat_rows, chat_active, chat_history>>
    BY <1>9 DEF RemoveReadsActive
  <2>3. Goes(c, "rm_clear") \/ Goes(c, "rm_delete")
    BY <1>9 DEF RemoveReadsActive
  <2> QED BY <2>1, <2>2, <2>3, GoesKeeps, OnlyCallsMove DEF Places
<1> QED BY <1>1, <1>2, <1>3, <1>4, <1>5, <1>6, <1>7, <1>8, <1>9

LEMMA PointersKeep ==
  ASSUME ChatInv, NEW c \in Webhook, ClearActive(c) \/ WritePointer(c)
  PROVE  ChatInv'
<1> USE DEF ChatInv
<1>1. /\ ~Running(c, "idle")
      /\ UNCHANGED <<chat_rows, chat_history>>
  BY DEF ClearActive, WritePointer, Running
<1>2. OpenedGrows
  BY <1>1 DEF OpenedGrows, chat_history
<1> DEFINE p == chat_call[c].sender
<1>3. p \in Chat
  BY <1>1, RunningIsRecord
<1>4. CASE ClearActive(c)
  <2>1. Goes(c, "find") \/ (Goes(c, "rm_delete") /\ chat_call[c].at = "rm_clear")
    BY <1>4 DEF ClearActive, Running
  <2>2. CallsAreTyped' /\ CallsAreOwned'
    BY <1>1, <1>2, <2>1, GoesKeeps DEF Places, Chosen, CallsAreOwned
  <2>3. PointersAreOwned' /\ chat_active' \in [Chat -> ChatSession \cup {"none"}]
    BY <1>1, <1>3, <1>4 DEF ClearActive, ChatTypeOK, PointersAreOwned, chat_history
  <2> QED BY <1>1, <2>2, <2>3 DEF ChatTypeOK, OpenedIsCreated, RoutesAreOwned,
             MessagesStayInTheirChat, CallsAreTyped, chat_rows, chat_history
<1>5. CASE WritePointer(c)
  <2>1. /\ chat_call[c].session \in ChatSession
        /\ chat_opened[chat_call[c].session] = p
    BY <1>1, <1>5, RunningIsRecord DEF WritePointer, CallsAreOwned, Chosen
  <2>2. Goes(c, "convert") \/ Ends(c)
    BY <1>5 DEF WritePointer
  <2>3. CallsAreTyped' /\ CallsAreOwned'
    BY <1>1, <1>2, <2>1, <2>2, ChatAssumption, GoesKeeps, EndsKeeps DEF Places
  <2>4. \/ chat_active' = chat_active
        \/ chat_active' = [chat_active EXCEPT ![p] = chat_call[c].session]
    BY <1>5 DEF WritePointer
  <2>5. PointersAreOwned' /\ chat_active' \in [Chat -> ChatSession \cup {"none"}]
    BY <1>1, <1>3, <2>1, <2>4 DEF ChatTypeOK, PointersAreOwned, chat_history
  <2> QED BY <1>1, <2>3, <2>5 DEF ChatTypeOK, OpenedIsCreated, RoutesAreOwned,
             MessagesStayInTheirChat, CallsAreTyped, chat_rows, chat_history
<1> QED BY <1>4, <1>5

LEMMA RowsKeep ==
  ASSUME ChatInv, NEW c \in Webhook,
         OpenSession(c) \/ BindRoute(c) \/ Submit(c) \/ RemoveDeletes(c)
  PROVE  ChatInv'
<1> USE DEF ChatInv
<1> DEFINE p == chat_call[c].sender
<1>1. /\ ~Running(c, "idle") /\ p \in Chat
      /\ chat_call[c].command \in ChatCommand
  <2>1. ~Running(c, "idle")
    BY DEF OpenSession, BindRoute, Submit, RemoveDeletes, Running
  <2> QED BY <2>1, RunningIsRecord
<1>2. CASE OpenSession(c)
  <2> DEFINE t == IF chat_call[c].command.op = "new"
                  THEN chat_call[c].command.title ELSE DefaultTitle
  <2>1. PICK s \in ChatSession :
          /\ chat_title[s] = <<>>
          /\ chat_title' = [chat_title EXCEPT ![s] = t]
          /\ chat_live' = chat_live \cup {s}
          /\ chat_opened' = [chat_opened EXCEPT ![s] = p]
          /\ GoesWith(c, "bind", s)
    BY <1>2 DEF OpenSession
  <2>2. t \in GivenTitle \cup {DefaultTitle}
    BY <1>1 DEF ChatCommand
  <2>3. UNCHANGED <<chat_route, chat_parent, chat_active, chat_stored>>
    BY <1>2 DEF OpenSession
  <2> HIDE DEF t
  <2>4. /\ OpenedGrows
        /\ OpenedIsCreated' /\ RoutesAreOwned' /\ PointersAreOwned'
        /\ MessagesStayInTheirChat'
    BY <1>1, <2>1, <2>2, <2>3, OpenedKeeps
  <2>5. chat_opened'[s] = p
    BY <2>1 DEF ChatTypeOK
  <2>6. CallsAreTyped' /\ CallsAreOwned'
    BY <1>1, <2>1, <2>4, <2>5, GoesWithKeeps DEF Places
  <2>7. ChatTypeOK'
    BY <1>1, <2>1, <2>2, <2>3, <2>6 DEF ChatTypeOK, CallsAreTyped
  <2> QED BY <2>4, <2>6, <2>7
<1>3. CASE BindRoute(c)
  <2>1. /\ chat_call[c].session \in ChatSession
        /\ chat_opened[chat_call[c].session] = p
    BY <1>1, <1>3, RunningIsRecord DEF BindRoute, CallsAreOwned, Chosen
  <2>2. /\ chat_route' = [chat_route EXCEPT ![chat_call[c].session] = p]
        /\ UNCHANGED <<chat_title, chat_live, chat_parent, chat_active, chat_history>>
        /\ Goes(c, "activate") \/ Ends(c)
    BY <1>3 DEF BindRoute
  <2>3. OpenedGrows
    BY <2>2 DEF OpenedGrows, chat_history
  <2>4. CallsAreTyped' /\ CallsAreOwned'
    BY <1>1, <2>1, <2>2, <2>3, ChatAssumption, GoesKeeps, EndsKeeps DEF Places
  <2>5. RoutesAreOwned' /\ chat_route' \in [ChatSession -> Chat \cup {"none"}]
    BY <1>1, <2>1, <2>2 DEF ChatTypeOK, RoutesAreOwned, chat_history
  <2> QED BY <2>2, <2>4, <2>5 DEF ChatTypeOK, OpenedIsCreated, PointersAreOwned,
             MessagesStayInTheirChat, CallsAreTyped, chat_history
<1>4. CASE Submit(c)
  <2>1. /\ chat_call[c].session \in ChatSession
        /\ chat_opened[chat_call[c].session] = p
    BY <1>1, <1>4, RunningIsRecord DEF Submit, CallsAreOwned, Chosen, Running
  <2>2. /\ UNCHANGED <<chat_rows, chat_active, chat_opened>>
        /\ Goes(c, "rebind") \/ Ends(c)
        /\ \/ chat_stored' = chat_stored
           \/ chat_stored' = chat_stored \cup {<<p, chat_call[c].session>>}
    BY <1>4 DEF Submit
  <2>3. OpenedGrows
    BY <2>2 DEF OpenedGrows
  <2>4. CallsAreTyped' /\ CallsAreOwned'
    BY <1>1, <2>1, <2>2, <2>3, ChatAssumption, GoesKeeps, EndsKeeps DEF Places
  <2>5. MessagesStayInTheirChat' /\ chat_stored' \subseteq Chat \X ChatSession
    BY <1>1, <2>1, <2>2 DEF ChatTypeOK, MessagesStayInTheirChat
  <2> QED BY <2>2, <2>4, <2>5 DEF ChatTypeOK, OpenedIsCreated, RoutesAreOwned,
             PointersAreOwned, CallsAreTyped, chat_rows
<1>5. CASE RemoveDeletes(c)
  <2>1. /\ UNCHANGED <<chat_title, chat_route, chat_parent, chat_active, chat_history>>
        /\ chat_live' \subseteq chat_live
        /\ Ends(c)
    BY <1>5 DEF RemoveDeletes
  <2>2. OpenedGrows
    BY <2>1 DEF OpenedGrows, chat_history
  <2>3. CallsAreTyped' /\ CallsAreOwned'
    BY <2>1, <2>2, EndsKeeps
  <2> QED BY <2>1, <2>3 DEF ChatTypeOK, OpenedIsCreated, RoutesAreOwned, PointersAreOwned,
             MessagesStayInTheirChat, CallsAreTyped, chat_history
<1> QED BY <1>2, <1>3, <1>4, <1>5

LEMMA SubSessionsKeep ==
  ASSUME ChatInv, NEW s \in ChatSession, OpenSubSession(s)
  PROVE  ChatInv'
<1> USE DEF ChatInv
<1>1. PICK sub \in ChatSession :
        /\ chat_title[sub] = <<>>
        /\ chat_title' = [chat_title EXCEPT ![sub] = DefaultTitle]
        /\ chat_live' = chat_live \cup {sub}
        /\ chat_parent' = [chat_parent EXCEPT ![sub] = s]
        /\ chat_opened' = [chat_opened EXCEPT ![sub] = chat_opened[s]]
  BY DEF OpenSubSession
<1>2. UNCHANGED <<chat_route, chat_active, chat_call, chat_stored>>
  BY DEF OpenSubSession
<1>3. chat_opened[s] \in Chat \cup {"none"}
  BY DEF ChatTypeOK
<1>4. /\ OpenedGrows
      /\ OpenedIsCreated' /\ RoutesAreOwned' /\ PointersAreOwned'
      /\ MessagesStayInTheirChat'
  BY <1>1, <1>2, <1>3, OpenedKeeps
<1>5. CallsAreOwned'
  <2> SUFFICES ASSUME NEW c \in Webhook, ~Running(c, "idle")
               PROVE  /\ chat_call[c].session # "none" =>
                            chat_opened'[chat_call[c].session] = chat_call[c].sender
                      /\ chat_call[c].at \in Chosen => chat_call[c].session # "none"
    BY <1>2 DEF CallsAreOwned, Running
  <2>1. /\ chat_call[c].sender \in Chat
        /\ chat_call[c].session \in ChatSession \cup {"none"}
    BY RunningIsRecord
  <2> QED BY <1>4, <2>1, ChatAssumption DEF CallsAreOwned, OpenedGrows
<1>6. ChatTypeOK'
  BY <1>1, <1>2, <1>3 DEF ChatTypeOK
<1> QED BY <1>4, <1>5, <1>6

LEMMA ChatInvStep == ChatInv /\ [ChatNext]_chat_vars => ChatInv'
<1> SUFFICES ASSUME ChatInv, [ChatNext]_chat_vars PROVE ChatInv'
  OBVIOUS
<1>1. CASE \E c \in Webhook : CallStep(c)
  BY <1>1, CallsKeep, PointersKeep, RowsKeep DEF CallStep
<1>2. CASE \E c \in Webhook, p \in Chat, command \in ChatCommand : CallArrives(c, p, command)
  BY <1>2, CallsKeep
<1>3. CASE \E s \in ChatSession : OpenSubSession(s)
  BY <1>3, SubSessionsKeep
<1>4. CASE UNCHANGED chat_vars
  BY <1>4 DEF chat_vars, chat_rows, chat_history, ChatInv, ChatTypeOK, OpenedIsCreated,
              RoutesAreOwned, PointersAreOwned, CallsAreOwned, MessagesStayInTheirChat, Running
<1> QED BY <1>1, <1>2, <1>3, <1>4 DEF ChatNext

(* A message is only stored in a session that was opened for its sender,   *)
(* however the calls of all chats interleave.                              *)
THEOREM ChatsArePrivate == ChatSpec => []MessagesStayInTheirChat
<1>1. ChatInv => MessagesStayInTheirChat
  BY DEF ChatInv
<1> QED BY <1>1, ChatInvInit, ChatInvStep, PTL DEF ChatSpec

(* A route, once bound, is that of the chat the session was opened for,    *)
(* so an answer that takes it gets to that chat.                           *)
THEOREM RoutesNeverMove == ChatSpec => []RoutesAreOwned
<1>1. ChatInv => RoutesAreOwned
  BY DEF ChatInv
<1> QED BY <1>1, ChatInvInit, ChatInvStep, PTL DEF ChatSpec

(* A session is only removed by an rm of the chat it was opened for.       *)
THEOREM OwnersRemove == ChatSpec => OnlyOwnersRemove
<1> DEFINE Removed == \A s \in chat_live : s \notin chat_live' =>
          \E c \in Webhook : /\ chat_call[c].at = "rm_delete"
                             /\ chat_call[c].session = s
                             /\ chat_call[c].sender = chat_opened[s]
<1>1. ChatInv /\ [ChatNext]_chat_vars => [Removed]_chat_vars
  <2> SUFFICES ASSUME ChatInv, ChatNext, NEW s \in chat_live, s \notin chat_live'
               PROVE  \E c \in Webhook : /\ chat_call[c].at = "rm_delete"
                                         /\ chat_call[c].session = s
                                         /\ chat_call[c].sender = chat_opened[s]
    OBVIOUS
  <2>1. PICK c \in Webhook : RemoveDeletes(c)
    BY DEF ChatNext, CallStep, CallArrives, OpenSubSession, ReadActive, CheckActive,
           ClearActive, FindBySender, OpenSession, OpenFails, BindRoute, LookUpPointer,
           WritePointer, Convert, Submit, ResolveOwned, RemoveReadsActive, chat_rows
  <2>2. /\ chat_call[c].at = "rm_delete" /\ chat_call[c].session = s
    BY <2>1 DEF RemoveDeletes, Running
  <2>3. /\ ~Running(c, "idle") /\ s # "none"
    BY <2>2, ChatAssumption DEF Running, ChatInv, ChatTypeOK
  <2> QED BY <2>2, <2>3 DEF ChatInv, CallsAreOwned
<1> QED BY <1>1, ChatInvInit, ChatInvStep, PTL DEF ChatSpec, OnlyOwnersRemove

(***************************************************************************)
(* Answers.  A sub-session is created once, for the chat of its parent.    *)
(***************************************************************************)
LineageIsOwned ==
    /\ \A s \in chat_live : chat_title[s] # <<>>
    /\ \A s \in ChatSession : chat_parent[s] # "none" =>
          /\ chat_title[s] # <<>> /\ chat_title[chat_parent[s]] # <<>>
          /\ chat_opened[s] = chat_opened[chat_parent[s]]

(* A session that is created has no title yet, no row and no relatives.    *)
LEMMA NewSessionKeepsLineage ==
  ASSUME ChatInv, LineageIsOwned, NEW s \in ChatSession, chat_title[s] = <<>>,
         NEW t \in GivenTitle \cup {DefaultTitle},
         chat_title' = [chat_title EXCEPT ![s] = t],
         chat_live' = chat_live \cup {s},
         NEW p, chat_opened' = [chat_opened EXCEPT ![s] = p],
         \/ chat_parent' = chat_parent
         \/ \E r \in chat_live : /\ chat_parent' = [chat_parent EXCEPT ![s] = r]
                                 /\ p = chat_opened[r]
  PROVE  LineageIsOwned'
<1> USE DEF ChatInv, ChatTypeOK
<1>1. t # <<>>
  BY ChatAssumption
<1>2. /\ chat_title'[s] = t /\ chat_opened'[s] = p
      /\ \A r \in ChatSession : r # s => /\ chat_title'[r] = chat_title[r]
                                        /\ chat_opened'[r] = chat_opened[r]
  OBVIOUS
<1>3. \A r \in chat_live' : chat_title'[r] # <<>>
  BY <1>1, <1>2 DEF LineageIsOwned
<1>4. ASSUME NEW r \in ChatSession, chat_parent'[r] # "none"
      PROVE  /\ chat_title'[r] # <<>> /\ chat_title'[chat_parent'[r]] # <<>>
             /\ chat_opened'[r] = chat_opened'[chat_parent'[r]]
  <2>1. CASE r # s \/ chat_parent' = chat_parent
    <3>1. chat_parent'[r] = chat_parent[r]
      BY <2>1
    <3>2. /\ chat_title[r] # <<>> /\ chat_title[chat_parent[r]] # <<>>
          /\ chat_opened[r] = chat_opened[chat_parent[r]]
          /\ chat_parent[r] \in ChatSession
      BY <1>4, <3>1 DEF LineageIsOwned
    <3>3. r # s /\ chat_parent[r] # s
      BY <3>2
    <3> QED BY <1>2, <3>1, <3>2, <3>3
  <2>2. CASE r = s /\ chat_parent' # chat_parent
    <3>1. PICK a \in chat_live : /\ chat_parent' = [chat_parent EXCEPT ![s] = a]
                                 /\ p = chat_opened[a]
      BY <2>2
    <3>2. a \in ChatSession /\ a # s /\ chat_title[a] # <<>> /\ chat_parent'[r] = a
      BY <2>2, <3>1 DEF LineageIsOwned
    <3> QED BY <1>1, <1>2, <2>2, <3>1, <3>2
  <2> QED BY <2>1, <2>2
<1> QED BY <1>3, <1>4 DEF LineageIsOwned

LEMMA LineageStep ==
  ChatInv /\ LineageIsOwned /\ [ChatNext]_chat_vars => LineageIsOwned'
<1> SUFFICES ASSUME ChatInv, LineageIsOwned, [ChatNext]_chat_vars PROVE LineageIsOwned'
  OBVIOUS
<1>1. CASE \E c \in Webhook : OpenSession(c)
  <2>1. PICK c \in Webhook : OpenSession(c)
    BY <1>1
  <2> DEFINE t == IF chat_call[c].command.op = "new"
                  THEN chat_call[c].command.title ELSE DefaultTitle
  <2>2. chat_call[c].command \in ChatCommand
    BY <2>1, RunningIsRecord DEF ChatInv, OpenSession, Running
  <2>3. t \in GivenTitle \cup {DefaultTitle}
    BY <2>2 DEF ChatCommand
  <2>4. PICK s \in ChatSession :
          /\ chat_title[s] = <<>>
          /\ chat_title' = [chat_title EXCEPT ![s] = t]
          /\ chat_live' = chat_live \cup {s}
          /\ chat_opened' = [chat_opened EXCEPT ![s] = chat_call[c].sender]
    BY <2>1 DEF OpenSession
  <2>5. chat_parent' = chat_parent
    BY <2>1 DEF OpenSession
  <2> HIDE DEF t
  <2> QED BY <2>3, <2>4, <2>5, NewSessionKeepsLineage
<1>2. CASE \E s \in ChatSession : OpenSubSession(s)
  <2>1. PICK s \in ChatSession : OpenSubSession(s)
    BY <1>2
  <2>2. PICK sub \in ChatSession :
          /\ chat_title[sub] = <<>>
          /\ chat_title' = [chat_title EXCEPT ![sub] = DefaultTitle]
          /\ chat_live' = chat_live \cup {sub}
          /\ chat_parent' = [chat_parent EXCEPT ![sub] = s]
          /\ chat_opened' = [chat_opened EXCEPT ![sub] = chat_opened[s]]
    BY <2>1 DEF OpenSubSession
  <2>3. s \in chat_live /\ DefaultTitle \in GivenTitle \cup {DefaultTitle}
    BY <2>1 DEF OpenSubSession
  <2> QED BY <2>2, <2>3, NewSessionKeepsLineage
<1>3. CASE /\ UNCHANGED <<chat_title, chat_parent, chat_opened>>
           /\ chat_live' \subseteq chat_live
  BY <1>3 DEF LineageIsOwned
<1>4. CASE \E c \in Webhook : CallStep(c) /\ ~OpenSession(c)
  BY <1>3, <1>4 DEF CallStep, ReadActive, CheckActive,
     ClearActive, FindBySender, OpenFails, BindRoute, LookUpPointer,
     WritePointer, Convert, Submit, ResolveOwned, RemoveReadsActive, RemoveDeletes,
     chat_rows, chat_history
<1>5. CASE \E c \in Webhook, p \in Chat, command \in ChatCommand : CallArrives(c, p, command)
  BY <1>3, <1>5 DEF CallArrives, chat_rows, chat_history
<1>6. CASE UNCHANGED chat_vars
  BY <1>3, <1>6 DEF chat_vars, chat_rows, chat_history
<1> QED BY <1>1, <1>2, <1>4, <1>5, <1>6 DEF ChatNext

(* The receivers by the number of ancestors looked at: the recursive       *)
(* function exists, so it satisfies its equation.                          *)
LEMMA ReceiverUnfolds ==
  /\ Cardinality(ChatSession) \in Nat
  /\ \A n \in 0..Cardinality(ChatSession) : \A s \in ChatSession :
        Receiver[n][s] = IF chat_route[s] # "none" \/ chat_parent[s] = "none" \/ n = 0
                         THEN chat_route[s] ELSE Receiver[n - 1][chat_parent[s]]
<1>0. PICK N \in Nat : N = Cardinality(ChatSession)
  BY ChatAssumption, FS_CardinalityType
<1> DEFINE Own(s, n) == chat_route[s] # "none" \/ chat_parent[s] = "none" \/ n = 0
           Row(g, n) == [s \in ChatSession |-> IF Own(s, n) THEN chat_route[s]
                                               ELSE g[n - 1][chat_parent[s]]]
           Is(g, n) == g = [i \in 0..n |-> Row(g, i)]
           T == {n \in 0..N : \E g : Is(g, n)}
<1>1. 0 \in T
  <2> DEFINE g == [i \in 0..0 |-> [s \in ChatSession |-> chat_route[s]]]
  <2>1. \A i \in 0..0 : g[i] = Row(g, i)
    OBVIOUS
  <2>2. Is(g, 0)
    <3> HIDE DEF Row
    <3> QED BY <2>1
  <2>3. \E g1 : Is(g1, 0)
    <3> HIDE DEF g, Is
    <3> QED BY <2>2
  <2> QED BY <2>3
<1>2. ASSUME NEW n \in 0..N, n \in T, n < N PROVE n + 1 \in T
  <2>1. PICK g : Is(g, n)
    BY <1>2
  <2> DEFINE h == [i \in 0..(n + 1) |-> IF i = n + 1 THEN Row(g, n + 1) ELSE g[i]]
  <2>2. ASSUME NEW i \in 0..(n + 1) PROVE h[i] = Row(h, i)
    <3>1. CASE i = n + 1
      <4>1. h[i - 1] = g[i - 1] /\ h[i] = Row(g, i)
        BY <3>1
      <4>2. Row(h, i) = Row(g, i)
        <5> HIDE DEF h
        <5> QED BY <4>1
      <4> QED BY <4>1, <4>2
    <3>2. CASE i \in 1..n
      <4>1. h[i] = g[i] /\ h[i - 1] = g[i - 1]
        BY <3>2
      <4>2. g[i] = Row(g, i)
        <5> HIDE DEF Row
        <5> QED BY <2>1, <3>2
      <4>3. Row(h, i) = Row(g, i)
        <5> HIDE DEF h
        <5> QED BY <4>1
      <4> QED BY <4>1, <4>2, <4>3
    <3>3. CASE i = 0
      <4>1. h[0] = g[0]
        OBVIOUS
      <4>2. g[0] = Row(g, 0)
        <5> HIDE DEF Row
        <5> QED BY <2>1
      <4>3. Row(h, 0) = Row(g, 0)
        <5> HIDE DEF h
        <5> QED OBVIOUS
      <4> QED BY <3>3, <4>1, <4>2, <4>3
    <3> QED BY <3>1, <3>2, <3>3
  <2>3. Is(h, n + 1)
    <3> HIDE DEF Row
    <3> QED BY <2>2
  <2>4. \E g1 : Is(g1, n + 1)
    <3> HIDE DEF h, Is
    <3> QED BY <2>3
  <2>5. n + 1 \in 0..N
    BY <1>2
  <2> HIDE DEF Is
  <2> QED BY <2>4, <2>5
<1>3. N \in T
  <2>1. \A i \in 0..N : i \in T /\ i < N => i + 1 \in T
    BY <1>2
  <2> HIDE DEF T
  <2>2. 0..N \subseteq T
    BY <1>1, <2>1, UpTo
  <2> QED BY <2>2
<1>4. Is(Receiver, N)
  BY <1>0, <1>3 DEF Receiver
<1>5. \A n \in 0..N : Receiver[n] = Row(Receiver, n)
  <2> HIDE DEF Row
  <2> QED BY <1>4
<1>6. ASSUME NEW n \in 0..N, NEW s \in ChatSession
      PROVE  Receiver[n][s] = IF chat_route[s] # "none" \/ chat_parent[s] = "none" \/ n = 0
                              THEN chat_route[s] ELSE Receiver[n - 1][chat_parent[s]]
  <2>1. Receiver[n] = Row(Receiver, n)
    BY <1>5
  <2>2. Row(Receiver, n)[s] = IF Own(s, n) THEN chat_route[s]
                              ELSE Receiver[n - 1][chat_parent[s]]
    OBVIOUS
  <2> HIDE DEF Row
  <2> QED BY <2>1, <2>2
<1> QED BY <1>0, <1>6

(* However many ancestors are looked at, the route found is one of the     *)
(* chat the session was opened for.                                        *)
LEMMA ReceiversAreOwned ==
  ASSUME ChatTypeOK, RoutesAreOwned, LineageIsOwned
  PROVE  AnswersReachTheirChat
<1>0. PICK N \in Nat : N = Cardinality(ChatSession)
  BY ReceiverUnfolds
<1> DEFINE T == {n \in 0..N :
                   \A s \in ChatSession : Receiver[n][s] \in {"none", chat_opened[s]}}
<1>1. 0 \in T
  BY <1>0, ReceiverUnfolds DEF RoutesAreOwned
<1>2. ASSUME NEW n \in 0..N, n \in T, n < N PROVE n + 1 \in T
  <2> SUFFICES ASSUME NEW s \in ChatSession
               PROVE  Receiver[n + 1][s] \in {"none", chat_opened[s]}
    BY <1>2
  <2>1. Receiver[n + 1][s] = IF chat_route[s] # "none" \/ chat_parent[s] = "none"
                             THEN chat_route[s] ELSE Receiver[n][chat_parent[s]]
    BY <1>0, <1>2, ReceiverUnfolds
  <2>2. CASE chat_route[s] # "none" \/ chat_parent[s] = "none"
    BY <2>1, <2>2 DEF RoutesAreOwned
  <2>3. CASE chat_route[s] = "none" /\ chat_parent[s] # "none"
    <3>1. chat_parent[s] \in ChatSession /\ chat_opened[s] = chat_opened[chat_parent[s]]
      BY <2>3 DEF ChatTypeOK, LineageIsOwned
    <3> QED BY <1>2, <2>1, <2>3, <3>1
  <2> QED BY <2>2, <2>3
<1> HIDE DEF T
<1>3. 0..N \subseteq T
  BY <1>1, <1>2, UpTo
<1>4. N \in T
  BY <1>3
<1> QED BY <1>0, <1>4 DEF T, AnswersReachTheirChat, ReceiverOf

(* An answer, also of a sub-session of any depth, goes to the chat the     *)
(* session was opened for or nowhere (GatewaySessionRouteRepository        *)
(* .resolve).                                                              *)
THEOREM AnswersGoHome == ChatSpec => []AnswersReachTheirChat
<1>1. ChatInit => LineageIsOwned
  BY DEF ChatInit, LineageIsOwned
<1>2. ChatInv /\ LineageIsOwned => AnswersReachTheirChat
  BY ReceiversAreOwned DEF ChatInv
<1> QED BY <1>1, <1>2, ChatInvInit, ChatInvStep, LineageStep, PTL DEF ChatSpec

(***************************************************************************)
(* WebClients.  With the types, WebInv is inductive: what is said of a     *)
(* push that is being sent and of one that looks for the browsers of the   *)
(* parent is what its end needs.                                           *)
(***************************************************************************)

(* A socket that has not registered is not bound, and nobody watches with it. *)
NewSocketsAreUnknown ==
    \A k \in Socket : web_socket[k] = "new" =>
        /\ \A s \in Channel : k \notin web_bound[s]
        /\ \A m \in Push : web_push[m].at \notin {"new", "dropped"}
                              => k \notin web_push[m].watchers

(* Who watched the parent when a push found nobody bound is still bound to *)
(* it when the push falls back; from then on it is a target until it has   *)
(* the push.                                                               *)
WatchersAreServed ==
    \A m \in Push : \A k \in Socket :
        /\ web_push[m].at = "orphan" /\ k \in web_push[m].watchers /\ Alive(k)
              => k \in ParentSockets(web_push[m].session)
        /\ web_push[m].at = "sending" /\ k \in web_push[m].watchers /\ Alive(k)
              => k \in web_push[m].targets \/ m \in web_got[k]

WebInv == WebTypeOK /\ NewSocketsAreUnknown /\ WatchersAreServed /\ BoundClientsMissNothing

LEMMA WebInvInit == WebInit => WebInv
<1> SUFFICES ASSUME WebInit PROVE WebInv
  OBVIOUS
<1> USE DEF WebInit
<1>1. WebTypeOK
  BY DEF WebTypeOK, PushRecord
<1>2. NewSocketsAreUnknown
  BY DEF NewSocketsAreUnknown
<1>3. WatchersAreServed
  BY DEF WatchersAreServed, Alive
<1>4. BoundClientsMissNothing
  BY DEF BoundClientsMissNothing
<1> QED BY <1>1, <1>2, <1>3, <1>4 DEF WebInv

(* A push that was begun has a session, targets and watchers.              *)
LEMMA BegunPush ==
    ASSUME WebTypeOK, NEW m \in Push, web_push[m].at \in {"orphan", "sending", "failed"}
    PROVE  /\ web_push[m] \in [at : {"orphan", "sending", "failed"}, session : Channel,
                               targets : SUBSET Socket, watchers : SUBSET Socket]
           /\ web_push[m].session \in Channel
           /\ web_push[m].targets \subseteq Socket
           /\ web_push[m].watchers \subseteq Socket
<1> DEFINE R == [at : {"orphan", "sending", "failed"}, session : Channel,
                 targets : SUBSET Socket, watchers : SUBSET Socket]
<1>1. web_push[m] \in [at : {"new", "dropped"}] \cup R
  BY DEF WebTypeOK, PushRecord
<1>2. web_push[m] \notin [at : {"new", "dropped"}]
  OBVIOUS
<1>3. web_push[m] \in R
  BY <1>1, <1>2
<1> QED BY <1>3

(* The sockets of the parent are sockets.                                  *)
LEMMA ParentSocketsType ==
    ASSUME WebTypeOK, NEW s \in Channel
    PROVE  ParentSockets(s) \in SUBSET Socket
  BY DEF WebTypeOK, ParentSockets, Channel

(* What a sequence of pushes holds.                                        *)
LEMMA PushesOfTail ==
    \A q \in Seq(Push) : q # <<>> =>
        /\ Head(q) \in Push /\ Tail(q) \in Seq(Push)
        /\ ToSet(q) = {Head(q)} \cup ToSet(Tail(q))
<1> SUFFICES ASSUME NEW q \in Seq(Push), q # <<>>
             PROVE  /\ Head(q) \in Push /\ Tail(q) \in Seq(Push)
                    /\ ToSet(q) = {Head(q)} \cup ToSet(Tail(q))
  OBVIOUS
<1>1. /\ Len(q) \in Nat /\ Len(q) >= 1 /\ DOMAIN q = 1..Len(q)
      /\ Head(q) = q[1] /\ q[1] \in Push
  OBVIOUS
<1>2. /\ Tail(q) \in Seq(Push) /\ Len(Tail(q)) = Len(q) - 1
      /\ \A i \in 1..Len(q) - 1 : Tail(q)[i] = q[i + 1]
      /\ DOMAIN Tail(q) = 1..Len(q) - 1
  OBVIOUS
<1>3. ASSUME NEW x \in ToSet(q) PROVE x \in {Head(q)} \cup ToSet(Tail(q))
  <2>1. PICK i \in 1..Len(q) : x = q[i]
    BY <1>1, <1>3 DEF ToSet
  <2>2. CASE i = 1
    BY <1>1, <2>1, <2>2
  <2>3. CASE i # 1
    <3>1. i - 1 \in 1..Len(q) - 1 /\ Tail(q)[i - 1] = x
      BY <1>1, <1>2, <2>1, <2>3
    <3> QED BY <1>2, <3>1 DEF ToSet
  <2> QED BY <2>2, <2>3
<1>4. ASSUME NEW x \in {Head(q)} \cup ToSet(Tail(q)) PROVE x \in ToSet(q)
  <2>1. CASE x = Head(q)
    BY <1>1, <2>1 DEF ToSet
  <2>2. CASE x \in ToSet(Tail(q))
    <3>1. PICK i \in 1..Len(q) - 1 : x = Tail(q)[i]
      BY <1>2, <2>2 DEF ToSet
    <3>2. i + 1 \in 1..Len(q) /\ q[i + 1] = x
      BY <1>1, <1>2, <3>1
    <3> QED BY <1>1, <3>2 DEF ToSet
  <2> QED BY <1>4, <2>1, <2>2
<1> QED BY <1>1, <1>2, <1>3, <1>4

LEMMA PushesOfAppended ==
    ASSUME WebTypeOK, NEW s \in Channel, NEW m \in Push
    PROVE  /\ Appended(s, m) \in Seq(Push)
           /\ ToSet(Appended(s, m)) \subseteq ToSet(web_backlog[s]) \cup {m}
<1> DEFINE old == web_backlog[s]
           q == Append(old, m)
<1>1. old \in Seq(Push)
  BY DEF WebTypeOK
<1>2. q \in Seq(Push) /\ Len(q) = Len(old) + 1 /\ q # <<>>
  BY <1>1
<1>3. ToSet(q) \subseteq ToSet(old) \cup {m}
  <2> SUFFICES ASSUME NEW x \in ToSet(q) PROVE x \in ToSet(old) \cup {m}
    OBVIOUS
  <2>1. PICK i \in 1..Len(old) + 1 : x = q[i]
    BY <1>1, <1>2 DEF ToSet
  <2>2. CASE i = Len(old) + 1
    BY <1>1, <2>1, <2>2
  <2>3. CASE i # Len(old) + 1
    <3>1. i \in 1..Len(old) /\ x = old[i]
      BY <1>1, <2>1, <2>3
    <3> QED BY <1>1, <3>1 DEF ToSet
  <2> QED BY <2>2, <2>3
<1>4. Appended(s, m) = IF Len(q) > BacklogSize THEN Tail(q) ELSE q
  BY DEF Appended
<1> HIDE DEF q, old
<1>5. Tail(q) \in Seq(Push) /\ ToSet(Tail(q)) \subseteq ToSet(q)
  BY <1>2, PushesOfTail
<1> QED BY <1>2, <1>3, <1>4, <1>5 DEF old

(* The rest of the state in a step of a socket: pushes stay as they are.   *)
LEMMA RegisterKeeps == ASSUME WebInv, NEW k \in Socket, RegisterClient(k) PROVE WebInv'
<1> USE DEF RegisterClient
<1>0. Broadcast \in Channel
  BY DEF Channel
<1>1. WebTypeOK'
  BY <1>0 DEF WebInv, WebTypeOK
<1>2. NewSocketsAreUnknown'
  BY <1>0 DEF WebInv, WebTypeOK, NewSocketsAreUnknown
<1>3. WatchersAreServed'
  <2> SUFFICES ASSUME NEW m \in Push, NEW j \in Socket, Alive(j)',
                      web_push[m].at \in {"orphan", "sending"}, j \in web_push[m].watchers
               PROVE  /\ web_push[m].at = "orphan" => j \in ParentSockets(web_push[m].session)'
                      /\ web_push[m].at = "sending" =>
                            j \in web_push[m].targets \/ m \in web_got[j]
    BY DEF WatchersAreServed
  <2>1. j # k
    BY DEF WebInv, NewSocketsAreUnknown
  <2>2. Alive(j)
    BY <2>1 DEF WebInv, WebTypeOK, Alive
  <2>3. ParentSockets(web_push[m].session) \subseteq ParentSockets(web_push[m].session)'
    BY <1>0, BegunPush DEF WebInv, WebTypeOK, ParentSockets, Channel
  <2> QED BY <2>2, <2>3 DEF WebInv, WatchersAreServed
<1>4. BoundClientsMissNothing'
  <2> SUFFICES ASSUME NEW s \in Channel, NEW j \in web_bound'[s], Alive(j)',
                      NEW m \in ToSet(web_backlog[s])
               PROVE  m \in web_got[j] \/ OnItsWay(m, j)'
    BY DEF BoundClientsMissNothing
  <2>1. CASE j # k
    <3>1. j \in web_bound[s] /\ Alive(j)
      BY <2>1 DEF WebInv, WebTypeOK, Alive
    <3> QED BY <2>1, <3>1 DEF WebInv, WebTypeOK, BoundClientsMissNothing, OnItsWay
  <2>2. CASE j = k
    <3>1. s = Broadcast
      BY <2>2 DEF WebInv, WebTypeOK, NewSocketsAreUnknown
    <3> QED BY <2>2, <3>1 DEF WebInv, WebTypeOK, OnItsWay
  <2> QED BY <2>1, <2>2
<1> QED BY <1>1, <1>2, <1>3, <1>4 DEF WebInv

LEMMA BindKeeps ==
    ASSUME WebInv, NEW k \in Socket, NEW t \in WebSession, BindSession(k, t) PROVE WebInv'
<1> USE DEF BindSession
<1>0. t \in Channel
  BY DEF Channel
<1>1. WebTypeOK'
  BY <1>0 DEF WebInv, WebTypeOK
<1>2. NewSocketsAreUnknown'
  BY <1>0 DEF WebInv, WebTypeOK, NewSocketsAreUnknown
<1>3. WatchersAreServed'
  <2> SUFFICES ASSUME NEW m \in Push, NEW j \in Socket, Alive(j),
                      web_push[m].at \in {"orphan", "sending"}, j \in web_push[m].watchers
               PROVE  /\ web_push[m].at = "orphan" => j \in ParentSockets(web_push[m].session)'
                      /\ web_push[m].at = "sending" =>
                            j \in web_push[m].targets \/ m \in web_got[j]
    BY DEF WatchersAreServed, Alive
  <2>3. ParentSockets(web_push[m].session) \subseteq ParentSockets(web_push[m].session)'
    BY <1>0, BegunPush DEF WebInv, WebTypeOK, ParentSockets, Channel
  <2> QED BY <2>3 DEF WebInv, WatchersAreServed
<1>4. BoundClientsMissNothing'
  <2> SUFFICES ASSUME NEW s \in Channel, NEW j \in web_bound'[s], Alive(j),
                      NEW m \in ToSet(web_backlog[s])
               PROVE  m \in web_got[j] \/ OnItsWay(m, j)'
    BY DEF BoundClientsMissNothing, Alive
  <2>0. k # j => web_replay'[j] = web_replay[j]
    BY DEF WebInv, WebTypeOK
  <2>1. CASE j \in web_bound[s]
    <3>1. m \in web_got[j] \/ OnItsWay(m, j)
      BY <2>1 DEF WebInv, BoundClientsMissNothing
    <3>2. k = j => m \notin ToSet(web_replay[j])
      BY DEF ToSet
    <3> QED BY <2>0, <3>1, <3>2 DEF OnItsWay
  <2>2. CASE j \notin web_bound[s]
    <3>1. j = k /\ s = t
      BY <2>2 DEF WebInv, WebTypeOK
    <3> QED BY <3>1 DEF WebInv, WebTypeOK, OnItsWay
  <2> QED BY <2>1, <2>2
<1> QED BY <1>1, <1>2, <1>3, <1>4 DEF WebInv

LEMMA ReplayKeeps == ASSUME WebInv, NEW k \in Socket, ReplayOne(k) PROVE WebInv'
<1> USE DEF ReplayOne
<1>0. /\ Head(web_replay[k]) \in Push /\ Tail(web_replay[k]) \in Seq(Push)
      /\ ToSet(web_replay[k]) = {Head(web_replay[k])} \cup ToSet(Tail(web_replay[k]))
  BY PushesOfTail DEF WebInv, WebTypeOK
<1>a. \A j \in Socket : Alive(j)' => Alive(j)
  BY DEF WebInv, WebTypeOK, Alive
<1>b. \A j \in Socket : web_got[j] \subseteq web_got'[j]
  BY DEF WebInv, WebTypeOK
<1>1. WebTypeOK'
  BY <1>0 DEF WebInv, WebTypeOK
<1>2. NewSocketsAreUnknown'
  BY <1>0 DEF WebInv, WebTypeOK, NewSocketsAreUnknown, Alive
<1>3. WatchersAreServed'
  BY <1>a, <1>b DEF WebInv, WatchersAreServed, ParentSockets
<1>4. BoundClientsMissNothing'
  <2> SUFFICES ASSUME NEW s \in Channel, NEW j \in web_bound[s], Alive(j)',
                      NEW m \in ToSet(web_backlog[s])
               PROVE  m \in web_got'[j] \/ OnItsWay(m, j)'
    BY DEF BoundClientsMissNothing
  <2>0. j \in Socket
    BY DEF WebInv, WebTypeOK
  <2>1. m \in web_got[j] \/ OnItsWay(m, j)
    BY <1>a, <2>0 DEF WebInv, BoundClientsMissNothing
  <2>2. m \in ToSet(web_replay[j]) => m \in web_got'[j] \/ m \in ToSet(web_replay'[j])
    BY <1>0, <2>0 DEF WebInv, WebTypeOK
  <2> QED BY <1>b, <2>0, <2>1, <2>2 DEF OnItsWay
<1> QED BY <1>1, <1>2, <1>3, <1>4 DEF WebInv

LEMMA LeaveKeeps ==
    ASSUME WebInv, NEW k \in Socket, Disconnect(k) \/ UnregisterClient(k) PROVE WebInv'
<1> USE DEF Disconnect, UnregisterClient
<1>a. \A j \in Socket : Alive(j)' =>
         /\ Alive(j) /\ web_replay'[j] = web_replay[j]
         /\ \A s \in Channel : j \in web_bound'[s] <=> j \in web_bound[s]
  BY DEF WebInv, WebTypeOK, Alive
<1>1. WebTypeOK'
  <2>1. CASE Disconnect(k)
    <3>1. <<>> \in Seq(Push)
      OBVIOUS
    <3>2. web_replay' \in [Socket -> Seq(Push)]
      BY <2>1, <3>1 DEF WebInv, WebTypeOK
    <3> QED BY <2>1, <3>2 DEF WebInv, WebTypeOK
  <2>2. CASE UnregisterClient(k)
    BY <2>2 DEF WebInv, WebTypeOK
  <2> QED BY <2>1, <2>2
<1>2. NewSocketsAreUnknown'
  <2>1. \A s \in Channel : web_bound'[s] \subseteq web_bound[s]
    BY DEF WebInv, WebTypeOK
  <2>2. \A j \in Socket : web_socket'[j] = "new" => web_socket[j] = "new"
    BY DEF WebInv, WebTypeOK, Alive
  <2> QED BY <2>1, <2>2 DEF WebInv, NewSocketsAreUnknown
<1>3. WatchersAreServed'
  <2> SUFFICES ASSUME NEW m \in Push, NEW j \in Socket, Alive(j)',
                      web_push[m].at \in {"orphan", "sending"}, j \in web_push[m].watchers
               PROVE  /\ web_push[m].at = "orphan" => j \in ParentSockets(web_push[m].session)'
                      /\ web_push[m].at = "sending" =>
                            j \in web_push[m].targets \/ m \in web_got[j]
    BY DEF WatchersAreServed
  <2>1. j \in ParentSockets(web_push[m].session)
           => j \in ParentSockets(web_push[m].session)'
    BY <1>a, BegunPush DEF WebInv, WebTypeOK, ParentSockets, Channel
  <2> QED BY <1>a, <2>1 DEF WebInv, WatchersAreServed
<1>4. BoundClientsMissNothing'
  <2> SUFFICES ASSUME NEW s \in Channel, NEW j \in web_bound'[s], Alive(j)',
                      NEW m \in ToSet(web_backlog[s])
               PROVE  m \in web_got[j] \/ OnItsWay(m, j)'
    BY DEF BoundClientsMissNothing
  <2>1. j \in Socket
    BY <1>1 DEF WebTypeOK
  <2>2. /\ j \in web_bound[s] /\ Alive(j) /\ web_replay'[j] = web_replay[j]
    BY <1>a, <2>1
  <2> QED BY <2>2 DEF WebInv, BoundClientsMissNothing, OnItsWay
<1> QED BY <1>1, <1>2, <1>3, <1>4 DEF WebInv

LEMMA BeginKeeps ==
    ASSUME WebInv, NEW m \in Push, NEW s \in Channel, BeginPush(m, s) PROVE WebInv'
<1> USE DEF BeginPush
<1> DEFINE r == [at |-> IF Orphan(s) THEN "orphan" ELSE "sending",
                 session |-> s, targets |-> web_bound[s],
                 watchers |-> IF Orphan(s) THEN ParentSockets(s) ELSE {}]
<1>0. /\ web_push' = [web_push EXCEPT ![m] = r]
      /\ web_push'[m] = r
      /\ \A n \in Push : n # m => web_push'[n] = web_push[n]
  BY DEF WebInv, WebTypeOK
<1>a. \A j \in Socket : Alive(j)' <=> Alive(j)
  BY DEF Alive
<1>b. ParentSockets(s) \in SUBSET Socket
  BY ParentSocketsType DEF WebInv
<1>c. ASSUME NEW j \in Socket, web_socket[j] = "new"
      PROVE  j \notin ParentSockets(s)
  BY <1>c DEF WebInv, WebTypeOK, NewSocketsAreUnknown, ParentSockets, Channel
<1>1. WebTypeOK'
  <2>1. r \in PushRecord
    BY <1>b DEF PushRecord, WebInv, WebTypeOK
  <2>2. web_push' \in [Push -> PushRecord]
    BY <1>0, <2>1 DEF WebInv, WebTypeOK
  <2>3. web_backlog' \in [Channel -> Seq(Push)]
    BY PushesOfAppended DEF WebInv, WebTypeOK
  <2> QED BY <2>2, <2>3 DEF WebInv, WebTypeOK
<1>2. NewSocketsAreUnknown'
  BY <1>0, <1>c DEF WebInv, NewSocketsAreUnknown
<1>3. WatchersAreServed'
  <2> SUFFICES ASSUME NEW n \in Push, NEW j \in Socket, Alive(j)
               PROVE  /\ web_push'[n].at = "orphan" /\ j \in web_push'[n].watchers
                            => j \in ParentSockets(web_push'[n].session)
                      /\ web_push'[n].at = "sending" /\ j \in web_push'[n].watchers
                            => j \in web_push'[n].targets \/ n \in web_got[j]
    BY DEF WatchersAreServed, ParentSockets, Alive
  <2>1. CASE n # m
    BY <1>0, <2>1 DEF WebInv, WatchersAreServed
  <2>2. CASE n = m
    BY <1>0, <2>2
  <2> QED BY <2>1, <2>2
<1>4. BoundClientsMissNothing'
  <2> SUFFICES ASSUME NEW t \in Channel, NEW j \in web_bound[t], Alive(j),
                      NEW n \in ToSet(web_backlog'[t])
               PROVE  n \in web_got[j] \/ OnItsWay(n, j)'
    BY DEF BoundClientsMissNothing, Alive
  <2>1. CASE n \in ToSet(web_backlog[t])
    <3>1. n \in web_got[j] \/ OnItsWay(n, j)
      BY <2>1 DEF WebInv, BoundClientsMissNothing
    <3>2. n # m => web_push'[n] = web_push[n]
      BY DEF WebInv, WebTypeOK
    <3> QED BY <3>1, <3>2 DEF OnItsWay
  <2>2. CASE n \notin ToSet(web_backlog[t])
    <3>1. t = s /\ n = m
      BY <2>2, PushesOfAppended DEF WebInv, WebTypeOK
    <3>2. r.at = "sending" /\ j \in r.targets
      BY <3>1 DEF Orphan
    <3> QED BY <1>0, <3>1, <3>2 DEF OnItsWay
  <2> QED BY <2>1, <2>2
<1> QED BY <1>1, <1>2, <1>3, <1>4 DEF WebInv

LEMMA DownloadKeeps == ASSUME WebInv, NEW m \in Push, DownloadFails(m) PROVE WebInv'
<1> USE DEF DownloadFails
<1>0. /\ web_push'[m].at = "dropped"
      /\ \A n : n # m => web_push'[n] = web_push[n]
  BY DEF WebInv, WebTypeOK
<1>1. WebTypeOK'
  BY DEF WebInv, WebTypeOK, PushRecord
<1>2. NewSocketsAreUnknown'
  BY <1>0 DEF WebInv, NewSocketsAreUnknown
<1>3. WatchersAreServed'
  BY <1>0 DEF WebInv, WatchersAreServed, ParentSockets, Alive
<1>4. BoundClientsMissNothing'
  BY <1>0 DEF WebInv, BoundClientsMissNothing, OnItsWay, Alive
<1> QED BY <1>1, <1>2, <1>3, <1>4 DEF WebInv

LEMMA SendKeeps ==
    ASSUME WebInv, NEW m \in Push, NEW k \in Socket, SendPush(m, k) PROVE WebInv'
<1>1. CASE /\ web_push' = [web_push EXCEPT ![m].targets = @ \ {k}]
           /\ web_got' = [web_got EXCEPT ![k] = IF Alive(k) THEN @ \cup {m} ELSE @]
  <2> DEFINE r == [web_push[m] EXCEPT !.targets = @ \ {k}]
  <2>0. /\ r.at = web_push[m].at /\ r.session = web_push[m].session
        /\ r.targets = web_push[m].targets \ {k}
        /\ r.watchers = web_push[m].watchers
        /\ r \in PushRecord
        /\ web_push[m].at = "sending"
    BY BegunPush DEF PushRecord, WebInv, SendPush
  <2>1. /\ web_push' = [web_push EXCEPT ![m] = r]
        /\ web_push'[m] = r
        /\ \A n : n # m => web_push'[n] = web_push[n]
    BY <1>1 DEF WebInv, WebTypeOK
  <2> HIDE DEF r
  <2>2. /\ UNCHANGED <<web_parent, web_socket, web_bound, web_backlog, web_replay>>
        /\ \A j \in Socket : web_got[j] \subseteq web_got'[j]
        /\ \A j \in Socket : Alive(j)' <=> Alive(j)
        /\ Alive(k) => m \in web_got'[k]
    BY <1>1 DEF SendPush, WebInv, WebTypeOK, Alive
  <2>3. WebTypeOK'
    BY <1>1, <2>0, <2>1, <2>2, ZenonT(40) DEF WebInv, WebTypeOK
  <2>4. NewSocketsAreUnknown'
    BY <2>0, <2>1, <2>2 DEF WebInv, NewSocketsAreUnknown
  <2>5. WatchersAreServed'
    <3> SUFFICES ASSUME NEW n \in Push, NEW j \in Socket, Alive(j)
                 PROVE  /\ web_push'[n].at = "orphan" /\ j \in web_push'[n].watchers
                              => j \in ParentSockets(web_push'[n].session)
                        /\ web_push'[n].at = "sending" /\ j \in web_push'[n].watchers
                              => j \in web_push'[n].targets \/ n \in web_got'[j]
      BY <2>2 DEF WatchersAreServed, ParentSockets
    <3>1. CASE n # m
      BY <2>1, <2>2, <3>1 DEF WebInv, WatchersAreServed
    <3>2. CASE n = m
      BY <2>0, <2>1, <2>2, <3>2 DEF WebInv, WatchersAreServed
    <3> QED BY <3>1, <3>2
  <2>6. BoundClientsMissNothing'
    <3> SUFFICES ASSUME NEW t \in Channel, NEW j \in web_bound[t], Alive(j),
                        NEW n \in ToSet(web_backlog[t])
                 PROVE  n \in web_got'[j] \/ OnItsWay(n, j)'
      BY <2>2 DEF BoundClientsMissNothing, Alive
    <3>0. j \in Socket
      BY DEF WebInv, WebTypeOK
    <3>1. n \in web_got[j] \/ OnItsWay(n, j)
      BY DEF WebInv, BoundClientsMissNothing
    <3>2. CASE n # m
      BY <2>1, <2>2, <3>0, <3>1, <3>2 DEF OnItsWay
    <3>3. CASE n = m
      BY <2>0, <2>1, <2>2, <3>0, <3>1, <3>3 DEF OnItsWay
    <3> QED BY <3>2, <3>3
  <2> QED BY <2>3, <2>4, <2>5, <2>6 DEF WebInv
<1>2. CASE /\ web_push' = [web_push EXCEPT ![m].at = "failed"]
           /\ UNCHANGED web_got
  <2> DEFINE r == [web_push[m] EXCEPT !.at = "failed"]
  <2>0. /\ r.at = "failed" /\ r.watchers = web_push[m].watchers
        /\ r \in PushRecord
        /\ web_push[m].at = "sending"
    BY BegunPush DEF PushRecord, WebInv, SendPush
  <2>1. /\ web_push' = [web_push EXCEPT ![m] = r]
        /\ web_push'[m] = r
        /\ \A n : n # m => web_push'[n] = web_push[n]
    BY <1>2 DEF WebInv, WebTypeOK
  <2> HIDE DEF r
  <2>2. UNCHANGED <<web_parent, web_socket, web_bound, web_backlog, web_replay, web_got>>
    BY <1>2 DEF SendPush
  <2>3. WebTypeOK'
    BY <2>0, <2>1, <2>2 DEF WebInv, WebTypeOK
  <2>4. NewSocketsAreUnknown'
    BY <2>0, <2>1, <2>2 DEF WebInv, NewSocketsAreUnknown
  <2>5. WatchersAreServed'
    BY <2>0, <2>1, <2>2 DEF WebInv, WatchersAreServed, ParentSockets, Alive
  <2>6. BoundClientsMissNothing'
    BY <2>0, <2>1, <2>2 DEF WebInv, BoundClientsMissNothing, OnItsWay, Alive
  <2> QED BY <2>3, <2>4, <2>5, <2>6 DEF WebInv
<1> QED BY <1>1, <1>2 DEF SendPush

LEMMA FallBackKeeps == ASSUME WebInv, NEW m \in Push, FallBackToParent(m) PROVE WebInv'
<1> DEFINE r == [web_push[m] EXCEPT !.at = "sending",
                                    !.targets = ParentSockets(web_push[m].session)]
<1>0. /\ r.at = "sending" /\ r.session = web_push[m].session
      /\ r.targets = ParentSockets(web_push[m].session)
      /\ r.watchers = web_push[m].watchers
      /\ r \in PushRecord
      /\ web_push[m].at = "orphan"
  BY BegunPush, ParentSocketsType DEF PushRecord, WebInv, FallBackToParent
<1>1. /\ web_push' = [web_push EXCEPT ![m] = r]
      /\ web_push'[m] = r
      /\ \A n : n # m => web_push'[n] = web_push[n]
  <2>1. web_push' = [web_push EXCEPT ![m] = r]
    BY DEF WebInv, WebTypeOK, FallBackToParent
  <2> HIDE DEF r
  <2> QED BY <2>1 DEF WebInv, WebTypeOK
<1> HIDE DEF r
<1>2. UNCHANGED <<web_parent, web_socket, web_bound, web_backlog, web_replay, web_got>>
  BY DEF FallBackToParent
<1>3. WebTypeOK'
  BY <1>0, <1>1, <1>2 DEF WebInv, WebTypeOK
<1>4. NewSocketsAreUnknown'
  BY <1>0, <1>1, <1>2 DEF WebInv, NewSocketsAreUnknown
<1>5. WatchersAreServed'
  <2> SUFFICES ASSUME NEW n \in Push, NEW j \in Socket, Alive(j)
               PROVE  /\ web_push'[n].at = "orphan" /\ j \in web_push'[n].watchers
                            => j \in ParentSockets(web_push'[n].session)
                      /\ web_push'[n].at = "sending" /\ j \in web_push'[n].watchers
                            => j \in web_push'[n].targets \/ n \in web_got[j]
    BY <1>2 DEF WatchersAreServed, ParentSockets, Alive
  <2>1. CASE n # m
    BY <1>1, <2>1 DEF WebInv, WatchersAreServed
  <2>2. CASE n = m
    BY <1>0, <1>1, <2>2 DEF WebInv, WatchersAreServed
  <2> QED BY <2>1, <2>2
<1>6. BoundClientsMissNothing'
  BY <1>0, <1>1, <1>2 DEF WebInv, BoundClientsMissNothing, OnItsWay, Alive
<1> QED BY <1>3, <1>4, <1>5, <1>6 DEF WebInv

LEMMA WebInvStep == WebInv /\ [WebNext]_web_vars => WebInv'
<1> SUFFICES ASSUME WebInv, [WebNext]_web_vars PROVE WebInv'
  OBVIOUS
<1>1. CASE WebNext
  BY <1>1, RegisterKeeps, BindKeeps, ReplayKeeps, LeaveKeeps, BeginKeeps,
     DownloadKeeps, SendKeeps, FallBackKeeps DEF WebNext
<1>2. CASE UNCHANGED web_vars
  BY <1>2 DEF web_vars, WebInv, WebTypeOK, NewSocketsAreUnknown, WatchersAreServed,
              BoundClientsMissNothing, OnItsWay, Alive, ParentSockets
<1> QED BY <1>1, <1>2

LEMMA WebInvariant == WebSpec => []WebInv
  BY WebInvInit, WebInvStep, PTL DEF WebSpec

(* Whoever is bound to a session has every push of its backlog or is about *)
(* to get it (WebGatewayAdapter.send, session.bind, register_client).      *)
THEOREM BoundClientsAreServed == WebSpec => []BoundClientsMissNothing
<1>1. WebInv => BoundClientsMissNothing
  BY DEF WebInv
<1> QED BY <1>1, WebInvariant, PTL

(* A push for nobody has reached every browser that watched the parent     *)
(* when it was begun, and stayed, once it is sent (WebGatewayAdapter.send). *)
THEOREM OrphansAreServed == WebSpec => []OrphansReachTheParent
<1>1. WebInv => OrphansReachTheParent
  <2> SUFFICES ASSUME WebInv, NEW m \in Push, web_push[m].at = "sending",
                      web_push[m].targets = {},
                      NEW k \in web_push[m].watchers, Alive(k)
               PROVE  m \in web_got[k]
    BY DEF OrphansReachTheParent
  <2>1. k \in Socket
    BY BegunPush DEF WebInv
  <2> QED BY <2>1 DEF WebInv, WatchersAreServed
<1> QED BY <1>1, WebInvariant, PTL
=============================================================================
