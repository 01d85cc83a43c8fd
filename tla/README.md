# FairyClaw in TLA+

FairyClaw is an agent server: users talk to sessions through gateways, a planner
answers in turns of model calls and tool calls, a main session may delegate work to
sub-sessions, and timers and plugins wake sessions up. It is one asyncio process (a
second one for gateways, joined by a WebSocket bridge). Its difficulty is not in
threads but in awaits: everything between two awaits is atomic, nothing across an
await is, and the code relies on both.

This directory models the parts whose correctness depends on the order of such steps:
the event bus, the session scheduler, sub-tasks with their barrier and their start, the
timer jobs, the bridge to the gateway with its requests and files, the adapters of the
gateway, the turns of an agent with their hooks, the model client, and the context a
model is shown. Paths below are relative to `src/fairyclaw/`.

## Inventory

| Part | State | Operations | What is hard, and what must hold |
|---|---|---|---|
| Session event bus, `core/events/bus.py` | a queue per session, the ready queue, the scheduled set, two workers | `publish`, `_worker_loop`, `_pop_next_event`, `_reschedule_session`, `stop` | A session's events are handled in order and one at a time by whichever worker is free; no event stays in a queue that no worker comes back to |
| Session scheduler, `core/events/session_scheduler.py` | a record per session (mailbox, `inflight`, `wakeup_queued`), debounce tasks | `on_event` and its handlers, `run_session`, debounce, `heartbeat_watchdog`, `timer_watchdog` | Messages, wakeups, timers and turns race: none lost or consumed twice, one turn at a time, no session left asleep with mail |
| Sub-tasks and barrier, `core/agent/session/global_state.py`, `core/agent/planning/subtask_coordinator.py`, `turn_policy.py`, the tools `delegate_task`, `message_subtask`, `kill_subtask`, `report_subtask_done` | records with status and batch, the current batch, flags of announced batches, cancel requests | register, reopen, mark terminal, the barrier, failure notices | Tools of the main session act between the awaits of a sub-session's turn; results must reach the main session, once; a task that was started gets a turn |
| Routing of sub-sessions, `core/agent/routing/` | `routing_pending` in the stored meta | route before the first turn | The row is read, a model awaited, the row written back |
| Timer jobs, `core/runtime/timer_runtime_store.py`, `infrastructure/database/repository.py` | rows of a table | create, cancel, claim, tick, record | Cancellation and crashes between claim, tick and record; `max_runs`, deadlines, stale claims |
| Turn execution, `core/agent/planning/planner.py`, `turn_runner.py` | locals of a turn | model call, hooks, tool loop, texts, follow-up | Every turn must end with an outcome or a next turn; calls that were cut off are not run; usage is recorded once |
| Hook stages, `core/agent/hooks/` | status per hook | run a stage with timeouts | A hook that fails or hangs does not stop the turn |
| Deliverable contract, `capabilities/sub_agent_tools/scripts/dc_*.py` | contract and counter in a session's meta | hooks on answers and reports | Nothing is completed past an unmet contract; retries are bounded |
| Code repair, `capabilities/code_repair_ops/` | phase and verdict in a session's meta | four tools, three hooks | A text does not end the task before the checks have passed; a report may (nothing holds `report_subtask_done` back) |
| Model client, `infrastructure/llm/client.py` | a request's profile and tries | chat, fallback, image calls, parsing of two APIs | Retries only after outages, fallback only when the primary is spent |
| Context and compression, `core/agent/context/`, `capabilities/compression_hooks/` | history, records of unloaded images, the note of a gap | window, truncate, unload, drop, reload, repair note | Tool rounds of two turns are not merged; the current turn is not cut; an unloaded image can be reloaded |
| Gateway bridge, `gateway/bridge/ws_client.py`, `bridge/user_gateway.py`, `core/gateway_protocol/` | pending inbound frames, waiters, backlog, handled and acknowledged ids | hello, resume, inbound, outbound, ack, reconnect | Lost connections, frames sent again, handled once or twice, a bounded backlog |
| Requests and files, `core/gateway_protocol/files.py` and both ends of the bridge | uploads by id, waiters by id | open session, init, chunk, commit, get, control | Nothing is sent again; callers of a lost connection; whole files |
| OneBot adapter, `gateway/adapters/onebot_adapter.py`, route and session tables | active session of a chat, route of a session | resolve, new, checkout, rm, submit, resolve an answer | Two first messages of one chat; a session removed while a message is submitted; answers and messages stay in their chat |
| Web adapter, `gateway/adapters/web_gateway_adapter.py`, `gateway/adapters/web_gateway_ws.py` | sockets per session, backlog per session | register, bind, push, fall back to the parent, leave | A push between registration and replay; a browser that is gone |
| Event plugins, capability registry, runtime store, persistence, tool scripts, SDK, configuration, lifecycle, front ends | see `PROJECT.json` | | Mostly sequential I/O, lookups or pure conversion |

Interaction: gateways, tools and watchdogs `publish` events on the bus; the bus calls
`RuntimeSessionScheduler.on_event`, which fills mailboxes and publishes wakeups to
itself through the bus; a wakeup runs a planner turn inside the bus worker; a turn
builds its context, asks the model through the client, runs hooks and tools; tools
change the sub-task registry and publish events to sub-sessions; a turn of a sub-session
ends at the barrier, which publishes to the main session. Answers go out over the
bridge, whose other end finds the adapter and the receiver by the route of the session.

## Modules

Bus, scheduler, sub-tasks, timers:

- `SerialDispatch` is what the bus promises: per session, events are handled one at a
  time and in the order of publication, and no session is starved.
- `EventBus` is the bus. `queue`, `ready`, `scheduled` are its three fields; `pc`,
  `serving`, `current` are where each worker is. `Publish`, `Take`
  (`_pop_next_event`) and `Reschedule` are the methods; a handler returns at once
  (`ReturnAtOnce`) or after a suspension (`Suspend`, `ReturnLater`).
- `SessionInbox` is what the scheduler promises: a message is kept, in order, until a
  turn consumes it, and one that asks for a turn gets one.
- `SessionScheduler` extends `EventBus`: the handlers of `on_event` take the place of
  the bus's arbitrary ones. A message with text is persisted first (`PersistText`, an
  await), then put into the mailbox (`HandleUserMessage`); `HandleSubtaskCompleted`,
  `HandlePluginEvent`, `DropWakeup`, `StartTurn` and `EndTurn` are the rest of
  `on_event` and `run_session`; `DebounceFires` and `HeartbeatTick` run beside the
  bus. No block under `state_lock` suspends, so each is one step with the publish
  that follows it.
- `SubtaskBarrier` is one main session with its sub-tasks. An action goes from one
  await to the next, so a tool call or the end of a turn is two or three actions
  (`Report`, `ReportDone`; `Text`, `TextDone`; `Kill`, `KillDone`; ...), between which
  everybody else may move. The bus and the scheduler appear only through
  `SessionInbox`'s promise: a message to a sub-session makes it `unread`, and `Wake`
  consumes it.
- `Delegation` is the inside of `delegate_task`, `message_subtask` and of `run_session`
  before the turn: every await of the tools is a step that may fail, and the routing of
  a sub-session (`ReadRouting`, `RouteGroups`) reads and writes the row that
  `message_subtask` writes too. `del_cause` remembers which failure left a task without
  an event.
- `TimerJobs` is the table of jobs and the watchdog. Each operation of the store holds
  its lock for a whole transaction and is one action (`Create`, `Cancel`, `Claim`,
  `Record`); the watchdog awaits the gateway between `Tick` and `Record`. Time is
  abstract: a job gets due, its claim stale, its deadline passed at any moment.
  `Crash` may come anywhere and leaves only the table.

Gateway:

- `GatewayBridge` is both ends of the bridge. The client (`phase`, `pending`, `resend`, one
  `caller` per message) connects, shakes hands, sends pending frames again and receives;
  on the server each connection has a handler (`stage`, `todo`) that outlives it. Frames
  under way are sequences, `up` and `down`, cut off when the connection breaks. Sends are
  part of the steps that decide on them, because both sides send under a fair lock; a
  handler's steps end at its awaits. `stored`, `published`, `dispatched`, `refused` and
  `gone` record what became of each message.
- `BridgeRequests` is what is asked over the same connection and waits for an answer:
  opening a session, the frames of an upload and of a download, control calls, and files
  pushed to the gateway. These frames are never sent again and only control calls have a
  timeout, so it is a model of its own with one queue each way.
- `OneBotSessions` is the OneBot adapter with its session store, `GatewayRuntime` and
  the rows of routes. Every message is a webhook call (`chat_call`) that goes from await
  to await: read the pointer, check the route, find or open a session, move the pointer,
  submit; `new`, `checkout` and `rm` are calls too, and two calls of one chat run
  beside each other.
- `WebClients` is the web adapter and the loop of a socket: the backlog is appended and
  the sockets are read under the lock, sends happen outside.

The turns of an agent:

- `SubAgentTurn` is a turn from the model's answer to its end, for main and sub-sessions
  (`Planner._run_turn_with_policy` with both policies). It extends `ModelReply` (what
  the client makes of a reply of either API, and of arguments that were cut off),
  `DeliverableContract` (the hooks on answers and reports, with a check that may be late)
  and `CodeRepair` (the workflow's record, its tools and hooks).
- `ModelClient` is the request itself: retries, the fallback profile, image calls.
- `ContextWindow` is the context: the history window, the current user turn, the steps
  of the compression, unloading and reloading of images, and the note for a gap. Tokens
  are small weights, texts long or short.

`MC...` instantiate the modules for TLC. Models that are independent but belong to one
question share a run: a variable `focus`, chosen initially, says which of them moves
while the others stay in their initial state (`MCSubtasks`, `MCGateway`, `MCAgent`; in
`MCGatewayBridge` it says which direction of messages moves). `..._proofs` hold the
theorems, by subsystem: `EventBus_proofs`, `SessionScheduler_proofs`, `Subtasks_proofs`
(the barrier and the delegation), `TimerJobs_proofs`, `Bridge_proofs` (messages, requests
and files), `GatewayClients_proofs` (OneBot and web adapters), `Agent_proofs` (turns,
model client, context). `Induction` holds the lemmas for reasoning about recursive
functions.

Definitions marked as mutants are the program with a plausible mistake; no action uses
them. Each documents which mistake a property would detect.

## Runs

| Run | What it shows |
|---|---|
| `bus` | One token per scheduled session, and `EventBus` implements `SerialDispatch` with its liveness, for three sessions, two workers, two events |
| `scheduler` | Turns, mailboxes, flags and records agree; no message is stranded without a timer or wakeup; `SessionScheduler` implements `SessionInbox` with its liveness |
| `barrier_safety` | The registry under all interleavings, with writes and sends that fail |
| `barrier_settles` | A finished batch that is not flagged has somebody on the way to the barrier, and is announced unless an announcement of an earlier batch is about to flag it or the main session opens the next one; a started sub-session comes to its turn, and one that is left behind has a known cause |
| `barrier_lost`, `barrier_message` (violated) | Two disagreements between the barrier and its documentation, below |
| `bridge` | Inbound: acknowledged messages are stored, submitted ones recognised when they come again, callers answered. Outbound: unacknowledged messages are always on their way on an intact connection and get to their adapters. Both with broken connections and a restart |
| `bridge_twice` (violated) | A message pushed between hello and resume is sent to the user twice |
| `requests` | Files are transferred whole or not at all, whatever is lost; every call ends unless its connection was lost |
| `timers` | Records, late ticks, and due jobs run |
| `gateway` | OneBot messages and answers stay in their chat; a bound browser misses nothing, a push for an unwatched sub-session gets to the parent's browsers |
| `agent` | Usage, calls that were cut off, stalls, contracts and the repair gate in every turn; retries of the client; tool rounds, placeholders and the current turn under compression |

Bounds. `MaxQueued` = 2 lets a session be rescheduled with events left and with none;
three sessions for two workers make one wait. `MaxSubmit` counts the events outsiders
publish: three are enough for a message before, during and after a turn, and for a
debounce timer that has fired between two of them. `MaxCalls` counts the tool calls of
the main session: with two tasks and three calls a batch is opened, ended, reopened or
followed by another. In `Delegation` tasks share nothing, so one shows every behaviour
(`DelTask`), and `MaxSegments` = 2 is an instruction with an attachment. `Job` has two
jobs and `Limit` is two, so that a batch has a rest while its head ticks; `max_runs` is
none or two, failures end a job at two (three in the code; the number matters to no
property), and one crash may leave claims behind.

`MaxConns` = 2 lets the handler of a broken connection run beside that of the next one,
which is what the bridge has to survive (three connections with one message each way show
nothing new); `MaxRestarts` is one. `ProcessedLimit` is as large as the number of frames
(2,048 in the code, where a frame is forgotten only after so many others) and
`BacklogSize` is one for two messages, so that frames are evicted. `MaxChunks` = 2 makes
files of no, one and two chunks, and `MaxLosses` = 1 is a loss at any point of two
transfers. Two chats with two calls in progress, two session ids besides titles of which
one begins like the other, two browsers, a session with a sub-session, and two pushes
for a backlog of one are the smallest instance in which anything can be confused with
something else.

In `agent`, `Threshold` and `MaxTries` are three as in the code, an answer has at most
two calls, and a contract has one rule (a verdict is pass or fail however many rules).
The check of a contract may be late; the hooks of the repair workflow are taken to finish.
The history has six items, windows of five and weights small enough that every step of
the compression happens: `TokenBudget` = 6 is less than two items with an image.

Fairness. The event loop runs every task that can go on, handlers, writes and model
calls return (the model client, the tools and the hooks have timeouts), and sleeps end.
None is assumed of anybody who submits messages or calls tools, nor of the heartbeat
watchdog: sessions are woken without it. The timer watchdog is weakly fair and
a claim gets stale eventually; nothing is assumed of when a job gets due, and `Dies`
(an error while an error is recorded) is part of what `DueJobsRun` allows.
On the bridge every task goes on and the client connects again; connections may break
until none is left in the model (`OutOfConns`). `ReqFairness` is the two receive loops,
the reconnection, the waiting tasks and the timeout of control calls, but not those who
start a call. `DelFairness` is that `run_session` goes on; the steps of the tools need
none, since `StartedTasksRun` begins with an event that has been taken. `gateway` and
`agent` check safety only and assume none.

Symmetry is used in `barrier_safety` and `gateway`, which check no liveness. Deadlock is
checked in `bus`, `scheduler` and `timers`. The other models come to rest: the main
session has made its calls, every message is delivered, every push sent, the history is
full.

## What the violated runs show

- `barrier_lost`: a task is marked terminal before the status is stored; a delegation in
  between finds the batch all terminal and opens the next one, and the barrier then
  looks at that one only. The result of the old batch never reaches the main session.
- `barrier_message`: a message to a running task is skipped when the running turn ends
  the task first.
- `bridge_twice`: the hello makes a connection active, the resume that follows replays the
  backlog, and the gateway never looks at the id of an outbound frame. More rarely a
  message of a user is stored twice (`SubmittedOnce`, violated as well): an old handler is
  still storing it when the next connection brings its copy, or the process restarts
  before the acknowledgement.

### Other statements TLC refutes

These definitions stand in the modules and say what a comment, a guide or a declaration
says; no run lists them. Put into a configuration, each gives a counterexample.

- `NudgeResumesPlanner` (SessionScheduler): a wakeup asked for by a capability
  (`sdk/runtime.py:70`) is dropped for a session without a record, and idle sessions
  have none (`session_scheduler.py:217`); the exception made for such wakeups
  (`allow_empty_mailbox`, `:222`) is never reached.
- `StoppedIsCancelled` (TimerJobs): the record of a tick under way overwrites the status
  of a job cancelled meanwhile (`repository.py:1019`). It does not fire again, because
  `active` stays False; `AtMostOneLateTick` holds.
- `FlaggedOnlyIfAnnounced`, `AnnouncedOnce` (SubtaskBarrier): after the awaits of an
  announcement the flag is set for the batch that is current then
  (`subtask_coordinator.py:111`), and two turns may both find it unset. A batch that was
  flagged in place of an earlier one is never announced: `FinishedBatchIsAnnounced` has to
  except it (`MisflagComing`), and is refuted without the exception.
- `TruncatedCallsNeverRun` (SubAgentTurn): arguments that were cut off are asked for again
  ("Retry once with a compact repair prompt when tool-call arguments are truncated",
  `planner.py:353`) only when they are malformed. A reply cut before the first character of
  them leaves an empty string, of which the parser of the responses API makes `{}`
  (`client.py:827`); that of the chat API does so when the field is absent (`:784`). The tool
  is then run without its arguments. `MalformedCallsNeverRun` is what does hold.
- `VerifyMeansPatched` (SubAgentTurn): a patch tool that returns an error text has the
  status ok, and the workflow goes on to its verification (`repair_after_tool_call.py:33`).
- `ImagesAreEdits` (ModelClient): the URL in an image reply is decoded as base64
  (`client.py:643`), so something that is no image may be given back.
- `NoteCoversTheGap` (ContextWindow): places are counted from the start of a window; once
  the log is longer than the window the note of an earlier slice is reused for another
  (`session_memory_pre_context.py:113`, `AI_SYSTEM_GUIDE.md:355`). It needs a log longer
  than `GapWindow` by some items (`HistoryLimit` 2, `GapWindow` 4, `MaxLog` 8).
- `RoutesHaveSessions` (OneBotSessions): the route outlives its session, although the
  table declares `ON DELETE CASCADE` (`models.py:87`): foreign keys are not enforced.
- `NoDeadRegistrations`, `BroadcastsReachEverybody` (WebClients): a socket lost while it
  registers stays registered (`web_gateway_ws.py:46` is before the `try`), and a send to
  it that raises ends the push for those after it (`web_gateway_adapter.py:95`).

Further hazards seen while modelling, beyond those in `PROJECT.json`: the failure flag of
a sub-task set after an await (`subtask_coordinator.py:162`); a batch whose announcement
cannot be stored stays unannounced until another turn reaches the barrier (`:120`); the
meta of a sub-session written back after a model call (`session_scheduler.py:156`); the
task type of a batch of messages is that of the last one that names one (`:98`); the
timer watchdog ends when its error handling raises (`:382`; `Dies` in `TimerJobs`); the
checkpoint of the extraction of memories is read and written around a model call
(`session_memory_extraction.py:32`).

## Theorems

All are about the specification without fairness, for every value of the constants that
the named assumptions allow (bounds are natural numbers, limits are positive, the main
session is no task, "none" is no chat and no title is empty; session ids, requests and, for
`SubmittedIsRemembered`, inbound frames are finitely many). Every safety invariant and
every action property of the passing runs is among them.

`Induction` states induction over the numbers up to n as a fact about sets (`UpTo`), which
a proof cites for the set of the numbers that have the property; `LeastNatural` follows from
the pigeonhole principle. With `Iterated`, that a loop written as a recursive function has
the values its equations say, they carry what is proved below about the lineage of a session
and the loops of the compression.

- `EventBus_proofs`. `BusInv` (types, one token per session, queued means scheduled) is
  inductive as it stands, and gives `TokensAreUnique`. `BusIsSerial`: every step of the bus
  is a step of `SerialDispatch` or a stutter; `BusInv` is needed where a worker takes an
  event, because only the token says that nobody else handles that session. The lemmas are
  about the actions, so that the next module uses them for its own `Next`.
- `SessionScheduler_proofs`. Layer by layer: `BusInv` and types; one turn per session;
  quiet mailboxes and no idle record (a message handler and a turn are never in the
  same session, by the token); honest wakeup flags; and from all of these
  `NobodyIsStranded`, that a message asking for a turn always has a timer or a wakeup
  coming.
  `InboxIsKept` is the refinement of `SessionInbox` without its liveness: what the inbox
  keeps for a session is spread over the mailbox, the event that is handled and the bus
  queue, and each action moves the boundary between two of them or does what the
  inbox does; the invariants say which part is empty when.
- `Subtasks_proofs`. Of the barrier: types; `BatchInv` (only the current batch runs, cancel
  requests are fresh), inductive because a batch is only left when all its tasks are
  terminal; `VerdictsStand`; and, with `IoMayFail = FALSE`, `FinishedBatchIsCared`: whoever
  ends the last task of the batch is on the way to the barrier itself. Of the delegation:
  with the types `OrphansAreKnown` is inductive: a step that takes from a running task what
  would wake it leaves a cause, or is followed by another step of the same call.
  `OrphansHaveACause` holds for any number of tasks and attachments.
- `TimerJobs_proofs`. `Inv` adds to the types that the batch has no repetitions, is empty
  exactly while the watchdog sleeps, and that unused ids occur nowhere. On it rest
  `RunsAreLimited`, `ClaimsAreReleased`, `EveryTickIsRecorded` (with the strict bound
  while a tick is unrecorded) and `LateTicksAreFew` (a job that has ticked late is
  inactive, or would need a crash to tick again).
- `Bridge_proofs`, messages. `Inv` adds to the types that the backlog holds only what was
  pushed and that a client that is not down has opened a connection. `OkIsStored` is the
  last link of a chain, so its invariant `KnownIsStored` covers every link: the handler
  that is about to publish, the frames remembered, an answer under way, the caller.
  `SubmittedIsRemembered` needs that no frame is remembered twice and, by counting, that
  a memory as large as a finite set of frames never drops one. That frames are carried
  (`WaitingIsCarriedHolds`, `BacklogIsCarriedHolds`) rests on `LinkInv`: the hello is the
  first frame of its connection, queues of connections not yet made are empty, the server
  has greeted the connection the client takes for established, and what a resume makes
  the server skip was acknowledged.
- `Bridge_proofs`, requests. `TransfersAreWhole` says what a caller may believe when it is
  done, so `ReqInv` says of each frame under way to which step of which call it belongs
  (`Asked`, `Answers`, at most one per call) and what its answer will grant: a download has
  the chunks it got and those still coming, an upload whose commit was accepted is
  stored. Frames of a lost connection are gone, which is why a late answer is never taken
  for another.
- `GatewayClients_proofs`, OneBot. A message is stored in the session the call holds, which
  was chosen awaits before; so `ChatInv` says of everything a session id can be read from,
  the routes, the pointers and the calls, that the session was opened for that chat, and
  that only sessions with a title were opened for anybody (an id is never opened twice).
  `ChatsArePrivate`, `RoutesNeverMove` and the action property `OwnersRemove` follow, and
  by induction over the number of ancestors looked at `AnswersGoHome`: a sub-session
  belongs to the chat of its parent, so whichever route is found is a route of that chat.
- `GatewayClients_proofs`, web. `WebInv` adds `WatchersAreServed` to the property: who
  watched the parent when a push found nobody bound is bound to it when the push falls
  back, or has left. `BoundClientsAreServed` and `OrphansAreServed` follow.
- `Agent_proofs`, turns. `AgentInv` has four parts besides the types: the usage of the
  answer in hand is still to be recorded or has been, once; an answer in hand has no
  malformed call, because both parsers put "cut" before everything else; a turn forced to finish
  has left a message for the next one; and who is about to complete the task has looked
  at the contract in this turn. Four theorems are one part each, for any contract
  and any number of calls. `GatesAreKept` adds `GateIsHeld`: between calls a repair in its
  report phase is verified or its gate is pending, and a text that may complete the task
  was looked at outside that state.
- `Agent_proofs`, model client. `LlmInv` adds to `EveryRetryIsJustified` that while a
  request is made all tries before it were outages, that the profile in use has as many of
  them as are counted, and that the primary is spent once the fallback is in use.
- `Agent_proofs`, context. `Sound` says what a compression of a history s may be: the first
  p items and the latest turn of s are whole (`Spared`); rounds next to each other were
  next to each other in s (`Batched`); only messages have images or placeholders; and
  each placeholder has a record that can be reloaded (`Backed`). Truncation, the recency
  window, one unloading and one dropping each keep it, and so do the two loops, for any
  budget and any guard (`CompressSound`). `CtxInv` says of the log that its turns are in
  order and that only the first round of a turn has the ordinal 1, so rounds that count on
  are of one turn (`BatchesInLog`). `BatchesHold`, `PlaceholdersHold` and the action
  property `LatestIsWhole` follow.

`RunsAreLimited`, `ClaimsAreReleased`, `RoutesNeverMove`,
`OwnersRemove`, `BusIsConsistent`, `BusIsSerial`, `InboxIsKept` and the types of timers and
bridge are proved and not listed by a run (the two refinements as part of
`HandlesInOrder` and `ImplementsInbox`).

Only model-checked: what needs fairness, which is beyond the prover. These are the
liveness of `HandlesInOrder` and of `ImplementsInbox`, and `FinishedBatchIsAnnounced`,
`StartedTasksRun`, `DueJobsRun`, `CallersAreAnswered`, `PushedIsDispatched` and
`AnsweredOrLost`.

## Not modelled

Start, stop and restart of the process, except for timers and the bridge: queues,
mailboxes and the sub-task registry are volatile and nothing rebuilds them. Cron
expressions; the choice of task type and capability groups of a turn; the capability
registry (loaded once, then looked up); the cache of session settings, whose fillers
write the same values; the extraction of memories; digests, names and media types of
files; the evaluation of a contract's rules and of patches against the workspace; the
retry of a locked database; tool scripts (leaf I/O); configuration, command line and
front end. Prompts, texts and payloads never matter to the properties and are left out.
`PROJECT.json` gives the reason for each component.

## Plan

1. More of the invariants the properties rest on as refinements: the bridge as a channel
   that keeps messages until they are acknowledged, the registry as a set of batches.
2. The steps of the liveness arguments that are safety: that each stage a frame, a due job or
   a finished batch passes is left only towards the next one.
3. Cron matching and the choice of a turn's task type as operators, checked against
   reference definitions; start, stop and restart, composed from the modules above.
