--------------------------- MODULE ContextWindow ---------------------------
(***************************************************************************)
(* What the model is shown of a session: the history window read from the  *)
(* database, the split of the current user turn, the compression of the    *)
(* history to a token budget, images unloaded from it and reloaded by a    *)
(* tool, and the note of session_memory that stands in for what was cut.   *)
(*                                                                         *)
(* The log is the stored history of one session.  An item knows its place  *)
(* in the log and the turn that stored it, which the program does not: the *)
(* properties tell items apart by them.  Tokens are weights.  A text is    *)
(* short or long, an image full or small; a small one is compressed no     *)
(* further, and an image message has a text.  Every call of a turn is      *)
(* recorded: all manifests say so.                                         *)
(***************************************************************************)
EXTENDS Naturals, Sequences, SequencesExt, FiniteSets, FiniteSetsExt

CONSTANTS
    Picture,        \* images users send
    HistoryLimit,   \* rows get_history returns to a turn (50)
    GapWindow,      \* compaction_max_history_items (120)
    MinCut,         \* min_gap_repair_cut_items (3)
    Headroom,       \* gap_headroom_items (4)
    RecentBlocks,   \* recency_window (6)
    GuardBlocks,    \* reloaded_image_guard_messages (6)
    TokenBudget,    \* context_token_budget, 0 for none
    MaxLog,         \* bound: items stored
    MaxCalls        \* bound: tool calls of a turn

ASSUME ContextAssumption ==
    /\ {HistoryLimit, GapWindow, MinCut, Headroom, RecentBlocks} \subseteq Nat \ {0}
    /\ {GuardBlocks, TokenBudget, MaxLog, MaxCalls} \subseteq Nat

VARIABLES
    ctx_sub,        \* the session is a sub-session
    ctx_log,        \* the stored history
    ctx_turn,       \* turns so far
    ctx_phase,      \* where the turn is: idle, built, ready, acting
    ctx_wake,       \* a turn is due
    ctx_left,       \* calls of the answer that have not run
    ctx_history,    \* history_items of the prompt
    ctx_user,       \* user_turn of the prompt: one item or none
    ctx_offered,    \* the reload tool is among the tools of the prompt
    ctx_records,    \* the records of unloaded images
    ctx_gap,        \* last_slice_exclusive_end, and whether there is a summary
    ctx_noted,      \* places in the log the summary was made from
    ctx_note        \* the prompt holds a gap repair note

ctx_stored == <<ctx_sub, ctx_log, ctx_turn>>
ctx_prompt == <<ctx_history, ctx_user, ctx_offered, ctx_note>>
ctx_state == <<ctx_records, ctx_gap, ctx_noted>>
ctx_vars == <<ctx_stored, ctx_phase, ctx_wake, ctx_left, ctx_prompt, ctx_state>>

Block(by, pics, long) ==
    [at |-> 0, turn |-> 0, by |-> by, ord |-> 0,
     pics |-> {<<p, "full">> : p \in pics}, long |-> long, marks |-> {}]

Round(ord, long) ==
    [at |-> 0, turn |-> 0, by |-> "tool", ord |-> ord, pics |-> {}, long |-> long,
     marks |-> {}]

\* Store items at the end of the log, which gives them a place and a turn.
Stored(items) ==
    ctx_log' = ctx_log \o [k \in DOMAIN items |->
                              [items[k] EXCEPT !.at = Len(ctx_log) + k,
                                               !.turn = ctx_turn]]

IsBlock(item) == item.by # "tool"

\* The last n elements of a sequence, or all.
LastOf(s, n) == SubSeq(s, Max({1, Len(s) - n + 1}), Len(s))

(***************************************************************************)
(* Weights.                                                                *)
(***************************************************************************)
PicWeight(pic) == IF pic[2] = "full" THEN 3 ELSE 2

ItemWeight(item) ==
    1 + (IF item.long THEN 2 ELSE 0) + MapThenSumSet(PicWeight, item.pics)

\* The rebuilt prompt: the system prompt, the history and the user turn.
PromptWeight(history, user) == 1 + FoldLeft(LAMBDA w, i : w + ItemWeight(i),
                                            0, history \o user)

Fits(history, user) == PromptWeight(history, user) <= TokenBudget

(***************************************************************************)
(* The parts of a history that compression spares.                         *)
(***************************************************************************)
\* The last block and the rounds after it.
LatestTurnSuffixLength(history) ==
    LET blocks == {k \in DOMAIN history : IsBlock(history[k])}
    IN  IF blocks = {} THEN Len(history) ELSE Len(history) - Max(blocks) + 1

\* Up to the first user block, which in a sub-session is the instruction.
FirstUserMessageEnd(history) ==
    LET users == {k \in DOMAIN history : history[k].by = "user"}
    IN  IF users = {} THEN 0 ELSE Min(users)

\* Mutant: the latest block is not spared.
CompressibleToTheEnd(history, prefix) == prefix + 1 .. Len(history)

Compressible(history, prefix) ==
    prefix + 1 .. Len(history) - LatestTurnSuffixLength(history)

BlocksAfter(history, k) ==
    Cardinality({j \in DOMAIN history : j > k /\ IsBlock(history[j])})

(***************************************************************************)
(* The steps of the compression.                                           *)
(***************************************************************************)
\* Images of all blocks are made smaller, where that works; long results and
\* long answers are cut.  A cut answer keeps its text only.
TruncateLargeItems(history, prefix) ==
    [k \in DOMAIN history |->
        LET item == [history[k] EXCEPT !.pics = {<<pic[1], "small">> : pic \in @}]
        IN  IF k \notin Compressible(history, prefix) \/ item.by = "user" \/ ~item.long
            THEN item
            ELSE [item EXCEPT !.long = FALSE, !.pics = {}]]

KeepRecentHistory(history, prefix) ==
    LET old == {k \in DOMAIN history : IsBlock(history[k])
                                       /\ BlocksAfter(history, k) >= RecentBlocks - 1}
        start == IF old = {} THEN 1 ELSE Max(old)
    IN  SubSeq(history, 1, prefix)
        \o SubSeq(history, Max({prefix + 1, start}), Len(history))

Restored(records) == UNION {records[k].pics : k \in {j \in DOMAIN records :
                                                         records[j].restored}}

\* The images of an item that may go: not those restored a short while ago.
Removable(history, k, records) ==
    {pic \in history[k].pics :
        ~(pic \in Restored(records) /\ BlocksAfter(history, k) < GuardBlocks)}

\* Mutant: an id seen before is left as it is.
RecordOnce(records, id, pics) ==
    IF \E k \in DOMAIN records : records[k].id = id THEN records
    ELSE Append(records, [id |-> id, pics |-> pics, restored |-> FALSE])

\* append_unloaded_segment_record: an id seen before is unloaded again.
RecordUnloaded(records, id, pics) ==
    IF \E k \in DOMAIN records : records[k].id = id
    THEN [k \in DOMAIN records |->
            IF records[k].id = id THEN [records[k] EXCEPT !.restored = FALSE]
                                  ELSE records[k]]
    ELSE Append(records, [id |-> id, pics |-> pics, restored |-> FALSE])

\* The oldest message with such images gets a placeholder for them.
UnloadOldestImageMessage(c, prefix) ==
    LET ks == {k \in Compressible(c.history, prefix) :
                   Removable(c.history, k, c.records) # {}}
        k == Min(ks)
        pics == Removable(c.history, k, c.records)
        id == <<c.history[k].by, k, pics>>
    IN  IF ks = {} THEN c
        ELSE [history |-> [c.history EXCEPT ![k].pics = @ \ pics,
                                            ![k].marks = @ \cup {id}],
              records |-> RecordUnloaded(c.records, id, pics)]

\* The oldest item that is not a message with a placeholder is dropped.
FindDroppable(history, prefix) ==
    {k \in Compressible(history, prefix) : history[k].marks = {}}

DropOldest(c, prefix) ==
    LET ks == FindDroppable(c.history, prefix)
    IN  IF ks = {} THEN c ELSE [c EXCEPT !.history = RemoveAt(@, Min(ks))]

\* Each of the two is repeated while the prompt does not fit; neither changes
\* a history more than twice for each item.
UnloadMore(c, user, prefix) ==
    IF Fits(c.history, user) THEN c ELSE UnloadOldestImageMessage(c, prefix)

Unloaded(c, user, prefix) ==
    LET after[n \in 0..2 * Len(c.history)] ==
            IF n = 0 THEN c ELSE UnloadMore(after[n - 1], user, prefix)
    IN  after[2 * Len(c.history)]

DropMore(c, user, prefix) ==
    IF Fits(c.history, user) THEN c ELSE DropOldest(c, prefix)

Dropped(c, user, prefix) ==
    LET after[n \in 0..2 * Len(c.history)] ==
            IF n = 0 THEN c ELSE DropMore(after[n - 1], user, prefix)
    IN  after[2 * Len(c.history)]

Compress(history, user, sub, records) ==
    LET prefix == IF sub THEN FirstUserMessageEnd(history) ELSE 0
        truncated == TruncateLargeItems(history, prefix)
        recent == KeepRecentHistory(truncated, prefix)
        unloaded == Unloaded([history |-> recent, records |-> records], user, prefix)
    IN  IF TokenBudget = 0 \/ Fits(history, user)
        THEN [history |-> history, records |-> records]
        ELSE IF Fits(truncated, user)
        THEN [history |-> truncated, records |-> records]
        ELSE Dropped(unloaded, user, prefix)

(***************************************************************************)
(* Actions.                                                                *)
(***************************************************************************)
CtxInit == /\ ctx_sub \in BOOLEAN
           /\ ctx_log = <<>> /\ ctx_turn = 0 /\ ctx_phase = "idle"
           /\ ctx_wake = FALSE /\ ctx_left = 0
           /\ ctx_history = <<>> /\ ctx_user = <<>> /\ ctx_offered = FALSE
           /\ ctx_records = <<>> /\ ctx_gap = [end |-> 0, summary |-> FALSE]
           /\ ctx_noted = {} /\ ctx_note = FALSE

\* A message of the user is stored at any time, also while a turn runs.
UserWrites(pics) ==
    /\ Len(ctx_log) < MaxLog
    /\ Stored(<<Block("user", pics, FALSE)>>)
    /\ ctx_wake' = TRUE
    /\ UNCHANGED <<ctx_sub, ctx_turn, ctx_phase, ctx_left, ctx_prompt, ctx_state>>

\* Read the window, decide on the reload tool, split off the user turn and
\* compress: _prepare_turn up to the hook of session_memory.
BuildPrompt ==
    /\ ctx_phase = "idle" /\ ctx_wake
    /\ ctx_wake' = FALSE
    /\ ctx_turn' = ctx_turn + 1
    /\ ctx_phase' = "built"
    /\ ctx_offered' = \E k \in DOMAIN ctx_records : ~ctx_records[k].restored
    /\ LET window == LastOf(ctx_log, HistoryLimit)
           ofUser == Last(window).by = "user"
           user == IF ofUser THEN <<Last(window)>> ELSE <<>>
           history == IF ofUser THEN Front(window) ELSE window
           c == Compress(history, user, ctx_sub, ctx_records)
       IN  /\ ctx_user' = user
           /\ ctx_history' = c.history
           /\ ctx_records' = c.records
    /\ ctx_note' = FALSE
    /\ UNCHANGED <<ctx_sub, ctx_log, ctx_left, ctx_gap, ctx_noted>>

\* The history is read again, up to its own limit, without the user turn.
FullHistory ==
    LET full == LastOf(ctx_log, GapWindow)
    IN  IF ctx_user # <<>> /\ Last(full).at = ctx_user[1].at THEN Front(full) ELSE full

Cut == Len(FullHistory) - Len(ctx_history)

SliceEnd == Min({Len(FullHistory), Cut + Headroom})

\* The summarizer returns nothing or the hook times out: no note, nothing saved.
RepairGap ==
    /\ ctx_phase = "built"
    /\ ctx_phase' = "ready"
    /\ \/ /\ ctx_history = <<>> \/ Cut < MinCut
          /\ UNCHANGED <<ctx_note, ctx_gap, ctx_noted>>
       \/ /\ ctx_history # <<>> /\ Cut >= MinCut
          /\ SliceEnd <= ctx_gap.end /\ ctx_gap.summary
          /\ ctx_note' = TRUE
          /\ UNCHANGED <<ctx_gap, ctx_noted>>
       \/ /\ ctx_history # <<>> /\ Cut >= MinCut
          /\ ~(SliceEnd <= ctx_gap.end /\ ctx_gap.summary)
          /\ \/ UNCHANGED <<ctx_note, ctx_gap, ctx_noted>>
             \/ /\ ctx_note' = TRUE
                /\ ctx_gap' = [end |-> SliceEnd, summary |-> TRUE]
                /\ ctx_noted' = ctx_noted \cup {FullHistory[k].at : k \in 1..SliceEnd}
    /\ UNCHANGED <<ctx_stored, ctx_wake, ctx_left, ctx_history, ctx_user,
                   ctx_offered, ctx_records>>

\* The prompt is a local of the turn.
PromptIsGone == ctx_history' = <<>> /\ ctx_user' = <<>> /\ ctx_note' = FALSE

\* The model answers with a text, and that ends the turn, ...
AnswerText(long) ==
    /\ ctx_phase = "ready" /\ Len(ctx_log) < MaxLog
    /\ Stored(<<Block("assistant", {}, long)>>)
    /\ ctx_phase' = "idle"
    /\ PromptIsGone /\ ctx_offered' = FALSE
    /\ UNCHANGED <<ctx_sub, ctx_turn, ctx_wake, ctx_left, ctx_state>>

\* ... or with tool calls, with or without a text before them.
AnswerCalls(n, preface) ==
    /\ ctx_phase = "ready" /\ Len(ctx_log) < MaxLog
    /\ Stored(IF preface THEN <<Block("assistant", {}, FALSE)>> ELSE <<>>)
    /\ ctx_left' = n
    /\ ctx_phase' = "acting"
    /\ PromptIsGone
    /\ UNCHANGED <<ctx_sub, ctx_turn, ctx_wake, ctx_offered, ctx_state>>

\* The n-th call from the end has run; after the last one the turn ends and
\* wakes the next one.
CallRan == /\ ctx_left' = ctx_left - 1
           /\ ctx_phase' = IF ctx_left = 1 THEN "idle" ELSE "acting"
           /\ ctx_wake' = (ctx_wake \/ ctx_left = 1)

NextOrdinal == 1 + Cardinality({k \in DOMAIN ctx_log : /\ ctx_log[k].turn = ctx_turn
                                                       /\ ctx_log[k].by = "tool"})

RunCall(long) ==
    /\ ctx_phase = "acting" /\ Len(ctx_log) < MaxLog
    /\ Stored(<<Round(NextOrdinal, long)>>)
    /\ CallRan
    /\ UNCHANGED <<ctx_sub, ctx_turn, ctx_prompt, ctx_state>>

\* The records asked for, oldest first, or the latest ones, newest first.
ReloadOrder(ks, order) ==
    \/ \A i, j \in DOMAIN order : i < j => order[i] < order[j]
    \/ /\ \A i, j \in DOMAIN order : i < j => order[i] > order[j]
       /\ \A r \in DOMAIN ctx_records : ctx_records[r].restored \/ r \in ks
                                         \/ \A k \in ks : r < k

\* reload_unloaded_segments: the records asked for count as restored, their
\* images are stored again as messages, and then the round of the call.
ReloadUnloadedSegments(ks) ==
    /\ ctx_phase = "acting" /\ ctx_offered
    /\ ks # {} /\ \A k \in ks : ~ctx_records[k].restored
    /\ Len(ctx_log) + Cardinality(ks) < MaxLog
    /\ ctx_records' = [k \in DOMAIN ctx_records |->
                          IF k \in ks THEN [ctx_records[k] EXCEPT !.restored = TRUE]
                                      ELSE ctx_records[k]]
    /\ \E order \in [1..Cardinality(ks) -> ks] :
          /\ ReloadOrder(ks, order)
          /\ Stored([k \in DOMAIN order |->
                        [Block("user", {}, FALSE) EXCEPT !.pics = ctx_records[order[k]].pics]]
                    \o <<Round(NextOrdinal, FALSE)>>)
    /\ CallRan
    /\ UNCHANGED <<ctx_sub, ctx_turn, ctx_prompt, ctx_gap, ctx_noted>>

CtxNext == \/ \E pics \in SUBSET Picture : UserWrites(pics)
           \/ BuildPrompt \/ RepairGap
           \/ \E long \in BOOLEAN : AnswerText(long) \/ RunCall(long)
           \/ \E n \in 1..MaxCalls, preface \in BOOLEAN : AnswerCalls(n, preface)
           \/ \E ks \in SUBSET DOMAIN ctx_records : ReloadUnloadedSegments(ks)

CtxSpec == CtxInit /\ [][CtxNext]_ctx_vars

(***************************************************************************)
(* Properties.                                                             *)
(***************************************************************************)
\* Mutant: rounds next to each other are one batch.
JoinedAnyhow(history, k) == k > 1 /\ ~IsBlock(history[k]) /\ ~IsBlock(history[k - 1])

\* The assembler adds a round to the batch before it (_collect_consecutive_
\* tool_rounds looks at the ordinals only).
Joined(history, k) == /\ k > 1 /\ ~IsBlock(history[k]) /\ ~IsBlock(history[k - 1])
                      /\ history[k].ord = history[k - 1].ord + 1

\* The calls of two turns are never shown as one answer of the model,
\* whatever was cut out between them.
BatchesAreTurns ==
    \A k \in DOMAIN ctx_history :
        Joined(ctx_history, k) => ctx_history[k].turn = ctx_history[k - 1].turn

\* Whatever the compression takes, the rounds since the last message before the
\* user turn, and that message, are shown, and no text of them is cut short; in
\* a sub-session so is the first user message of the window, its instruction
\* (_latest_turn_suffix_length, _first_user_message_exclusive_end).
LatestBatchIsWhole ==
    [][ctx_phase = "idle" /\ ctx_phase' = "built" =>
        LET window == LastOf(ctx_log, HistoryLimit)
            seen == IF ctx_user' = <<>> THEN window ELSE Front(window)
            latest == {k \in DOMAIN seen :
                          \A j \in DOMAIN seen : j > k => ~IsBlock(seen[j])}
            users == {k \in DOMAIN seen : ctx_sub /\ seen[k].by = "user"}
        IN  \A k \in latest \cup (IF users = {} THEN {} ELSE {Min(users)}) :
                \E j \in DOMAIN ctx_history' : /\ ctx_history'[j].at = seen[k].at
                                               /\ ctx_history'[j].long = seen[k].long
    ]_ctx_vars

\* Every placeholder of a prompt stands for a record that can be reloaded
\* (append_unloaded_segment_record when an image is unloaded once more).
PlaceholdersCanBeReloaded ==
    ctx_phase \in {"built", "ready"} =>
        \A k \in DOMAIN ctx_history : \A id \in ctx_history[k].marks :
            \E r \in DOMAIN ctx_records : /\ ctx_records[r].id = id
                                          /\ ~ctx_records[r].restored

\* A note that stands in for the items cut away was made from all of them
\* (_build_gap_repair_patch).  The code does not keep it once the log is longer
\* than GapWindow: places are counted from the window's start, and the note of
\* an earlier slice is reused.
NoteCoversTheGap ==
    [][ctx_phase = "built" /\ ctx_note' =>
        {FullHistory[k].at : k \in 1..Cut} \subseteq ctx_noted']_ctx_vars
=============================================================================
