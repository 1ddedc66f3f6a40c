------------------------------ MODULE LiveTurn ------------------------------
(***************************************************************************)
(* The activity feed of one conversation while turns run: the stream of    *)
(* turn events builds rows in the stores as they arrive, and answers of    *)
(* GET /timeline replace them (loop-desktop/src/hooks/                     *)
(* useLoopDesktop.stream.ts, useActivities.ts, useConversations.ts,        *)
(* stores/activityPipeline.ts, conversationStore.ts).  The server, which   *)
(* persists a row of the timeline as it sends the event, is the            *)
(* environment: "items" is what it has persisted.                          *)
(***************************************************************************)
EXTENDS Timeline

CONSTANTS MaxQueue,     \* bound: packets not yet handled for the server to send more
          MaxTransient, \* bound: events sent in a turn and not persisted
          MaxLoads      \* bound: timeline requests in flight

VARIABLES
    view,       \* the stores: rows of the conversation, next sequence number, live state
    selected,   \* the conversation is the one on screen
    active,     \* activeStreams has the stream of this conversation
    sending,    \* sendingConversations[conversation]
    chan,       \* packets of the stream, in order
    loads,      \* timeline requests: Asked, then the rows the server read
    transient,  \* events of the turn sent and not persisted
    phase,      \* the server's turn: idle, sent, model, acting or aborting
    request,    \* what the reply request sent asks for
    cursor,     \* server: timeline numbers given
    watched,    \* history: the whole turn was on screen and no answer replaced its rows
    intact      \* history: no cancel, stream error or failed load since rows were whole

liveVars == <<items, view, selected, active, sending, chan, loads, transient, phase, request, cursor, watched, intact>>

NoId == 0
Asked == [read |-> FALSE, rows |-> <<>>]
\* A reply request with a new message, or one that names a message to start again from
NewMessage == [kind |-> "new", anchor |-> 0]
ToolName(c) == IF c = CHOOSE d \in Calls : TRUE THEN "shell" ELSE "spawn_thread"

-----------------------------------------------------------------------------
(* The stores of one conversation *)

\* createDefaultLiveState
DefaultLiveState == [assistant |-> NoId, thought |-> NoId, status |-> None, open |-> {},
                     retry |-> NoId, skip |-> FALSE]

\* defaultConversationState
EmptyView == [rows |-> <<>>, next |-> Scale, live |-> DefaultLiveState]

\* replaceConversationEvents: rows normalized, the index and the next number recomputed
ReplaceRows(v, rows) == [v EXCEPT !.rows = SortRows(rows), !.next = NextSequenceNo(rows)]

\* pushActivity: a new row with a reserved number, its id
Push(v, row) == ReplaceRows(v, Append(v.rows, [row EXCEPT !.id = v.next, !.seq = v.next]))
Pushed(v) == v.next
PushPlain(v, kind, title) == Push(v, Row(0, 0, kind, title))

\* mutateActivity: nothing when the row is gone
At(v, id) == v.rows[CHOOSE i \in 1..Len(v.rows) : v.rows[i].id = id]
Mutate(v, id, row) ==
    [v EXCEPT !.rows = [i \in 1..Len(v.rows) |-> IF v.rows[i].id = id THEN row ELSE v.rows[i]]]
Settle(v, id) == Mutate(v, id, [At(v, id) EXCEPT !.streaming = FALSE])

\* appendStreamingText: open the draft of that kind or extend it
AppendStreamingText(v, kind, chunk) ==
    LET draft == IF kind = "assistant" THEN v.live.assistant ELSE v.live.thought
        row == [Row(0, 0, kind, IF kind = "assistant" THEN "Assistant response" ELSE "Model thought")
                EXCEPT !.body = chunk, !.streaming = TRUE]
    IN IF draft = NoId
       THEN IF kind = "assistant" THEN [Push(v, row) EXCEPT !.live.assistant = Pushed(v)]
            ELSE [Push(v, row) EXCEPT !.live.thought = Pushed(v)]
       ELSE Mutate(v, draft, [At(v, draft) EXCEPT !.body = @ \o chunk, !.streaming = TRUE])

\* Mutant: the thought stays open at a tool call
LeaveThoughtDraft(v) == v

SettleThoughtDraft(v) == [Settle(v, v.live.thought) EXCEPT !.live.thought = NoId]

SettleDrafts(v) ==
    [Settle(Settle(v, v.live.assistant), v.live.thought)
     EXCEPT !.live.assistant = NoId, !.live.thought = NoId]

\* Mutant: the drafts stay open
FinalizeLiveState(v) == [v EXCEPT !.live.status = None, !.live.open = {}, !.live.retry = NoId]

\* finalizeTurn: the drafts are settled only when the conversation is on screen
FinalizeView(v) ==
    [(IF selected THEN SettleDrafts(v) ELSE v)
     EXCEPT !.live.status = None, !.live.open = {}, !.live.retry = NoId]

-----------------------------------------------------------------------------
(* createHandleTurnEvent: the view after an event shown *)

StateTransition(v, it) ==
    IF it.status = "turn_completed" THEN FinalizeView(v)
    ELSE IF it.status \in {"turn_aborted", "turn_failed"}
    THEN PushPlain(FinalizeView([v EXCEPT !.live.skip = (it.status = "turn_aborted")]), "lifecycle", "State")
    ELSE PushPlain(v, "lifecycle", "State")

\* The retry countdown rewrites one row; the last tick forgets it
RetryEvent(v0, it) ==
    LET v == [v0 EXCEPT !.live.status = "unavailable"]
        shown == IF v.live.retry = NoId
                 THEN [PushPlain(v, "status", "unavailable") EXCEPT !.live.retry = Pushed(v)]
                 ELSE Mutate(v, v.live.retry, [At(v, v.live.retry) EXCEPT !.title = "unavailable"])
    IN IF it.success THEN [shown EXCEPT !.live.retry = NoId] ELSE shown

\* A repeated status is dropped; a 503 line rewrites the retry row; the start of
\* execution ends the thought
StatusEvent(v0, it) ==
    LET v == [v0 EXCEPT !.live.status = it.status]
        parsed == ParseStatusLine(it.status)
        settled == IF parsed.title = "Executing" THEN SettleThoughtDraft(v) ELSE v
    IN IF it.status = v0.live.status THEN v0
       ELSE IF it.status = "unavailable" THEN RetryEvent(v, [it EXCEPT !.success = FALSE])
       ELSE [(IF parsed.kind = None THEN settled ELSE PushPlain(settled, parsed.kind, parsed.title))
             EXCEPT !.live.retry = NoId]

ToolCallStart(v0, it) ==
    LET v == SettleThoughtDraft(v0)
        row == [Row(0, 0, "tool", "started")
                EXCEPT !.tool = it.tool, !.phase = "start", !.call = it.call, !.command = ToolCommand(it.tool, it.args)]
    IN [Push(v, row) EXCEPT !.live.open = IF it.call = None THEN @
                                          ELSE {o \in @ : o.call # it.call} \cup {[call |-> it.call, id |-> Pushed(v)]}]

\* The result takes over the row of its open call, else it is a row of its own; a
\* result that names a thread gives a second row
ToolResultEvent(v0, it) ==
    LET v == SettleThoughtDraft(v0)
        open == {o \in v.live.open : o.call = it.call}
        done(r) == [r EXCEPT !.title = IF it.success THEN "completed" ELSE "failed", !.tool = it.tool,
                             !.phase = "result", !.call = it.call, !.success = it.success, !.streaming = FALSE]
        call == (CHOOSE o \in open : TRUE).id
        shown == IF open = {} THEN Push(v, done(Row(0, 0, "tool", "result")))
                 ELSE [Mutate(v, call, done(At(v, call))) EXCEPT !.live.open = @ \ open]
    IN IF it.tool \in {"spawn_thread", "await_thread"} /\ it.result # None
       THEN PushPlain(shown, "thread", it.tool) ELSE shown

\* The whole message replaces the draft's text
MessageDone(v, it) ==
    LET text == MessageText(it.parts)
        row == [Row(0, 0, "assistant", "Assistant response") EXCEPT !.body = text, !.streaming = TRUE]
    IN IF text = <<>> THEN v
       ELSE IF v.live.assistant = NoId THEN [Push(v, row) EXCEPT !.live.assistant = Pushed(v)]
       ELSE Mutate(v, v.live.assistant, [At(v, v.live.assistant) EXCEPT !.body = text, !.streaming = TRUE])

TurnEvent(v, it) ==
    CASE it.type = "message" -> MessageDone(v, it)
      [] it.kind = "state_transition" -> StateTransition(v, it)
      [] it.kind \in {"model_wait_started", "model_wait_finished", "thread_status"} ->
            PushPlain(v, IF it.kind = "thread_status" THEN "thread" ELSE "lifecycle", it.kind)
      [] it.kind = "retry" -> RetryEvent(v, it)
      [] it.kind = "status" -> StatusEvent(v, it)
      [] it.kind = "thought" -> AppendStreamingText(v, "thought", it.text)
      [] it.kind = "text" -> AppendStreamingText(v, "assistant", it.text)
      [] it.kind = "tool_start" -> ToolCallStart(v, it)
      [] it.kind = "tool_result" -> ToolResultEvent(v, it)
      [] it.kind = "error" -> FinalizeView(PushPlain(v, "error", "Model execution error"))
      [] it.kind = "turn_aborted" ->
            FinalizeView([PushPlain(v, "lifecycle", "Turn aborted") EXCEPT !.live.skip = TRUE])
      [] it.kind = "turn_complete" -> FinalizeView(v)

-----------------------------------------------------------------------------
(* createHandleStreamPacket *)

Ask == Append(loads, Asked)

\* Mutant: the rows of the stream are kept
KeepStreamedRows(v) == view' = [v EXCEPT !.live.skip = FALSE] /\ UNCHANGED loads

\* The effect on isSending, run when the render that sees the change commits, before the
\* next packet: the timeline is reloaded unless the turn was aborted
ReloadAfterSending(v) ==
    /\ view' = [v EXCEPT !.live.skip = FALSE]
    /\ IF v.live.skip THEN UNCHANGED loads
       ELSE Len(loads) < MaxLoads /\ loads' = Ask

Closes == {"stream_error", "aborted", "done"}
TerminalTurnKinds == {"turn_complete", "turn_aborted", "error"}

\* The rows and marks a closing packet leaves
ClosingView(v, it) ==
    LET shown == IF ~selected \/ it.kind = "done" THEN v
                 ELSE PushPlain(v, IF it.kind = "aborted" THEN "lifecycle" ELSE "error", it.kind)
    IN FinalizeView([shown EXCEPT !.live.skip = (@ \/ it.kind = "aborted")])

HandleStreamPacket ==
    /\ chan # <<>>
    /\ chan' = Tail(chan)
    /\ LET it == Head(chan)
           closing == active /\ (it.kind \in Closes \/ (~selected /\ it.kind \in TerminalTurnKinds))
           shown == IF ~active THEN view
                    ELSE IF it.kind \in Closes THEN ClosingView(view, it)
                    ELSE IF selected THEN TurnEvent(view, it)
                    ELSE IF closing THEN FinalizeView(view) ELSE view
       IN /\ IF closing /\ sending /\ selected THEN ReloadAfterSending(shown)
             ELSE view' = shown /\ UNCHANGED loads
          /\ sending' = (sending /\ ~closing)
          /\ active' = (active /\ ~closing)
    /\ UNCHANGED <<items, selected, phase, watched, intact, transient, request, cursor>>

-----------------------------------------------------------------------------
(* Loading the timeline *)

\* The effect on the selected conversation loads its timeline; the effect on isSending
\* takes a conversation that was sending, left for one that is not, for an end of sending
Select ==
    /\ ~selected /\ Len(loads) + 1 < MaxLoads
    /\ selected' = TRUE
    /\ \E otherSending \in BOOLEAN :
         IF otherSending /\ ~sending /\ ~view.live.skip
         THEN loads' = loads \o <<Asked, Asked>> /\ UNCHANGED view
         ELSE loads' = Ask /\ view' = [view EXCEPT !.live.skip = @ /\ (sending \/ ~otherSending)]
    /\ UNCHANGED <<items, active, sending, chan, phase, request, cursor, watched, intact, transient>>

\* Another conversation is selected
Deselect ==
    /\ selected
    /\ selected' = FALSE
    /\ watched' = FALSE
    /\ UNCHANGED <<items, view, active, sending, chan, loads, phase, request, cursor, intact, transient>>

\* A new conversation: the rows on screen are dropped with their live state
NewConversation ==
    /\ selected
    /\ selected' = FALSE
    /\ view' = EmptyView
    /\ watched' = FALSE
    /\ UNCHANGED <<items, active, sending, chan, loads, phase, request, cursor, intact, transient>>

ServerReads ==
    \E i \in DOMAIN loads :
        /\ loads[i] = Asked
        /\ loads' = [loads EXCEPT ![i] = [read |-> TRUE, rows |-> items]]
        /\ UNCHANGED <<items, view, selected, active, sending, chan, phase, request, cursor, watched, intact, transient>>

\* hydrateConversationFromTimeline
Hydrated(rows) == [ReplaceRows(view, HistoryRowsToActivities(rows)) EXCEPT !.live = DefaultLiveState]

\* loadConversationHistory after its request; answers arrive in the order asked
LoadConversationHistory ==
    /\ loads # <<>> /\ Head(loads) # Asked
    /\ loads' = Tail(loads)
    /\ LET rows == Head(loads).rows
           skips == ~selected \/ (rows = <<>> /\ (active \/ sending))
       IN /\ view' = IF skips THEN view ELSE Hydrated(rows)
          /\ watched' = (watched /\ (skips \/ ~sending))
          /\ intact' = (intact \/ (~skips /\ ~active /\ phase = "idle" /\ rows = items /\ Len(loads) = 1))
    /\ UNCHANGED <<items, selected, active, sending, chan, phase, request, cursor, transient>>

LoadFails ==
    /\ loads # <<>>
    /\ loads' = Tail(loads)
    /\ intact' = FALSE
    /\ UNCHANGED <<items, view, selected, active, sending, chan, phase, request, cursor, watched, transient>>

-----------------------------------------------------------------------------
(* Sending and the server's turn *)

\* sendMessageText: the row of the prompt is pushed, or the rows after the message to retry
\* or edit are dropped; the stream is registered before it is opened.  Module DesktopStream
\* has the packets of a stream before
Sends(rows, asks) ==
    /\ selected /\ ~sending /\ ~active /\ phase = "idle" /\ chan = <<>>
    /\ cursor + 2 <= MaxItems
    /\ view' = PushPlain(ReplaceRows([view EXCEPT !.live = DefaultLiveState], rows), "lifecycle", "Turn started")
    /\ sending' = TRUE /\ active' = TRUE
    /\ phase' = "sent" /\ request' = asks
    /\ watched' = TRUE
    /\ transient' = 0
    /\ UNCHANGED <<items, selected, chan, loads, cursor, intact>>

SendMessage == Sends(PushPlain(view, "user", "User prompt").rows, NewMessage)

\* retryFromMessage, and an edit sent: rows that were loaded name their message
BranchMessage ==
    \E i \in DOMAIN view.rows, kind \in {"retry", "edit"} :
        /\ view.rows[i].kind = "user" /\ view.rows[i].message # None
        /\ Sends(SubSeq(IF kind = "retry" THEN view.rows ELSE [view.rows EXCEPT ![i].body = <<"edited">>], 1, i),
                 [kind |-> kind, anchor |-> view.rows[i].seq])

\* One row persisted and the packets sent with it; the last packets of a turn always fit
ServerEmits(persisted, packets) ==
    /\ cursor' = cursor + Len(persisted) /\ cursor' <= MaxItems
    /\ Len(chan) < MaxQueue
    /\ items' = items \o persisted
    /\ chan' = chan \o packets
    /\ transient' = transient + IF persisted = <<>> THEN Len(packets) ELSE 0
    /\ transient' <= MaxTransient
    /\ UNCHANGED <<view, selected, active, sending, loads, request, watched, intact>>

NewSeq == (cursor + 1) * Scale
Event(kind) == [Item("ui_event", NewSeq) EXCEPT !.kind = kind]
AgentSays(texts) == [Item("message", NewSeq)
                     EXCEPT !.by = "agent", !.parts = [i \in 1..Len(texts) |-> [Part("text") EXCEPT !.text = texts[i]]]]

ServerStarts ==
    /\ phase = "sent" /\ phase' = "model"
    /\ request.kind = "new"
    /\ ServerEmits(<<[Item("message", NewSeq) EXCEPT !.by = "user", !.message = "m",
                                                     !.parts = <<[Part("text") EXCEPT !.text = "hello"]>>]>>, <<>>)

\* The message starts a new branch: what follows it is archived; a message that was
\* archived before is refused
ServerBranches ==
    /\ phase = "sent" /\ request.kind # "new"
    /\ LET k == SelectInSeq(items, LAMBDA it : it.seq = request.anchor)
           text(it) == IF request.kind = "edit" THEN [it EXCEPT !.parts[1].text = "edited"] ELSE it
       IN IF k = 0 THEN /\ phase' = "idle" /\ chan' = Append(chan, Event("stream_error")) /\ UNCHANGED items
          ELSE /\ phase' = "model" /\ items' = [SubSeq(items, 1, k) EXCEPT ![k] = text(@)] /\ UNCHANGED chan
    /\ UNCHANGED <<view, selected, active, sending, loads, transient, request, cursor, watched, intact>>

\* The model thinks, says something or makes the client wait
ModelStreams ==
    /\ phase = "model" /\ UNCHANGED phase
    /\ \/ LET it == [Event("thought") EXCEPT !.text = <<Len(items)>>] IN ServerEmits(<<it>>, <<it>>)
       \/ ServerEmits(<<>>, <<[Event("text") EXCEPT !.text = <<"chunk">>]>>)
       \/ \E last \in BOOLEAN : ServerEmits(<<>>, <<[Event("retry") EXCEPT !.success = last]>>)
       \/ LET it == [Event("thread_status") EXCEPT !.status = "thinking"] IN ServerEmits(<<it>>, <<it>>)

\* The model's message is stored and announced; tools run next
ModelAnswers ==
    /\ phase = "model" /\ phase' = "acting"
    /\ \E texts \in {<<>>, <<"answer">>} : ServerEmits(<<AgentSays(texts)>>, <<AgentSays(texts)>>)

ToolsRun ==
    /\ phase = "acting" /\ UNCHANGED phase
    /\ \E c \in Calls :
         LET started == [Event("tool_start") EXCEPT !.tool = ToolName(c), !.call = c, !.args = "ls"]
             finished(ok) == [Event("tool_result") EXCEPT !.tool = ToolName(c), !.call = c, !.success = ok, !.result = "output"]
         IN \/ c \notin Started /\ ServerEmits(<<started>>, <<started>>)
            \/ c \in Started \ Finished /\ \E ok \in BOOLEAN : ServerEmits(<<finished(ok)>>, <<finished(ok)>>)
            \/ Started = {} /\ \E status \in {"executing", "unavailable"} :
                 LET it == [Event("status") EXCEPT !.status = status] IN ServerEmits(<<it>>, <<it>>)

NextIteration ==
    /\ phase = "acting" /\ phase' = "model"
    /\ Started # {} /\ Started \subseteq Finished
    /\ ServerEmits(<<>>, <<>>)

\* The turn ends by itself: its last events, then the end of the stream
ServerEnds ==
    /\ phase \in {"model", "acting"} /\ phase' = "idle"
    /\ \/ phase = "acting" /\ Started \subseteq Finished
          /\ ServerEmits(<<Event("state_transition")>>,
                         <<[Event("state_transition") EXCEPT !.status = "turn_completed"],
                           Event("turn_complete"), Event("done")>>)
       \/ ServerEmits(<<Event("error")>>, <<[Event("state_transition") EXCEPT !.status = "turn_failed"],
                                            Event("error"), Event("done")>>)

\* cancelStream: the main process ends the stream at once, the server hears of it later
CancelStream ==
    /\ selected /\ active /\ phase \in {"model", "acting"}
    /\ Len(chan) < MaxQueue
    /\ phase' = "aborting"
    /\ chan' = Append(chan, Event("aborted"))
    /\ view' = PushPlain(view, "lifecycle", "Turn cancel requested")
    /\ intact' = FALSE
    /\ UNCHANGED <<items, selected, active, sending, loads, request, cursor, watched, transient>>

\* The connection breaks: the server's turn is cancelled with it
StreamBreaks ==
    /\ phase \in {"model", "acting"}
    /\ phase' = "aborting"
    /\ Len(chan) < MaxQueue
    /\ chan' = Append(chan, Event("stream_error"))
    /\ intact' = FALSE
    /\ UNCHANGED <<items, view, selected, active, sending, loads, request, cursor, watched, transient>>

\* A command or the server's own cancel aborts the turn: the stream tells
ServerAborts ==
    \/ /\ phase \in {"model", "acting"} /\ phase' = "idle"
       /\ cursor' = cursor + 1 /\ cursor' <= MaxItems /\ Len(chan) < MaxQueue
       /\ items' = Append(items, Event("abort"))
       /\ chan' = chan \o <<Event("turn_aborted"), Event("done")>>
       /\ intact' = FALSE
       /\ UNCHANGED <<view, selected, active, sending, loads, request, watched, transient>>
    \/ /\ phase = "aborting" /\ phase' = "idle"
       /\ ServerEmits(<<Event("abort")>>, <<>>)

LiveInit ==
    /\ items = <<>>
    /\ view = EmptyView
    /\ selected \in BOOLEAN
    /\ active = FALSE /\ sending = FALSE
    /\ chan = <<>> /\ loads = <<>> /\ transient = 0
    /\ phase = "idle" /\ request = NewMessage /\ cursor = 0
    /\ watched = FALSE /\ intact = TRUE

LiveNext ==
    \/ HandleStreamPacket
    \/ Select \/ Deselect \/ NewConversation
    \/ ServerReads \/ LoadConversationHistory \/ LoadFails
    \/ SendMessage \/ BranchMessage \/ ServerStarts \/ ServerBranches \/ ModelStreams \/ ModelAnswers \/ ToolsRun \/ NextIteration
    \/ ServerEnds \/ CancelStream \/ StreamBreaks \/ ServerAborts

-----------------------------------------------------------------------------
\* The rows after the last prompt
TurnPart(rows) ==
    LET prompts == {i \in DOMAIN rows : rows[i].kind = "user"}
    IN SubSeq(rows, Max({0} \cup prompts) + 1, Len(rows))

Thoughts(rows) == LET t == SelectSeq(rows, LAMBDA r : r.kind = "thought") IN [i \in 1..Len(t) |-> t[i].body]
ToolRows(rows) == {[call |-> rows[i].call, phase |-> rows[i].phase, tool |-> rows[i].tool, success |-> rows[i].success]
                   : i \in {j \in DOMAIN rows : rows[j].kind = "tool"}}
CountTools(rows) == Len(SelectSeq(rows, LAMBDA r : r.kind = "tool"))

\* The rows built from the stream are those the timeline gives (useLoopDesktop.stream.ts:
\* "Match history grouping: once tool execution begins, next thought chunk starts a new
\* row"): while a turn runs that was on screen all along, its thoughts are cut in the same
\* rows and its tool calls are in the same state, one row each.
LiveMatchesHistory ==
    watched /\ sending /\ chan = <<>> /\ phase \in {"model", "acting"} =>
        LET live == TurnPart(view.rows)
            past == TurnPart(SortRows(HistoryRowsToActivities(items)))
        IN /\ Thoughts(live) = Thoughts(past)
           /\ ToolRows(live) = ToolRows(past)
           /\ CountTools(live) = CountTools(past)

AtRest == /\ selected /\ ~sending /\ ~active
          /\ chan = <<>> /\ loads = <<>> /\ phase = "idle"

\* Once a turn that ended by itself is over and the answers are in, the feed shows the
\* timeline the server has, however the conversation was left and selected again, and
\* whatever the stream built of it: the reload after sending repairs the live rows.
ReloadedIsHistory ==
    AtRest /\ intact /\ items # <<>> => view.rows = SortRows(HistoryRowsToActivities(items))

\* At rest no row is left open as if its text was still arriving, and no live state
\* points at a row: also after a cancel, where no reload cleans up.
NothingLeftOpen ==
    AtRest /\ watched => /\ \A i \in DOMAIN view.rows : ~view.rows[i].streaming
                         /\ view.live.assistant = NoId /\ view.live.thought = NoId
                         /\ view.live.open = {} /\ view.live.retry = NoId

\* A turn that is over leaves a feed that shows its timeline and has nothing open.
SettledFeed == ReloadedIsHistory /\ NothingLeftOpen
=============================================================================
