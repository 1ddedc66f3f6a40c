------------------------------ MODULE Timeline ------------------------------
(***************************************************************************)
(* From the rows of GET /timeline to the rows of the activity feed         *)
(* (loop-desktop/src/utils/activityTimeline.ts, parsers.ts) and the        *)
(* operators on rows the stores use (stores/activityStore.helpers.ts).     *)
(* A text is a sequence of chunks; names, commands and results are members *)
(* of small sets; wording is kept where the code branches on it.           *)
(***************************************************************************)
EXTENDS Integers, Sequences, SequencesExt, FiniteSetsExt, Lists

CONSTANTS Calls,        \* ids of tool calls
          MaxItems      \* bound: rows of a timeline

VARIABLE items          \* what GET /timeline answers: the rows the server persisted

None == "none"
Scale == 1000     \* sequence numbers: timeline_seq in thousandths

\* A row of the timeline endpoint: a message, with its parts, or a UI event
Item(type, seq) ==
    [type |-> type, seq |-> seq, by |-> None, hidden |-> FALSE, parts |-> <<>>, kind |-> None, text |-> <<>>,
     tool |-> None, call |-> None, success |-> FALSE, result |-> None, args |-> None, status |-> None,
     message |-> None, checkpoint |-> None, base |-> None, reason |-> None, patchId |-> None, paths |-> {}]

\* A part of a message: text, thought, inline_blob or function_response
Part(kind) == [kind |-> kind, text |-> None, tool |-> None, call |-> None, result |-> None]

\* A row of the feed (ActivityEvent)
Row(id, seq, kind, title) ==
    [id |-> id, seq |-> seq, kind |-> kind, title |-> title, body |-> <<>>, streaming |-> FALSE, tool |-> None,
     phase |-> None, call |-> None, success |-> FALSE, command |-> None, waiting |-> FALSE, message |-> None,
     checkpoint |-> None, base |-> None, patchId |-> None, paths |-> {}]

-----------------------------------------------------------------------------
(* Parts of a message *)

\* extractMessageText: thoughts are left out, the text of the other parts is joined
MessageText(parts) ==
    LET texts == SelectSeq(parts, LAMBDA p : p.kind # "thought" /\ p.text # None)
    IN [i \in 1..Len(texts) |-> texts[i].text]

\* extractMessageImages
MessageImages(parts) == SelectSeq(parts, LAMBDA p : p.kind = "inline_blob")

\* parseStatusLine: the row a status line gives, None for lines other events stand for
ParseStatusLine(status) ==
    CASE status \in {"thinking", "tool 1/2"} -> [kind |-> None, title |-> None]
      [] status = "turn complete" -> [kind |-> "lifecycle", title |-> "Turn completed"]
      [] status = "executing" -> [kind |-> "lifecycle", title |-> "Executing"]
      [] status \in {"model call started", "model produced final response"} ->
            [kind |-> "lifecycle", title |-> status]
      [] status = "[thread" -> [kind |-> "thread", title |-> status]
      [] OTHER -> [kind |-> "status", title |-> status]

\* summarizeToolBody: what the title says of a result that is nothing, plain text or
\* a JSON object known by the field the code looks for
SummaryTitle(tool, result, failed) ==
    LET json == result \notin {None, "text"}
    IN CASE failed \/ result = "error" -> "error"
         [] ~failed /\ json /\ result # "error" /\ tool = "request_user_input" -> "input required"
         [] ~failed /\ json /\ result # "error" /\ tool = "update_plan" -> "plan updated"
         [] ~failed /\ json /\ result # "error" /\ tool = "parallel_tool_use" -> "parallel run"
         [] ~failed /\ json /\ result # "error" /\ tool = "read_file" -> "file read"
         [] OTHER -> CASE result = "output" -> IF tool = "exec_command" THEN "exec result" ELSE "output"
                       [] result = "message" -> "result"
                       [] result = None -> None
                       [] OTHER -> "raw"

\* parseToolCommand: the tools whose arguments name what the row shows
ToolCommand(tool, args) ==
    IF tool \in {"shell", "exec_command", "apply_patch", "parallel_tool_use", "read_file"} THEN args ELSE None

\* mergeToolTags is left out: tags decorate a row.

-----------------------------------------------------------------------------
(* historyRowsToActivities: one step per row of the timeline *)

\* collectPersistedToolResultCallIDs, over all rows before the first is turned
PersistedResults(input) ==
    {input[i].call : i \in {j \in DOMAIN input : input[j].kind = "tool_result"}} \ {None}

\* A user or agent message with text or images is a row
MessageRow(it) ==
    [Row(it.seq, it.seq, IF it.by = "user" THEN "user" ELSE "assistant",
         IF it.by = "user" THEN "User prompt" ELSE "Assistant response")
     EXCEPT !.body = IF MessageText(it.parts) = <<>> THEN <<"(Images attached)">> ELSE MessageText(it.parts),
            !.message = it.message, !.checkpoint = IF it.by = "user" THEN it.checkpoint ELSE None]

\* toolMessageToActivities: the responses of a tool message no persisted result covers
ToolMessageRows(it, persisted) ==
    LET shown == SelectSeq([k \in 1..Len(it.parts) |-> k],
                     LAMBDA k : it.parts[k].kind = "function_response" /\ it.parts[k].call \notin persisted)
        row(k) == LET p == it.parts[k]
                      failed == SummaryTitle(p.tool, p.result, FALSE) = "error"
                  IN [Row(it.seq + k - 1, it.seq + k - 1, "tool", IF failed THEN "failed" ELSE "completed")
                      EXCEPT !.tool = p.tool, !.phase = "result", !.call = p.call, !.success = ~failed,
                             !.message = it.message]
    IN [i \in 1..Len(shown) |-> row(shown[i])]

AddMessage(s, it, persisted) ==
    CASE it.by = "tool" -> [s EXCEPT !.rows = @ \o ToolMessageRows(it, persisted)]
      [] it.by \in {"user", "agent"} ->
           IF (it.by = "user" /\ it.hidden)
              \/ (MessageText(it.parts) = <<>> /\ MessageImages(it.parts) = <<>>)
           THEN s ELSE [s EXCEPT !.rows = Append(@, MessageRow(it))]

\* A row that ends the search for a thought to continue
ThoughtBoundary(r) ==
    \/ r.kind \in {"tool", "user", "assistant"}
    \/ r.kind = "lifecycle" /\ r.title \in {"Turn completed", "Turn aborted"}
    \/ r.kind = "status" /\ r.title = "turn started"

\* appendThoughtChunk: the chunk continues the last thought unless a boundary follows it
AppendThoughtChunk(s, it) ==
    LET rows == s.rows
        open == {i \in DOMAIN rows : rows[i].kind = "thought"
                                     /\ \A j \in (i + 1)..Len(rows) : ~ThoughtBoundary(rows[j])}
    IN IF it.text = <<>> THEN s
       ELSE IF open # {} THEN [s EXCEPT !.rows[Max(open)].body = @ \o it.text]
       ELSE [s EXCEPT !.rows = Append(@, [Row(it.seq, it.seq, "thought", "Model thought") EXCEPT !.body = it.text])]

AddToolStart(s, it) ==
    LET row == [Row(it.seq, it.seq, "tool", "started")
                EXCEPT !.tool = it.tool, !.phase = "start", !.call = it.call,
                       !.command = ToolCommand(it.tool, it.args), !.message = it.message]
    IN [rows |-> Append(s.rows, row),
        open |-> IF it.call = None THEN s.open
                 ELSE {o \in s.open : o.call # it.call} \cup {[call |-> it.call, at |-> Len(s.rows) + 1]}]

\* Mutant: the result is a row of its own
AddToolResultApart(s, it) ==
    [s EXCEPT !.rows = Append(@, [Row(it.seq, it.seq, "tool", "completed")
                                  EXCEPT !.call = it.call, !.phase = "result", !.success = it.success])]

\* The result of an open call takes over its row, which moves to the result's place
AddToolResult(s, it) ==
    LET title  == IF it.success THEN "completed" ELSE "failed"
        closes == {o \in s.open : o.call = it.call}
        merged(r) == [r EXCEPT !.seq = it.seq, !.title = title, !.tool = it.tool, !.phase = "result",
                               !.success = it.success, !.message = it.message,
                               !.command = IF @ = None THEN ToolCommand(it.tool, it.args) ELSE @]
    IN IF closes # {}
       THEN LET o == CHOOSE c \in closes : TRUE
            IN [rows |-> [s.rows EXCEPT ![o.at] = merged(@)], open |-> s.open \ closes]
       ELSE [s EXCEPT !.rows = Append(@, merged([Row(it.seq, it.seq, "tool", title) EXCEPT !.call = it.call]))]

\* The other UI events: a row of a fixed kind and title, with its checkpoint
TurnEventTitle(it) ==
    CASE it.kind = "state_transition" -> <<"lifecycle", "State">>
      [] it.kind = "model_wait_started" -> <<"lifecycle", "Model wait started">>
      [] it.kind = "model_wait_finished" -> <<IF it.result = "error" THEN "error" ELSE "status", "Model wait finished">>
      [] it.kind = "approval_request" -> <<"lifecycle", "Command approval required">>
      [] it.kind = "error" -> <<"error", "Agent error">>
      [] it.kind = "abort" -> <<"lifecycle", "Turn aborted">>

CheckpointTitle(it) ==
    LET undo == it.reason = "undo_latest"
    IN CASE it.kind = "checkpoint_created" -> <<"lifecycle", "Checkpoint created">>
         [] it.kind = "checkpoint_restored" ->
              <<"lifecycle", IF undo THEN "Undo restored checkpoint" ELSE "Checkpoint restored">>
         [] it.kind = "checkpoint_restore_failed" ->
              <<"error", IF undo THEN "Undo restore failed" ELSE "Checkpoint restore failed">>
         [] it.kind = "workspace_changes_applied" ->
              <<"lifecycle", IF it.reason = "manual_revert" THEN "Selected changes reverted"
                             ELSE "Workspace changes applied">>

CheckpointKinds == {"checkpoint_created", "checkpoint_restored", "checkpoint_restore_failed", "workspace_changes_applied"}
PlainRow(it) ==
    LET fixed == IF it.kind \in CheckpointKinds THEN CheckpointTitle(it) ELSE TurnEventTitle(it)
    IN [Row(it.seq, it.seq, fixed[1], fixed[2])
        EXCEPT !.message = it.message, !.checkpoint = it.checkpoint, !.base = it.base, !.patchId = it.patchId,
               !.paths = it.paths, !.body = it.text]

\* A status line gives the row of parseStatusLine; a thread status always gives one
AddStatus(s, it) ==
    LET parsed == ParseStatusLine(it.status)
    IN IF parsed.kind # None THEN [s EXCEPT !.rows = Append(@, Row(it.seq, it.seq, parsed.kind, parsed.title))]
       ELSE IF it.kind = "thread_status" THEN [s EXCEPT !.rows = Append(@, Row(it.seq, it.seq, "thread", it.status))]
       ELSE s

AddItem(s, it, persisted) ==
    CASE it.type = "message" -> AddMessage(s, it, persisted)
      [] it.kind = "thought" -> AppendThoughtChunk(s, it)
      [] it.kind = "tool_start" -> AddToolStart(s, it)
      [] it.kind = "tool_result" -> AddToolResult(s, it)
      [] it.kind \in {"status", "thread_status"} -> AddStatus(s, it)
      [] OTHER -> [s EXCEPT !.rows = Append(@, PlainRow(it))]

HistoryRowsToActivities(input) ==
    LET persisted == PersistedResults(input)
    IN FoldLeft(LAMBDA s, it : AddItem(s, it, persisted), [rows |-> <<>>, open |-> {}], input).rows

-----------------------------------------------------------------------------
(* Rows of one conversation: stores/activityStore.helpers.ts *)

\* sortActivityEvents and normalizeConversationEvents: by sequence number, then id; rows
\* alike keep their order, and the place of a row is the number of rows up to it
UpTo(rows, i, j) ==
    \/ rows[i].seq < rows[j].seq
    \/ rows[i].seq = rows[j].seq /\ (rows[i].id < rows[j].id \/ (rows[i].id = rows[j].id /\ i <= j))
SortRows(rows) ==
    LET place(i) == Cardinality({j \in DOMAIN rows : UpTo(rows, j, i)})
    IN [k \in 1..Len(rows) |-> rows[CHOOSE i \in DOMAIN rows : place(i) = k]]

\* getNextActivitySequenceNo: the whole number after the highest
NextSequenceNo(rows) == (Max({0} \cup {rows[i].seq : i \in DOMAIN rows}) \div Scale + 1) * Scale

\* annotateActivitiesWithPendingApprovals: the last started calls of each command wait,
\* as many as there are approvals for it
AnnotateApprovals(rows, pending) ==
    LET waits(i) == /\ rows[i].phase = "start" /\ rows[i].command # None
                    /\ Cardinality({j \in i..Len(rows) : /\ rows[j].phase = "start"
                                                         /\ rows[j].tool = rows[i].tool
                                                         /\ rows[j].command = rows[i].command})
                       <= Len(SelectSeq(pending, LAMBDA a : a.tool = rows[i].tool /\ a.command = rows[i].command))
    IN [i \in 1..Len(rows) |-> IF rows[i].tool = None THEN rows[i] ELSE [rows[i] EXCEPT !.waiting = waits(i)]]

\* buildActivityGroups: the first row and every user message start a group
BuildActivityGroups(rows) ==
    LET sorted == SortRows(rows)
        heads == Only([i \in DOMAIN sorted |-> i], {i \in DOMAIN sorted : i = 1 \/ sorted[i].kind = "user"})
        end(g) == IF g < Len(heads) THEN heads[g + 1] - 1 ELSE Len(sorted)
    IN [g \in DOMAIN heads |-> [i \in 1..(end(g) - heads[g] + 1) |-> sorted[heads[g] + i - 1].id]]

\* visibleEventIdsForGroup, of the rows that are stored by their ids
VisibleIds(group, rows, hideLifecycle) ==
    Only(group, {r.id : r \in {q \in rows : hideLifecycle => q.kind # "lifecycle"}})

\* buildActivityRenderGroups for one group: the head, what lies before the last
\* assistant row folded together, that row, and what follows it
RenderGroup(ids, rows, active) ==
    LET single(id) == [type |-> "single", ids |-> <<id>>, expanded |-> FALSE]
        last == Max({0} \cup {i \in 2..Len(ids) : \E r \in rows : r.id = ids[i] /\ r.kind = "assistant"})
        upTo == IF last = 0 THEN Len(ids) ELSE last - 1
        middle == SubSeq(ids, 2, upTo)
        rest == IF last = 0 THEN <<>> ELSE SubSeq(ids, last, Len(ids))
    IN <<single(ids[1])>>
       \o (IF middle = <<>> THEN <<>> ELSE <<[type |-> "intermediate", ids |-> middle, expanded |-> active]>>)
       \o [i \in 1..Len(rest) |-> single(rest[i])]

BuildRenderGroups(groups, rows, hideLifecycle, isSending) ==
    LET all == [g \in DOMAIN groups |-> VisibleIds(groups[g], rows, hideLifecycle)]
        visible == Only(all, Range(all) \ {<<>>})
    IN FlattenSeq([g \in DOMAIN visible |-> RenderGroup(visible[g], rows, isSending /\ g = Len(visible))])

-----------------------------------------------------------------------------
(* Timelines the server writes: rows in the order of their sequence numbers *)

NextSeq == (Len(items) + 1) * Scale
Started == {items[i].call : i \in {j \in DOMAIN items : items[j].kind = "tool_start"}}
Finished == PersistedResults(items)

Append1(it) == Len(items) < MaxItems /\ items' = Append(items, it)

UserMessage ==
    \E hidden \in BOOLEAN, kind \in {"text", "inline_blob"} :
        Append1([Item("message", NextSeq)
                 EXCEPT !.by = "user", !.hidden = hidden, !.message = "m",
                        !.parts = <<[Part(kind) EXCEPT !.text = IF kind = "text" THEN "hello" ELSE None]>>])

AgentMessage ==
    \E kind \in {"text", "thought", "function_call"} :
        Append1([Item("message", NextSeq)
                 EXCEPT !.by = "agent", !.parts = <<[Part(kind) EXCEPT !.text = IF kind = "function_call" THEN None ELSE "answer"]>>])

\* The tool message repeats the results of the calls made since the last one
ToolMessage ==
    \E c \in Started, result \in {"error", "output"} :
        Append1([Item("message", NextSeq)
                 EXCEPT !.by = "tool",
                        !.parts = <<[Part("function_response") EXCEPT !.tool = "shell", !.call = c, !.result = result]>>])

\* No model output while a call is open
ThoughtChunk ==
    /\ Started \subseteq Finished
    /\ Append1([Item("ui_event", NextSeq) EXCEPT !.kind = "thought", !.text = <<Len(items)>>])

ToolStart ==
    \E c \in Calls \ (Started \cup Finished) :
        Append1([Item("ui_event", NextSeq) EXCEPT !.kind = "tool_start", !.tool = "shell", !.call = c, !.args = "ls"])

ToolResult ==
    \E c \in Calls \ Finished, success \in BOOLEAN :
        Append1([Item("ui_event", NextSeq)
                 EXCEPT !.kind = "tool_result", !.tool = "shell", !.call = c, !.success = success, !.result = "output"])

StatusLine ==
    \E kind \in {"status", "thread_status"}, status \in {"thinking", "turn complete", "turn started", "[thread"} :
        Append1([Item("ui_event", NextSeq) EXCEPT !.kind = kind, !.status = status])

OtherEvent ==
    \E kind \in {"state_transition", "abort", "checkpoint_created"} :
        Append1([Item("ui_event", NextSeq) EXCEPT !.kind = kind])

TimelineInit == items = <<>>

TimelineNext ==
    \/ UserMessage \/ AgentMessage \/ ToolMessage
    \/ ThoughtChunk \/ ToolStart \/ ToolResult \/ StatusLine \/ OtherEvent

-----------------------------------------------------------------------------
RowsOfCall(rows, c) == SelectSeq(rows, LAMBDA r : r.call = c)

\* A tool call is one row of the feed, whatever of its start, its result and the tool
\* message that repeats the result the timeline holds: a persisted result leaves one
\* row, which shows its outcome, and no call has two finished rows.
OneRowPerCall(rows) ==
    \A c \in Calls :
        LET mine == RowsOfCall(rows, c)
        IN /\ c \in Finished => /\ Len(mine) = 1
                                /\ mine[1].phase = "result"
                                /\ \E i \in DOMAIN items : /\ items[i].kind = "tool_result" /\ items[i].call = c
                                                           /\ mine[1].success = items[i].success
           /\ c \in Started => mine # <<>>

\* The chunks of a thought are kept, in order, and two chunks share a row exactly when
\* nothing the reader takes for a break lies between them: a message that is shown, a
\* tool row, or the start or end of a turn.
Breaks(it) ==
    \/ it.type = "message" /\ it.by = "tool" /\ \E k \in DOMAIN it.parts : it.parts[k].call \notin Finished
    \/ it.type = "message" /\ it.by # "tool" /\ ~it.hidden
       /\ (MessageText(it.parts) # <<>> \/ MessageImages(it.parts) # <<>>)
    \/ it.kind \in {"tool_start", "tool_result", "abort"}
    \/ it.kind = "status" /\ it.status \in {"turn started", "turn complete"}
    \/ it.kind = "thread_status" /\ it.status \in {"turn started", "turn complete"}

ThoughtsGrouped(rows) ==
    LET thoughts == SelectSeq(rows, LAMBDA r : r.kind = "thought")
        chunks   == SelectSeq([i \in 1..Len(items) |-> i], LAMBDA i : items[i].kind = "thought")
    IN /\ FlattenSeq([i \in 1..Len(thoughts) |-> thoughts[i].body])
            = [i \in 1..Len(chunks) |-> items[chunks[i]].text[1]]
       /\ \A k \in 1..(Len(chunks) - 1) :
            (\E i \in DOMAIN thoughts : {items[chunks[k]].text[1], items[chunks[k + 1]].text[1]} \subseteq ToSet(thoughts[i].body))
            <=> ~\E j \in (chunks[k] + 1)..(chunks[k + 1] - 1) : Breaks(items[j])

\* The feed shows every visible row once and in the order of the timeline: the groups
\* built for display, folded or not, are the visible rows cut into runs, and while the
\* conversation is sending only its last folded group opens by itself.
RenderKeepsRows(rows) ==
    \A hide \in BOOLEAN :
        LET visible == SelectSeq(rows, LAMBDA r : hide => r.kind # "lifecycle")
            groups  == BuildRenderGroups(BuildActivityGroups(rows), ToSet(rows), hide, TRUE)
        IN /\ FlattenSeq([g \in 1..Len(groups) |-> groups[g].ids]) = [i \in 1..Len(visible) |-> visible[i].id]
           /\ \A g \in DOMAIN groups : groups[g].expanded =>
                ~\E h \in (g + 1)..Len(groups) : groups[h].type = "intermediate"

\* What the server recorded is in the feed once and in its place: tool calls, the chunks of
\* thoughts, and the rows as they are grouped for display.
FeedShowsTimeline ==
    LET rows == SortRows(HistoryRowsToActivities(items))
    IN OneRowPerCall(rows) /\ ThoughtsGrouped(rows) /\ RenderKeepsRows(rows)

=============================================================================
