-------------------------------- MODULE Turn --------------------------------
(***************************************************************************)
(* One turn of the agent (loop/agent/session.go), the model client's       *)
(* streaming goroutine that feeds it (loop/agent/gemini.go) and the reader *)
(* of its event channel: the HTTP reply handler                            *)
(* (loop/handlers/conversation_handler.go) or the driver of a child thread *)
(* (loop/agent/tools/spawn_thread.go).                                     *)
(*                                                                         *)
(* The turn is a goroutine that sends events on a bounded channel with a   *)
(* plain send, so each of its steps first queues, in "todo", the sends and *)
(* the UI-event writes it makes in program order; SendEvent and            *)
(* RecordUIEvent then perform them one at a time, and the goroutine goes   *)
(* on only when the queue is empty.                                        *)
(***************************************************************************)
EXTENDS Naturals, SequencesExt, FiniteSets

CONSTANTS
    Cap,            \* capacity of the event channel and of the model stream (64 in the code)
    MaxIterations,  \* Session.MaxToolCallIterations
    MaxRetries,     \* Session.MaxModelRetries
    RetryTicks,     \* ticks of one retry delay (RetryDelay / RetryTick)
    MaxChunks,      \* bound: text or thought chunks in one model response
    MaxCalls,       \* bound: function calls in one model response
    Readers,        \* which readers to consider: a subset of {"reply", "child"}
    ModelFaults,    \* errors of the model service: a subset of {"unavailable", "fatal"}
    StoreMayFail,   \* may a message append or a history read fail by itself?
    SilentClose     \* may the client close its stream without a last event?

ASSUME CapAssumption == Cap \in Nat \ {0}
ASSUME LimitAssumption == /\ MaxIterations \in Nat \ {0}
                          /\ MaxRetries \in Nat
                          /\ RetryTicks \in Nat \ {0}
                          /\ MaxChunks \in Nat
                          /\ MaxCalls \in Nat
ASSUME EnvAssumption == /\ Readers \subseteq {"reply", "child"}
                        /\ ModelFaults \subseteq {"unavailable", "fatal"}
                        /\ StoreMayFail \in BOOLEAN
                        /\ SilentClose \in BOOLEAN

VARIABLES
    (* the turn goroutine: locals of runLoop *)
    pc,         \* the next step of runLoop
    iter,       \* iteration
    attempt,    \* attempt of the model call, from 0
    ticks,      \* ticks left of the retry delay
    state,      \* currentState
    msgId,      \* agentMsgID # ""
    partial,    \* text chunks in partialAgentText
    pending,    \* pendingCompleteAgentMsg
    agentMsg,   \* the assembled message: number of its function calls, or NoMsg
    open,       \* function calls whose handlers still run
    todo,       \* sends and UI-event writes queued by the last step
    detached,   \* emitUIEvent chose a context that the turn's cancellation does not reach
    (* the channel of turn events *)
    ch,         \* events sent and not yet read
    sent,       \* history: every event ever sent
    (* the model client's goroutine *)
    gen,        \* "idle", "running", "sending" or "closed"
    out,        \* the stream event it is about to send
    chunks,     \* chunks produced by this response
    stream,     \* its channel
    (* the store, as this turn sees it *)
    msgs,       \* messages of the conversation, from the user's prompt on
    uilog,      \* UI events recorded by the turn
    (* the reader and the context *)
    reader,     \* who reads the channel: "reply" or "child"
    reading,    \* the reader is still in its loop
    heard,      \* kind of the terminal event the reader saw, or "none"
    lost,       \* the HTTP client went away
    cancelled   \* the turn's context is done

turnVars == <<pc, iter, attempt, ticks, state, msgId, partial, pending, agentMsg, open>>
emitVars == <<todo, detached, ch, sent, uilog>>
genVars == <<gen, out, chunks, stream>>
readVars == <<reader, reading, heard, lost>>
vars == <<turnVars, emitVars, genVars, msgs, readVars, cancelled>>

-----------------------------------------------------------------------------
(* Data. *)

NoMsg == MaxCalls + 1

TurnState == {"", "turn_started", "history_ready", "model_waiting", "model_streaming",
              "message_persisted", "tool_dispatching", "tool_executing", "retry_waiting",
              "turn_completed", "turn_aborted", "turn_failed"}

Terminal == {"turn_complete", "turn_aborted", "error"}

EventKind == {"turn_started", "delta", "message_done", "tool_call_start", "tool_result",
              "status", "state_transition", "model_wait_started", "model_wait_finished",
              "retry", "thought"} \cup Terminal

\* Why a turn failed: the text of the error event, as far as a reader can tell it apart.
Cause == {"cancelled", "unavailable", "fatal", "store", "no_response", "max_iterations"}

Outcome == {"success", "retry", "error", "aborted"}

Info == TurnState \cup Cause \cup Outcome \cup {"text", "thought"}

Event == [kind : EventKind, iter : Nat, n : Nat, info : Info]
Ev(kind, i, n, info) == [kind |-> kind, iter |-> i, n |-> n, info |-> info]

Task == [op : {"send", "record"}, ev : Event]
Send(e) == <<[op |-> "send", ev |-> e]>>
Record(e) == <<[op |-> "record", ev |-> e]>>
\* The emit helpers of runLoop send the event and then persist it as a UI event.
Emit(e) == Send(e) \o Record(e)

StreamItem == [kind : {"text", "thought", "done", "error"}, n : 0 .. MaxCalls, info : Info]
Item(kind, n, info) == [kind |-> kind, n |-> n, info |-> info]

Message == [by : {"user", "agent", "partial", "tool"}, iter : Nat, calls : Nat, text : Nat]
Msg(by, i, calls, text) == [by |-> by, iter |-> i, calls |-> calls, text |-> text]

PC == {"start", "top", "history", "attempt", "call", "stream", "noresponse", "retry",
       "persist", "tools", "results", "abort", "returned", "closed"}

-----------------------------------------------------------------------------
(* The emit helpers. *)

Status(i) == Emit(Ev("status", i, 0, ""))
Transition(from, to, i) ==
    IF from = to THEN <<>> ELSE Emit(Ev("state_transition", i, 0, to))
WaitStarted(i, n) == Emit(Ev("model_wait_started", i, n, ""))
\* Mutant: an aborted wait is not reported as finished.
WaitFinishedUnlessAborted(i, n, outcome) ==
    IF outcome = "aborted" THEN <<>> ELSE Emit(Ev("model_wait_finished", i, n, outcome))
WaitFinished(i, n, outcome) == Emit(Ev("model_wait_finished", i, n, outcome))
Retry(i, n) == Send(Ev("retry", i, n, ""))

\* One status and one start event per call, then one result and one status per call.
CallStarts(i, n) ==
    [k \in 1 .. 4 * n |->
        LET call == (k + 3) \div 4
            e == IF k % 4 \in {1, 2} THEN Ev("status", i, 0, "")
                                     ELSE Ev("tool_call_start", i, call, "")
        IN  [op |-> IF k % 2 = 1 THEN "send" ELSE "record", ev |-> e]]
CallResults(i, n) ==
    [k \in 1 .. 4 * n |->
        LET call == (k + 3) \div 4
            e == IF k % 4 \in {1, 2} THEN Ev("tool_result", i, call, "")
                                     ELSE Ev("status", i, 0, "")
        IN  [op |-> IF k % 2 = 1 THEN "send" ELSE "record", ev |-> e]]

\* The goroutine is at p and has performed everything its last step queued.
At(p) == pc = p /\ todo = <<>>

\* Mutant: the return after emitError is missing.
FailGoesOn(pre, i, cause) ==
    /\ pc' = "top"
    /\ state' = "turn_failed"
    /\ todo' = pre \o Transition(state, "turn_failed", i) \o Emit(Ev("error", i, 0, cause))
\* Mutant: the failure changes the state but sends no error event.
FailSilently(pre, i, cause) ==
    /\ pc' = "returned"
    /\ state' = "turn_failed"
    /\ todo' = pre \o Transition(state, "turn_failed", i)

\* Every exit but a cancellation: emitError, after what the exit itself emits.
Fail(pre, i, cause) ==
    /\ pc' = "returned"
    /\ state' = "turn_failed"
    /\ todo' = pre \o Transition(state, "turn_failed", i) \o Emit(Ev("error", i, 0, cause))

\* Mutant: the store is called with a context that is never cancelled.
StoreResultDetached == IF StoreMayFail THEN {"ok", "store"} ELSE {"ok"}

\* What a store call made with the turn's context returns: "ok" or the cause of its error.
StoreResult ==
    IF cancelled THEN {"cancelled"}
    ELSE IF StoreMayFail THEN {"ok", "store"} ELSE {"ok"}

-----------------------------------------------------------------------------
(* The channel of turn events and the UI-event log. *)

\* Mutant: emitUIEvent always writes with the turn's context.
NeverDetached == FALSE

\* emitUIEvent writes with a detached context once the turn's own is done.
ChoosesDetached == cancelled

\* ch <- event: blocks while the buffer is full. emitUIEvent, called next, looks at
\* the turn's context to choose the one it persists with.
SendEvent ==
    /\ todo # <<>>
    /\ Head(todo).op = "send"
    /\ Len(ch) < Cap
    /\ ch' = Append(ch, Head(todo).ev)
    /\ sent' = Append(sent, Head(todo).ev)
    /\ todo' = Tail(todo)
    /\ detached' = ChoosesDetached
    /\ UNCHANGED <<turnVars, uilog, genVars, msgs, readVars, cancelled>>

\* The event is persisted, or lost when the cancellation came after emitUIEvent had
\* looked at the context and before the write committed.
RecordUIEvent ==
    /\ todo # <<>>
    /\ Head(todo).op = "record"
    /\ todo' = Tail(todo)
    /\ \/ uilog' = Append(uilog, Head(todo).ev)
       \/ cancelled /\ ~detached /\ UNCHANGED uilog
    /\ UNCHANGED <<turnVars, detached, ch, sent, genVars, msgs, readVars, cancelled>>

-----------------------------------------------------------------------------
(* The turn goroutine: runLoop. *)

StartTurn ==
    /\ At("start")
    /\ pc' = "top"
    /\ state' = "turn_started"
    /\ todo' = Send(Ev("turn_started", 0, 0, "")) \o Transition(state, "turn_started", 0)
                  \o Status(0)
    /\ UNCHANGED <<iter, attempt, ticks, msgId, partial, pending, agentMsg, open>>
    /\ UNCHANGED <<detached, ch, sent, uilog, genVars, msgs, readVars, cancelled>>

\* The head of the loop: the iteration limit first, then the cancellation.
NextIteration ==
    /\ At("top")
    /\ iter' = iter + 1
    /\ msgId' = FALSE
    /\ partial' = 0
    /\ pending' = FALSE
    /\ \/ /\ iter' > MaxIterations
          /\ Fail(<<>>, iter', "max_iterations")
       \/ /\ iter' <= MaxIterations
          /\ pc' = IF cancelled THEN "abort" ELSE "history"
          /\ UNCHANGED <<state, todo>>
    /\ UNCHANGED <<attempt, ticks, agentMsg, open>>
    /\ UNCHANGED <<detached, ch, sent, uilog, genVars, msgs, readVars, cancelled>>

BuildHistory ==
    /\ At("history")
    /\ \E r \in StoreResult :
          \/ /\ r # "ok"
             /\ Fail(<<>>, iter, r)
             /\ UNCHANGED <<attempt, agentMsg>>
          \/ /\ r = "ok"
             /\ pc' = "attempt"
             /\ attempt' = 0
             /\ agentMsg' = NoMsg
             /\ state' = "history_ready"
             /\ todo' = Transition(state, "history_ready", iter)
    /\ UNCHANGED <<iter, ticks, msgId, partial, pending, open>>
    /\ UNCHANGED <<detached, ch, sent, uilog, genVars, msgs, readVars, cancelled>>

\* Mutant: the text of the failed attempt is kept.
StartAttemptKeepingText ==
    /\ At("attempt")
    /\ pc' = "call"
    /\ pending' = FALSE
    /\ state' = "model_waiting"
    /\ todo' = Transition(state, "model_waiting", iter)
                  \o WaitStarted(iter, attempt + 1) \o Status(iter)
    /\ UNCHANGED <<iter, attempt, ticks, msgId, partial, agentMsg, open>>
    /\ UNCHANGED <<detached, ch, sent, uilog, genVars, msgs, readVars, cancelled>>

StartAttempt ==
    /\ At("attempt")
    /\ pc' = "call"
    /\ partial' = 0
    /\ pending' = FALSE
    /\ state' = "model_waiting"
    /\ todo' = Transition(state, "model_waiting", iter)
                  \o WaitStarted(iter, attempt + 1) \o Status(iter)
    /\ UNCHANGED <<iter, attempt, ticks, msgId, agentMsg, open>>
    /\ UNCHANGED <<detached, ch, sent, uilog, genVars, msgs, readVars, cancelled>>

\* Client.StreamMessage starts the streaming goroutine on a channel of its own.
CallModel ==
    /\ At("call")
    /\ pc' = "stream"
    /\ gen' = "running"
    /\ chunks' = 0
    /\ stream' = <<>>
    /\ UNCHANGED <<iter, attempt, ticks, state, msgId, partial, pending, agentMsg, open, out>>
    /\ UNCHANGED <<emitVars, msgs, readVars, cancelled>>

\* recordFirstToken: only the first output of an attempt finds the turn still waiting.
FirstToken ==
    IF state = "model_waiting" THEN Transition(state, "model_streaming", iter)
    ELSE <<>>

\* A delta is forwarded; only text counts for the partial message, and a thought is
\* persisted as a UI event and may bring a status.
ReceiveDelta ==
    /\ At("stream")
    /\ stream # <<>>
    /\ Head(stream).kind \in {"text", "thought"}
    /\ stream' = Tail(stream)
    /\ state' = "model_streaming"
    /\ LET kind == Head(stream).kind
           delta == FirstToken \o Send(Ev("delta", iter, attempt + 1, kind))
           thought == delta \o Record(Ev("thought", iter, attempt + 1, ""))
       IN  \/ kind = "text" /\ partial' = partial + 1 /\ todo' = delta
           \/ kind = "thought" /\ partial' = partial /\ todo' = thought
           \/ kind = "thought" /\ partial' = partial /\ todo' = thought \o Status(iter)
    /\ UNCHANGED <<pc, iter, attempt, ticks, msgId, pending, agentMsg, open>>
    /\ UNCHANGED <<detached, ch, sent, uilog, gen, out, chunks, msgs, readVars, cancelled>>

\* Mutant: the message is announced when it arrives, before it is stored.
ReceiveMessageAnnounced ==
    /\ At("stream")
    /\ stream # <<>>
    /\ Head(stream).kind = "done"
    /\ stream' = Tail(stream)
    /\ state' = "model_streaming"
    /\ agentMsg' = Head(stream).n
    /\ pending' = TRUE
    /\ todo' = FirstToken \o Send(Ev("message_done", iter, Head(stream).n, ""))
    /\ UNCHANGED <<pc, iter, attempt, ticks, msgId, partial, open>>
    /\ UNCHANGED <<detached, ch, sent, uilog, gen, out, chunks, msgs, readVars, cancelled>>

ReceiveMessage ==
    /\ At("stream")
    /\ stream # <<>>
    /\ Head(stream).kind = "done"
    /\ stream' = Tail(stream)
    /\ state' = "model_streaming"
    /\ agentMsg' = Head(stream).n
    /\ pending' = TRUE
    /\ todo' = FirstToken
    /\ UNCHANGED <<pc, iter, attempt, ticks, msgId, partial, open>>
    /\ UNCHANGED <<detached, ch, sent, uilog, gen, out, chunks, msgs, readVars, cancelled>>

\* Mutant: one retry too many.
MayRetryOnceMore(error) == error = "unavailable" /\ attempt <= MaxRetries
\* isServiceUnavailableError, with attempts left
MayRetry(error) == error = "unavailable" /\ attempt < MaxRetries

\* The cancellation is asked for first, then a retryable error with attempts left.
ReceiveError ==
    /\ At("stream")
    /\ stream # <<>>
    /\ Head(stream).kind = "error"
    /\ stream' = Tail(stream)
    /\ LET n == attempt + 1
           mayRetry == MayRetry(Head(stream).info)
       IN  \/ /\ cancelled
              /\ pc' = "abort"
              /\ todo' = WaitFinished(iter, n, "aborted")
              /\ UNCHANGED <<state, ticks>>
           \/ /\ ~cancelled /\ mayRetry
              /\ pc' = "retry"
              /\ ticks' = RetryTicks
              /\ state' = "retry_waiting"
              /\ todo' = WaitFinished(iter, n, "retry")
                            \o Transition(state, "retry_waiting", iter)
                            \o Status(iter) \o Retry(iter, n)
           \/ /\ ~cancelled /\ ~mayRetry
              /\ Fail(WaitFinished(iter, n, "error"), iter, Head(stream).info)
              /\ UNCHANGED ticks
    /\ UNCHANGED <<iter, attempt, msgId, partial, pending, agentMsg, open>>
    /\ UNCHANGED <<detached, ch, sent, uilog, gen, out, chunks, msgs, readVars, cancelled>>

\* Mutant: the check for a missing message is dropped.
StreamEndsUnchecked ==
    /\ At("stream")
    /\ stream = <<>>
    /\ gen = "closed"
    /\ pc' = "persist"
    /\ todo' = WaitFinished(iter, attempt + 1, "success")
    /\ UNCHANGED <<iter, attempt, ticks, state, msgId, partial, pending, agentMsg, open>>
    /\ UNCHANGED <<detached, ch, sent, uilog, genVars, msgs, readVars, cancelled>>

StreamEnds ==
    /\ At("stream")
    /\ stream = <<>>
    /\ gen = "closed"
    /\ \/ /\ agentMsg = NoMsg
          /\ pc' = "noresponse"
          /\ todo' = WaitFinished(iter, attempt + 1, "error")
       \/ /\ agentMsg # NoMsg
          /\ pc' = "persist"
          /\ todo' = WaitFinished(iter, attempt + 1, "success")
    /\ UNCHANGED <<iter, attempt, ticks, state, msgId, partial, pending, agentMsg, open>>
    /\ UNCHANGED <<detached, ch, sent, uilog, genVars, msgs, readVars, cancelled>>

NoResponse ==
    /\ At("noresponse")
    /\ \/ /\ cancelled
          /\ pc' = "abort"
          /\ UNCHANGED <<state, todo>>
       \/ /\ ~cancelled
          /\ Fail(<<>>, iter, "no_response")
    /\ UNCHANGED <<iter, attempt, ticks, msgId, partial, pending, agentMsg, open>>
    /\ UNCHANGED <<detached, ch, sent, uilog, genVars, msgs, readVars, cancelled>>

\* One tick of the retry delay: a select over the cancellation and the timer.
RetryTick ==
    /\ At("retry")
    /\ \/ /\ cancelled
          /\ pc' = "abort"
          /\ UNCHANGED <<attempt, ticks, todo>>
       \/ /\ ticks' = ticks - 1
          /\ todo' = Retry(iter, attempt + 1)
          /\ \/ ticks' > 0 /\ UNCHANGED <<pc, attempt>>
             \/ ticks' = 0 /\ pc' = "attempt" /\ attempt' = attempt + 1
    /\ UNCHANGED <<iter, state, msgId, partial, pending, agentMsg, open>>
    /\ UNCHANGED <<detached, ch, sent, uilog, genVars, msgs, readVars, cancelled>>

\* Append(ctx, agentMsg), then the end of the turn or the announcement of the calls.
PersistMessage ==
    /\ At("persist")
    /\ \E r \in StoreResult :
          \/ /\ r # "ok"
             /\ Fail(<<>>, iter, r)
             /\ UNCHANGED <<msgId, partial, pending, open, msgs>>
          \/ /\ r = "ok"
             /\ msgs' = Append(msgs, Msg("agent", iter, agentMsg, 0))
             /\ msgId' = TRUE
             /\ partial' = 0
             /\ pending' = FALSE
             /\ LET announced == Transition(state, "message_persisted", iter)
                                    \o Send(Ev("message_done", iter, agentMsg, ""))
                IN  \/ /\ agentMsg = 0
                       /\ pc' = "returned"
                       /\ state' = "turn_completed"
                       /\ todo' = announced \o Status(iter) \o Status(iter)
                            \o Transition("message_persisted", "turn_completed", iter)
                            \o Send(Ev("turn_complete", iter, 0, ""))
                       /\ UNCHANGED open
                    \/ /\ agentMsg > 0
                       /\ pc' = "tools"
                       /\ state' = "tool_executing"
                       /\ open' = 1 .. agentMsg
                       /\ todo' = announced
                            \o Transition("message_persisted", "tool_dispatching", iter)
                            \o Status(iter) \o CallStarts(iter, agentMsg)
                            \o Transition("tool_dispatching", "tool_executing", iter)
    /\ UNCHANGED <<iter, attempt, ticks, agentMsg>>
    /\ UNCHANGED <<detached, ch, sent, uilog, genVars, readVars, cancelled>>

\* ExecuteToolCalls runs the handlers in parallel; they return in any order.
ToolReturns(k) ==
    /\ At("tools")
    /\ k \in open
    /\ open' = open \ {k}
    /\ UNCHANGED <<pc, iter, attempt, ticks, state, msgId, partial, pending, agentMsg>>
    /\ UNCHANGED <<emitVars, genVars, msgs, readVars, cancelled>>

\* Mutant: a turn cancelled while its tools run aborts without storing their results.
AllToolsReturnedOrAbort ==
    /\ At("tools")
    /\ open = {}
    /\ pc' = IF cancelled THEN "abort" ELSE "results"
    /\ todo' = CallResults(iter, agentMsg)
    /\ UNCHANGED <<iter, attempt, ticks, state, msgId, partial, pending, agentMsg, open>>
    /\ UNCHANGED <<detached, ch, sent, uilog, genVars, msgs, readVars, cancelled>>

AllToolsReturned ==
    /\ At("tools")
    /\ open = {}
    /\ pc' = "results"
    /\ todo' = CallResults(iter, agentMsg)
    /\ UNCHANGED <<iter, attempt, ticks, state, msgId, partial, pending, agentMsg, open>>
    /\ UNCHANGED <<detached, ch, sent, uilog, genVars, msgs, readVars, cancelled>>

\* Mutant: a failed append of the results is ignored.
PersistResultsAnyway ==
    /\ At("results")
    /\ \E r \in StoreResult :
          msgs' = IF r = "ok" THEN Append(msgs, Msg("tool", iter, agentMsg, 0)) ELSE msgs
    /\ pc' = "top"
    /\ state' = "history_ready"
    /\ todo' = Status(iter) \o Transition(state, "history_ready", iter)
    /\ UNCHANGED <<iter, attempt, ticks, msgId, partial, pending, agentMsg, open>>
    /\ UNCHANGED <<detached, ch, sent, uilog, genVars, readVars, cancelled>>

\* Append(ctx, toolMsg): the results that the next model call needs.
PersistResults ==
    /\ At("results")
    /\ \E r \in StoreResult :
          \/ /\ r # "ok"
             /\ Fail(<<>>, iter, r)
             /\ UNCHANGED msgs
          \/ /\ r = "ok"
             /\ msgs' = Append(msgs, Msg("tool", iter, agentMsg, 0))
             /\ pc' = "top"
             /\ state' = "history_ready"
             /\ todo' = Status(iter) \o Transition(state, "history_ready", iter)
    /\ UNCHANGED <<iter, attempt, ticks, msgId, partial, pending, agentMsg, open>>
    /\ UNCHANGED <<detached, ch, sent, uilog, genVars, readVars, cancelled>>

\* persistCanceledPartialAgentMessage keeps the text of a message that was neither
\* stored nor complete; it writes with a detached context and only logs an error.
KeepsPartial == ~msgId /\ ~pending /\ partial > 0

Abort ==
    /\ At("abort")
    /\ pc' = "returned"
    /\ state' = "turn_aborted"
    /\ todo' = Transition(state, "turn_aborted", iter)
                  \o Emit(Ev("turn_aborted", iter, 0, ""))
    /\ \/ /\ KeepsPartial
          /\ msgs' = Append(msgs, Msg("partial", iter, 0, partial))
          /\ msgId' = TRUE
       \/ /\ KeepsPartial => StoreMayFail
          /\ UNCHANGED <<msgs, msgId>>
    /\ UNCHANGED <<iter, attempt, ticks, partial, pending, agentMsg, open>>
    /\ UNCHANGED <<detached, ch, sent, uilog, genVars, readVars, cancelled>>

\* defer close(ch)
CloseChannel ==
    /\ At("returned")
    /\ pc' = "closed"
    /\ UNCHANGED <<iter, attempt, ticks, state, msgId, partial, pending, agentMsg, open>>
    /\ UNCHANGED <<emitVars, genVars, msgs, readVars, cancelled>>

TurnStep ==
    \/ SendEvent \/ RecordUIEvent
    \/ StartTurn \/ NextIteration \/ BuildHistory \/ StartAttempt \/ CallModel
    \/ ReceiveDelta \/ ReceiveMessage \/ ReceiveError \/ StreamEnds \/ NoResponse
    \/ RetryTick \/ PersistMessage \/ AllToolsReturned \/ PersistResults
    \/ Abort \/ CloseChannel

-----------------------------------------------------------------------------
(* The model client's goroutine: Client.StreamMessage. *)

Offer(item) ==
    /\ gen' = "sending"
    /\ out' = item
    /\ UNCHANGED <<stream, turnVars, emitVars, msgs, readVars, cancelled>>

\* The next part of the response. The context is looked at once per streamed response,
\* so the parts of the one at hand still follow after a cancellation.
GenerateChunk(kind) ==
    /\ gen = "running"
    /\ chunks = 0 => ~cancelled
    /\ chunks < MaxChunks
    /\ chunks' = chunks + 1
    /\ Offer(Item(kind, 0, kind))

\* The response ends with n function calls; a response without any part is an error.
GenerateMessage(n) ==
    /\ gen = "running"
    /\ Offer(IF chunks = 0 /\ n = 0 THEN Item("error", 0, "fatal") ELSE Item("done", n, ""))
    /\ UNCHANGED chunks

GenerateError ==
    /\ gen = "running"
    /\ \/ cancelled /\ Offer(Item("error", 0, "cancelled"))
       \/ ~cancelled /\ \E f \in ModelFaults : Offer(Item("error", 0, f))
    /\ UNCHANGED chunks

\* Clients other than Client, such as the test doubles, close without a last event.
GenerateNothing ==
    /\ SilentClose
    /\ gen = "running"
    /\ gen' = "closed"
    /\ UNCHANGED <<out, chunks, stream, turnVars, emitVars, msgs, readVars, cancelled>>

\* Mutant: the goroutine does not return after it has sent an error.
PutStreamGoesOn ==
    /\ gen = "sending"
    /\ Len(stream) < Cap
    /\ stream' = Append(stream, out)
    /\ gen' = IF out.kind = "done" THEN "closed" ELSE "running"
    /\ UNCHANGED <<out, chunks, turnVars, emitVars, msgs, readVars, cancelled>>

\* The send on the stream; the goroutine returns after a message or an error.
PutStream ==
    /\ gen = "sending"
    /\ Len(stream) < Cap
    /\ stream' = Append(stream, out)
    /\ gen' = IF out.kind \in {"done", "error"} THEN "closed" ELSE "running"
    /\ UNCHANGED <<out, chunks, turnVars, emitVars, msgs, readVars, cancelled>>

ClientStep ==
    \/ \E kind \in {"text", "thought"} : GenerateChunk(kind)
    \/ \E n \in 0 .. MaxCalls : GenerateMessage(n)
    \/ GenerateError \/ GenerateNothing \/ PutStream

-----------------------------------------------------------------------------
(* The reader and the cancellation. *)

\* Mutant: the child driver takes the first message for the end of the turn.
LeavesEarly(e) ==
    IF reader = "reply" THEN e.kind \in Terminal
    ELSE e.kind \in {"error", "turn_aborted", "message_done"}

\* The reply handler returns at a terminal event; the child driver at a failure or an
\* abort only. Returning cancels the turn's context (defer cancel).
Leaves(e) ==
    IF reader = "reply" THEN e.kind \in Terminal ELSE e.kind \in {"error", "turn_aborted"}

ReadEvent ==
    /\ reading
    /\ ch # <<>>
    /\ ch' = Tail(ch)
    /\ heard' = IF Head(ch).kind \in Terminal THEN Head(ch).kind ELSE heard
    /\ reading' = ~Leaves(Head(ch))
    /\ cancelled' = (cancelled \/ Leaves(Head(ch)))
    /\ UNCHANGED <<turnVars, todo, detached, sent, uilog, genVars, msgs, reader, lost>>

\* sendTurnEvent fails: the event is gone and the handler returns.
WriteFails ==
    /\ reader = "reply"
    /\ reading
    /\ ch # <<>>
    /\ ch' = Tail(ch)
    /\ reading' = FALSE
    /\ lost' = TRUE
    /\ cancelled' = TRUE
    /\ UNCHANGED <<turnVars, todo, detached, sent, uilog, genVars, msgs, reader, heard>>

ReadClosed ==
    /\ reading
    /\ ch = <<>>
    /\ pc = "closed"
    /\ reading' = FALSE
    /\ cancelled' = TRUE
    /\ UNCHANGED <<turnVars, emitVars, genVars, msgs, reader, heard, lost>>

\* The HTTP client disconnects: the request's context, and with it the turn's, is done.
Disconnect ==
    /\ reader = "reply"
    /\ reading
    /\ ~lost
    /\ lost' = TRUE
    /\ cancelled' = TRUE
    /\ UNCHANGED <<turnVars, emitVars, genVars, msgs, reader, reading, heard>>

\* The handler's select takes r.Context().Done().
ReplyGivesUp ==
    /\ reader = "reply"
    /\ reading
    /\ lost
    /\ reading' = FALSE
    /\ UNCHANGED <<turnVars, emitVars, genVars, msgs, reader, heard, lost, cancelled>>

\* A child turn inherits its parent's context.
ParentCancels ==
    /\ reader = "child"
    /\ ~cancelled
    /\ cancelled' = TRUE
    /\ UNCHANGED <<turnVars, emitVars, genVars, msgs, readVars>>

ReaderStep == ReadEvent \/ WriteFails \/ ReadClosed \/ Disconnect \/ ReplyGivesUp \/ ParentCancels

-----------------------------------------------------------------------------
(* HandleUserMessage has stored the prompt and startTurn runs the goroutine. *)
Init ==
    /\ pc = "start" /\ iter = 0 /\ attempt = 0 /\ ticks = 0 /\ state = ""
    /\ msgId = FALSE /\ partial = 0 /\ pending = FALSE /\ agentMsg = NoMsg /\ open = {}
    /\ todo = <<>> /\ detached = FALSE /\ ch = <<>> /\ sent = <<>> /\ uilog = <<>>
    /\ gen = "idle" /\ out = Item("error", 0, "") /\ chunks = 0 /\ stream = <<>>
    /\ msgs = <<Msg("user", 0, 0, 0)>>
    /\ reader \in Readers /\ reading = TRUE /\ heard = "none" /\ lost = FALSE
    /\ cancelled = FALSE

Next ==
    \/ TurnStep
    \/ \E k \in 1 .. MaxCalls : ToolReturns(k)
    \/ ClientStep
    \/ ReaderStep

Spec == Init /\ [][Next]_vars

(* The Go scheduler runs every goroutine that can run; a tool handler returns, a model
   response ends or fails, and the reader keeps reading. Nothing obliges a client to
   disconnect, a write to fail or a parent to cancel. *)
Fairness ==
    /\ WF_vars(TurnStep)
    /\ WF_vars(\E k \in 1 .. MaxCalls : ToolReturns(k))
    /\ WF_vars(ClientStep)
    /\ WF_vars(ReadEvent \/ ReadClosed \/ ReplyGivesUp)

FairSpec == Spec /\ Fairness

-----------------------------------------------------------------------------
(* Properties. *)

TypeOK ==
    /\ pc \in PC
    /\ iter \in Nat /\ attempt \in Nat /\ ticks \in Nat /\ partial \in Nat /\ chunks \in Nat
    /\ state \in TurnState
    /\ agentMsg \in 0 .. NoMsg /\ open \subseteq 1 .. MaxCalls
    /\ msgId \in BOOLEAN /\ pending \in BOOLEAN /\ detached \in BOOLEAN
    /\ todo \in Seq(Task)
    /\ ch \in Seq(Event) /\ sent \in Seq(Event) /\ uilog \in Seq(Event)
    /\ gen \in {"idle", "running", "sending", "closed"}
    /\ out \in StreamItem /\ stream \in Seq(StreamItem)
    /\ msgs \in Seq(Message)
    /\ reader \in {"reply", "child"} /\ heard \in Terminal \cup {"none"}
    /\ reading \in BOOLEAN /\ lost \in BOOLEAN /\ cancelled \in BOOLEAN

Sent(kind) == \E k \in DOMAIN sent : sent[k].kind = kind

\* Whatever mix of errors, retries and cancellation ends a turn, its readers get one
\* terminal event, as the last event, and the channel is not closed before it.
TerminalIsLast ==
    /\ \A k \in DOMAIN sent : sent[k].kind \in Terminal => k = Len(sent)
    /\ pc = "closed" => \E kind \in Terminal : Sent(kind)

WaitKinds == {"model_wait_started", "model_wait_finished"}

\* The k-th event of s ends the wait that its j-th event began.
EndsWait(s, j, k) ==
    /\ s[j].kind = "model_wait_started" /\ s[k].kind = "model_wait_finished"
    /\ s[j].iter = s[k].iter /\ s[j].n = s[k].n
    /\ j < k /\ \A m \in j + 1 .. k - 1 : s[m].kind \notin WaitKinds

\* Every attempt that a reader is told to wait for is reported finished exactly once,
\* before the next attempt and before the end of the turn.
WaitsPaired ==
    /\ \A k \in DOMAIN sent : sent[k].kind = "model_wait_finished" => \E j \in 1 .. k : EndsWait(sent, j, k)
    /\ \A j \in DOMAIN sent : sent[j].kind = "model_wait_started" =>
         \/ \E k \in j .. Len(sent) : EndsWait(sent, j, k)
         \/ \A k \in DOMAIN sent : sent[k].kind \notin Terminal /\ (k > j => sent[k].kind \notin WaitKinds)

\* A reader that is shown a finished message can find it in the store: message_done is
\* sent only for a message that is already there.
DoneIsStored ==
    \A k \in DOMAIN sent : sent[k].kind = "message_done" =>
        \E m \in DOMAIN msgs : msgs[m] = Msg("agent", sent[k].iter, sent[k].n, 0)

Answered(m) ==
    msgs[m].by = "agent" /\ msgs[m].calls > 0 =>
        /\ m < Len(msgs)
        /\ msgs[m + 1].by = "tool"
        /\ msgs[m + 1].calls = msgs[m].calls

\* The model is never called with a function call of this turn that has no response.
CallsAnswered == pc \in {"call", "stream"} => \A m \in DOMAIN msgs : Answered(m)

\* Text deltas a reader was sent of the message in progress: since the model was last
\* called, unless that message has been stored and announced.
Opens == {"model_wait_started", "message_done"}
TextsIn(s) == {k \in DOMAIN s : /\ s[k].kind = "delta" /\ s[k].info = "text"
                                /\ \A j \in k .. Len(s) : s[j].kind \notin Opens}
TextInProgress == Cardinality(TextsIn(sent))

\* An aborted turn stores exactly the text its reader saw of the message in progress:
\* no text of an earlier attempt, none of a message that was already stored.
AbortKeepsText ==
    pc = "closed" /\ Sent("turn_aborted") /\ ~StoreMayFail =>
        TextInProgress = IF Last(msgs).by = "partial" THEN Last(msgs).text ELSE 0

\* The record of an abort survives the cancellation that caused it.
AbortIsRecorded ==
    pc = "closed" /\ Sent("turn_aborted") =>
        /\ \E k \in DOMAIN uilog : uilog[k].kind = "turn_aborted"
        /\ \E k \in DOMAIN uilog : uilog[k].info = "turn_aborted"

\* An abort is recorded, and keeps exactly the text that was read.
AbortIsFaithful == AbortKeepsText /\ AbortIsRecorded

\* A turn that has ended leaves no streaming goroutine behind and no stream event
\* unread, and it never starts a second one beside a running one.
StreamDrained == pc # "stream" => gen \in {"idle", "closed"} /\ stream = <<>>

StartsIn(s, i) == {k \in DOMAIN s : s[k].kind = "model_wait_started" /\ s[k].iter = i}
AttemptsOf(i) == Cardinality(StartsIn(sent, i))

\* An unavailable model is tried MaxRetries more times, no more and no fewer, before
\* the turn fails.
RetriesExhausted ==
    /\ \A i \in 1 .. MaxIterations : AttemptsOf(i) <= MaxRetries + 1
    /\ \A k \in DOMAIN sent : sent[k].kind = "error" /\ sent[k].info = "unavailable" =>
          AttemptsOf(sent[k].iter) = MaxRetries + 1

\* What a reader is told of the attempts adds up: each wait ends once, each model that is
\* given up was tried as often as it may be.
AttemptsAreTold == WaitsPaired /\ RetriesExhausted

\* Once the turn is cancelled it stores no further message and no tool results: all it
\* may add to the conversation is the partial text of the message in progress.
OnlyPartialAfterCancel ==
    [][cancelled /\ msgs' # msgs => Last(msgs').by = "partial"]_vars

\* The outcome a reader has been told.
TurnOutcome ==
    IF Sent("turn_complete") THEN "completed"
    ELSE IF Sent("turn_aborted") THEN "aborted"
    ELSE IF Sent("error") THEN "failed" ELSE "running"

Contract == INSTANCE TurnContract WITH log <- msgs, outcome <- TurnOutcome

\* The turn keeps its contract with the conversation: TurnContract says which messages
\* may follow which, and which outcome may be told of which conversation.
KeepsContract == Contract!Spec

\* A child turn always ends: its driver reads on until the channel closes.
ChildTurnEnds == reader = "child" => <>(pc = "closed" /\ ~reading)

\* A client that stays connected is told how its turn ended.
ReplyIsTold == reader = "reply" => <>(lost \/ heard # "none")

\* session.go, above Turn.Run: "The channel is closed when the turn completes or is
\* cancelled."
ChannelCloses == cancelled ~> pc = "closed"

\* session_test.go, TestSessionCancellationEmitsAbortNotError: "Should get TurnAborted,
\* NOT EventError (for context.Canceled)."
CancelIsAbort == \A k \in DOMAIN sent : ~(sent[k].kind = "error" /\ sent[k].info = "cancelled")
=============================================================================
