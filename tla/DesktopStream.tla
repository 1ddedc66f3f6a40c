--------------------------- MODULE DesktopStream ---------------------------
(***************************************************************************)
(* How a message of the composer or of the queue becomes a reply stream:   *)
(* the renderer (loop-desktop/src/hooks/useLoopDesktop.ts, lib/            *)
(* loopClient.ts, stores/streamingStore.ts, composerDraftStore.ts) and the *)
(* main process (electron/main.cjs), which talk over two ordered channels. *)
(* One conversation; the client's id of a stream is its message.           *)
(***************************************************************************)
EXTENDS Integers, Sequences, FiniteSets, SequencesExt, Lists

CONSTANTS
    MaxMessages, \* bound: messages the user writes
    Risky        \* what the user may also do: "steer_others" steers with other messages
                 \* queued, "select_closing" selects the conversation with messages queued
                 \* after its stream announced the end and before it ended

ASSUME MessagesAssumption == MaxMessages \in Nat

VARIABLES
    desk,       \* renderer: queue, activeStreams entry, sending flag, packet listeners and
                \* the messages taken to be sent, in order
    front,      \* the conversation is on screen
    toMain,     \* requests of the renderer
    toRenderer, \* answers and packets of the main process
    streams,    \* main: state of the stream of each message
    current,    \* main: streamIdByConversationKey
    posted,     \* main: messages whose reply was requested from the server
    refused,    \* messages whose stream could not start, reported in the feed
    written     \* messages the user wrote

deskVars == <<desk, front, toMain, toRenderer, streams, current, posted, refused, written>>

NoStream == [stream |-> 0, listener |-> 0]
Messages == 1..MaxMessages

\* activeStreams[conversation] while the stream is opened: cancel and dispose do nothing
Placeholder(m) == [stream |-> m, listener |-> 0]

StartRequest(m) == [type |-> "start", id |-> m, stream |-> m]
AskRequest == [type |-> "ask", id |-> 0, stream |-> 0]
Answer(type, m, s) == [type |-> type, id |-> m, stream |-> s]
Packet(kind, s) == [type |-> kind, id |-> 0, stream |-> s]
NotAsked(r) == r.type \notin {"ask", "answered"}
Wanted(list) == Only(list, {r \in Range(list) : NotAsked(r)})

-----------------------------------------------------------------------------
(* The renderer *)

\* sendMessageText up to openReplyStream: the stream is registered and its packets are
\* listened to before the main process is asked to start it
SendMessageText(d, m) ==
    [d EXCEPT !.active = Placeholder(m), !.sending = TRUE, !.taken = Append(@, m),
              !.listeners = @ \cup {[id |-> m, stream |-> m]}]

\* Mutant: the queue is sent while a stream runs
AutoProcessesAlways(d) == front' /\ d.queue # <<>>

\* The effects of a render, run before the next message of the main process: the first
\* queued message is sent when nothing runs; else, without a stream, the main process is
\* asked for one, and the answer to an earlier question is no longer wanted
AutoProcesses(d) == front' /\ ~d.sending /\ d.active = NoStream /\ d.queue # <<>>
RunEffects(d, requests, rest) ==
    /\ desk' = IF AutoProcesses(d) THEN SendMessageText([d EXCEPT !.queue = Tail(@)], Head(d.queue)) ELSE d
    /\ toMain' = Wanted(toMain) \o requests \o
                 (IF AutoProcesses(d) THEN <<StartRequest(Head(d.queue))>>
                  ELSE IF front' /\ d.active = NoStream THEN <<AskRequest>> ELSE <<>>)
    /\ toRenderer' = Wanted(rest)

\* A user is slower than a round trip between the two processes
Quiet == /\ toMain = <<>>
         /\ \A i \in DOMAIN toRenderer : toRenderer[i].type \in {"event", "complete", "done", "error", "aborted"}

\* The main process streams what the renderer no longer follows
Unfollowed == desk.active = NoStream /\ current # 0

\* A new message also waits for the active stream to be forgotten; a retry is forced and
\* looks at the flag alone, so that the flag decides
SubmitMessage ==
    /\ Quiet /\ front /\ ~desk.sending
    /\ written < MaxMessages /\ written' = written + 1
    /\ UNCHANGED front
    /\ RunEffects(SendMessageText(desk, written'), <<StartRequest(written')>>, toRenderer)
    /\ UNCHANGED <<streams, current, posted, refused>>

\* queueDraftMessage, sendToolResponseSuggestion while a turn runs: no render of the hook
EnqueueConversationMessage ==
    /\ Quiet /\ front /\ desk.sending
    /\ written < MaxMessages /\ written' = written + 1
    /\ desk' = [desk EXCEPT !.queue = Append(@, written')]
    /\ UNCHANGED <<front, toMain, toRenderer, streams, current, posted, refused>>

RemoveQueuedMessage ==
    /\ Quiet /\ front
    /\ \E i \in DOMAIN desk.queue : desk' = [desk EXCEPT !.queue = RemoveAt(@, i)]
    /\ UNCHANGED <<front, toMain, toRenderer, streams, current, posted, refused, written>>

ReorderQueuedMessage ==
    /\ Quiet /\ front
    /\ \E i \in 1..(Len(desk.queue) - 1) :
         desk' = [desk EXCEPT !.queue = [@ EXCEPT ![i] = desk.queue[i + 1], ![i + 1] = desk.queue[i]]]
    /\ UNCHANGED <<front, toMain, toRenderer, streams, current, posted, refused, written>>

CancelActive ==
    /\ Quiet /\ front /\ desk.active.listener # 0
    /\ toMain' = Append(toMain, [type |-> "cancel", id |-> 0, stream |-> desk.active.stream])
    /\ UNCHANGED <<desk, front, toRenderer, streams, current, posted, refused, written>>

\* steerQueuedMessage up to the answer of cancel; the stream it disposes of is that of now
SteerQueuedMessage ==
    /\ Quiet /\ front /\ desk.active.listener # 0
    /\ \E i \in DOMAIN desk.queue :
         /\ Len(desk.queue) = 1 \/ "steer_others" \in Risky
         /\ desk' = [desk EXCEPT !.queue = RemoveAt(@, i), !.disposes = desk.active.listener]
         /\ toMain' = Append(toMain, [type |-> "cancel", id |-> desk.queue[i], stream |-> desk.active.stream])
    /\ UNCHANGED <<front, toRenderer, streams, current, posted, refused, written>>

\* Its continuation forgets whatever stream is active and clears the flag; the effects of
\* that render run first and may take a queued message, whose sending then follows
SteerContinues(m) ==
    LET freed == [desk EXCEPT !.active = NoStream, !.sending = FALSE, !.disposes = 0,
                              !.listeners = {l \in @ : l.id # desk.disposes}]
        next == IF freed.queue = <<>> THEN <<>> ELSE <<Head(freed.queue)>>
        steered == SendMessageText(freed, m)
    IN RunEffects(IF next = <<>> THEN steered
                  ELSE SendMessageText([steered EXCEPT !.queue = Tail(@)], next[1]),
                  [i \in 1..(1 + Len(next)) |-> StartRequest((<<m>> \o next)[i])], Tail(toRenderer))

ShowConversation ==
    /\ Quiet /\ ~front
    /\ ~Unfollowed \/ desk.queue = <<>> \/ "select_closing" \in Risky
    /\ front' = TRUE
    /\ RunEffects(desk, <<>>, toRenderer)
    /\ UNCHANGED <<streams, current, posted, refused, written>>

HideConversation ==
    /\ Quiet /\ front
    /\ front' = FALSE
    /\ RunEffects(desk, <<>>, toRenderer)
    /\ UNCHANGED <<streams, current, posted, refused, written>>

\* Any other change the hook subscribes to renders it again
Rerender ==
    /\ UNCHANGED <<front, streams, current, posted, refused, written>>
    /\ RunEffects(desk, <<>>, toRenderer)

\* Mutant: the conversation stays sending
FinalizeStreamOnly(d) == [d EXCEPT !.active = NoStream, !.listeners = {l \in @ : l.id # d.active.listener}]

\* Mutant: the listener is not disposed of
FinalizeUndisposed(d) == [d EXCEPT !.active = NoStream, !.sending = FALSE]

\* finalizeTurn with closeStream
FinalizeTurn(d) ==
    [d EXCEPT !.active = NoStream, !.sending = FALSE, !.listeners = {l \in @ : l.id # d.active.listener}]

\* handleStreamPacket, by the listener of the stream
ClosesStream(p) == p.type \in {"done", "error", "aborted"} \/ (p.type = "complete" /\ ~front)
Handles(p) == /\ desk.active.stream = p.stream
              /\ \E l \in desk.listeners : l.stream = p.stream
HandlePacket(p) ==
    /\ p.type \in {"event", "complete", "done", "error", "aborted"}
    /\ UNCHANGED front
    /\ IF Handles(p) /\ ClosesStream(p) THEN RunEffects(FinalizeTurn(desk), <<>>, Tail(toRenderer))
       ELSE IF Handles(p) /\ front THEN RunEffects(desk, <<>>, Tail(toRenderer))
       ELSE toRenderer' = Tail(toRenderer) /\ UNCHANGED <<desk, toMain>>
    /\ UNCHANGED <<streams, current, posted, refused, written>>

\* openReplyStream after its request: the listener follows the stream the main process
\* names, which becomes the active one
StreamOpened(a) ==
    /\ a.type = "started"
    /\ desk' = [desk EXCEPT !.active = [stream |-> a.stream, listener |-> a.id],
                            !.listeners = {l \in @ : l.id # a.id} \cup {[id |-> a.id, stream |-> a.stream]}]
    /\ toRenderer' = Tail(toRenderer)
    /\ UNCHANGED <<front, toMain, streams, current, posted, refused, written>>

StreamRefused(a) ==
    /\ a.type = "refused"
    /\ refused' = refused \cup {a.id}
    /\ UNCHANGED front
    /\ RunEffects(FinalizeTurn([desk EXCEPT !.listeners = {l \in @ : l.id # a.id}]), <<>>, Tail(toRenderer))
    /\ UNCHANGED <<streams, current, posted, written>>

CancelAnswered(a) ==
    /\ a.type = "canceled"
    /\ UNCHANGED front
    /\ IF a.id = 0 THEN RunEffects(desk, <<>>, Tail(toRenderer)) ELSE SteerContinues(a.id)
    /\ UNCHANGED <<streams, current, posted, refused, written>>

\* The reconnect effect after getActiveReplyStream
Reconnect(a) ==
    /\ a.type = "answered"
    /\ UNCHANGED front
    /\ IF a.stream = 0 \/ desk.active # NoStream
       THEN toRenderer' = Tail(toRenderer) /\ UNCHANGED <<desk, toMain>>
       ELSE RunEffects([desk EXCEPT !.active = [stream |-> a.stream, listener |-> -a.stream], !.sending = TRUE,
                                    !.listeners = @ \cup {[id |-> -a.stream, stream |-> a.stream]}],
                       <<>>, Tail(toRenderer))
    /\ UNCHANGED <<streams, current, posted, refused, written>>

RendererReceives ==
    /\ toRenderer # <<>>
    /\ LET a == Head(toRenderer) IN
         HandlePacket(a) \/ StreamOpened(a) \/ StreamRefused(a) \/ CancelAnswered(a) \/ Reconnect(a)

-----------------------------------------------------------------------------
(* The main process *)

HasController(s) == s # 0 /\ streams[s] \in {"running", "closing"}
Requested(type) == toMain # <<>> /\ Head(toMain).type = type

\* streamReplyToRenderer up to its fetch
StreamReply(s) ==
    /\ streams' = [streams EXCEPT ![s] = "running"]
    /\ current' = s
    /\ posted' = Append(posted, s)

\* loop-api:start-stream: a stream that runs in the conversation is reused
StartStream ==
    /\ Requested("start")
    /\ LET r == Head(toMain) IN
         IF HasController(current)
         THEN /\ toRenderer' = Append(toRenderer, Answer("started", r.id, current))
              /\ UNCHANGED <<streams, current, posted>>
         ELSE /\ StreamReply(r.stream)
              /\ toRenderer' = Append(toRenderer, Answer("started", r.id, r.stream))
    /\ toMain' = Tail(toMain)
    /\ UNCHANGED <<desk, front, refused, written>>

\* The same with a base URL that is not valid
RefuseStream ==
    /\ Requested("start")
    /\ toRenderer' = Append(toRenderer, Answer("refused", Head(toMain).id, 0))
    /\ toMain' = Tail(toMain)
    /\ UNCHANGED <<desk, front, streams, current, posted, refused, written>>

GetActiveStream ==
    /\ Requested("ask")
    /\ toRenderer' = Append(toRenderer, Answer("answered", 0, IF HasController(current) THEN current ELSE 0))
    /\ toMain' = Tail(toMain)
    /\ UNCHANGED <<desk, front, streams, current, posted, refused, written>>

\* The finally block of streamReplyToRenderer
Ended(s) ==
    /\ streams' = [streams EXCEPT ![s] = "over"]
    /\ current' = IF current = s THEN 0 ELSE current

\* loop-api:cancel-stream: the controller is forgotten; the stream's catch block may run
\* before or after the answer is sent
CancelStreamRequest ==
    /\ Requested("cancel")
    /\ LET r == Head(toMain)
           answer == Answer("canceled", r.id, 0)
       IN IF ~HasController(r.stream)
          THEN toRenderer' = Append(toRenderer, answer) /\ UNCHANGED <<streams, current>>
          ELSE \/ /\ toRenderer' = Append(toRenderer, answer)
                  /\ streams' = [streams EXCEPT ![r.stream] = "aborting"]
                  /\ UNCHANGED current
               \/ /\ toRenderer' = toRenderer \o <<Packet("aborted", r.stream), answer>>
                  /\ Ended(r.stream)
    /\ toMain' = Tail(toMain)
    /\ UNCHANGED <<desk, front, posted, refused, written>>

\* A stream broadcasts its events, then how it ended
Broadcast(s, from, kind) ==
    /\ streams[s] = from
    /\ toRenderer' = Append(toRenderer, Packet(kind, s))
    /\ UNCHANGED <<desk, front, toMain, posted, refused, written>>

StreamEvent(s) == Broadcast(s, "running", "event") /\ toRenderer = <<>> /\ UNCHANGED <<streams, current>>
TurnComplete(s) ==
    Broadcast(s, "running", "complete") /\ streams' = [streams EXCEPT ![s] = "closing"] /\ UNCHANGED current
StreamDone(s) == Broadcast(s, "closing", "done") /\ Ended(s)
StreamFails(s) == Broadcast(s, "running", "error") /\ Ended(s)
StreamAborted(s) == Broadcast(s, "aborting", "aborted") /\ Ended(s)

DeskInit ==
    /\ desk = [queue |-> <<>>, active |-> NoStream, sending |-> FALSE, listeners |-> {}, taken |-> <<>>, disposes |-> 0]
    /\ front = TRUE
    /\ toMain = <<>> /\ toRenderer = <<>>
    /\ streams = [m \in Messages |-> "none"] /\ current = 0
    /\ posted = <<>> /\ refused = {} /\ written = 0

DeskNext ==
    \/ SubmitMessage \/ EnqueueConversationMessage
    \/ RemoveQueuedMessage \/ ReorderQueuedMessage
    \/ CancelActive \/ SteerQueuedMessage \/ ShowConversation \/ HideConversation \/ Rerender
    \/ RendererReceives
    \/ StartStream \/ RefuseStream \/ GetActiveStream \/ CancelStreamRequest
    \/ \E s \in Messages : StreamEvent(s) \/ TurnComplete(s) \/ StreamDone(s) \/ StreamFails(s) \/ StreamAborted(s)

DeskSpec == DeskInit /\ [][DeskNext]_deskVars

-----------------------------------------------------------------------------
\* The message's start request, or the refusal of it, is on its way
Waiting(m) == \/ \E i \in DOMAIN toMain : toMain[i] = StartRequest(m)
              \/ \E i \in DOMAIN toRenderer : toRenderer[i] = Answer("refused", m, 0)

\* A message taken from the composer or the queue is sent to the server once and in the
\* order the messages were taken, or its start was refused and reported: none is answered
\* with the stream of another message, which start-stream does while one runs.
TakenIsSent ==
    /\ \A m \in Range(desk.taken) : m \in Range(posted) \cup refused \/ Waiting(m)
    /\ posted = Only(desk.taken, Range(posted))

\* When no stream runs and nothing is under way, the conversation is not left sending or
\* with an active stream, which would refuse every further message, and a conversation on
\* screen has sent its queue.
NothingStuck ==
    (\A m \in Messages : streams[m] \in {"none", "over"}) /\ Wanted(toMain \o toRenderer) = <<>> =>
        /\ ~desk.sending /\ desk.active = NoStream
        /\ desk.listeners = {}
        /\ front => desk.queue = <<>>

\* A packet of the active stream has one listener, so that no text of the model is shown
\* twice, and a stream the main process runs in the conversation is the active one: none
\* runs that the renderer does not follow, not even while it is opened or cancelled.
PacketsOnce ==
    /\ desk.active # NoStream => Cardinality({l \in desk.listeners : l.stream = desk.active.stream}) = 1
    /\ \A m \in Messages : streams[m] = "running" => desk.active.stream = m

\* Streams are followed by one listener each while they run, and by none afterwards.
StreamsFollowed == NothingStuck /\ PacketsOnce
=============================================================================
