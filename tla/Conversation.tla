---------------------------- MODULE Conversation ----------------------------
(***************************************************************************)
(* One conversation in the store (loop/store/sqlite) and the requests that *)
(* work on it at the same time: replies with their turns, retries and      *)
(* edits of an earlier user message, workspace patches and title updates   *)
(* (loop/handlers/conversation_handler.go, loop/agent/session.go).         *)
(*                                                                         *)
(* The store serialises its write transactions on one connection, so each  *)
(* transaction is one action; what a request has read before is a copy.    *)
(* A row takes its created_at before it waits for that connection.         *)
(***************************************************************************)
EXTENDS Naturals, Sequences, FiniteSets, FiniteSetsExt

CONSTANTS
    Requests,       \* requests in progress at the same time, one after another each
    MaxServed,      \* bound: requests that arrive
    MaxMessages,    \* bound: rows of messages
    MaxEvents,      \* bound: rows of ui_events
    MaxVersion,     \* bound: versions of the transcript
    MaxRestarts     \* bound: restarts of the server

ASSUME BoundAssumption == /\ MaxServed \in Nat /\ MaxMessages \in Nat /\ MaxEvents \in Nat
                          /\ MaxVersion \in Nat /\ MaxRestarts \in Nat
ASSUME RequestsAssumption == IsFiniteSet(Requests)

VARIABLES
    (* the database *)
    messages,       \* messages, in the order of seq
    events,         \* ui_events, in the order of seq
    cursor,         \* next_timeline_seq, or NoCursor while there is no row
    conv,           \* the row of conversations
    history,        \* message_history
    (* the requests *)
    pc,             \* the next step of each request
    target,         \* the message it branches from, or NoMsg
    copy,           \* the row of conversations it has read and may write back, or NoCopy
    row,            \* the row it is about to insert, or NoRow
    (* the environment *)
    served,         \* requests so far
    restarts,       \* restarts so far
    overwrote       \* history: an update wrote back pointers that had moved since

dbVars == <<messages, events, cursor, conv, history>>
requestVars == <<pc, target, copy, row>>
vars == <<dbVars, requestVars, served, restarts, overwrote>>

-----------------------------------------------------------------------------
(* Data. *)

NoMsg == 0      \* an empty message id
NoCursor == 0

\* "agent" stands for the tool results too.
Sender == {"user", "agent"}
Prompt == {"old", "current"}

\* seq is the position: MAX(seq) + 1 over all rows, and no row is ever deleted.
Message == [by : Sender, at : Nat, tl : Nat, ver : Nat \ {0}, arch : BOOLEAN, text : Nat]
UIEvent == [at : Nat, tl : Nat, arch : BOOLEAN]
Conv == [head : Nat, root : Nat, prompt : Prompt]
Snapshot == [msg : Nat, ver : Nat \ {0}, text : Nat]
Row == [to : {"messages", "events"}, by : Sender, at : Nat]

NoRow == [to |-> "none"]
NoCopy == [prompt |-> "none"]

PC == {"idle", "retry", "edit", "ensure", "update", "append", "ensureAgain", "updateAgain",
       "turn", "model", "finish", "patch", "title"}

IsActive(m) == m \in DOMAIN messages /\ ~messages[m].arch

\* created_at of the rows, and of the rows still to be inserted.
RowStamps == {messages[m].at : m \in DOMAIN messages} \cup {events[e].at : e \in DOMAIN events}
Stamps == RowStamps \cup {row[r].at : r \in {s \in Requests : row[s] # NoRow}}
\* The wall clock, as far as it orders the rows.
Now == 1 + Max(Stamps \cup {0})

-----------------------------------------------------------------------------
(* The store. *)

\* nextTimelineSeqTx: the cursor, or without one the largest number of both tables.
NextTimelineSeq ==
    IF cursor # NoCursor THEN cursor
    ELSE 1 + Max({messages[m].tl : m \in DOMAIN messages}
                    \cup {events[e].tl : e \in DOMAIN events} \cup {0})

\* Mutant: the cursor is stored before it is moved on.
CursorNotMoved(next) == next
CursorAfter(next) == next + 1

\* Mutant: versions have no default.
VersionOfHead == IF conv.head \in DOMAIN messages THEN messages[conv.head].ver ELSE 0
\* A message without a version gets the one of the head message, which may be archived.
HeadVersion == IF conv.head \in DOMAIN messages THEN messages[conv.head].ver ELSE 1

\* Mutant: the root pointer follows every message.
PointersToLast(id) == [conv EXCEPT !.head = id, !.root = id]
PointersAfter(id) ==
    [conv EXCEPT !.head = id, !.root = IF id = 1 /\ conv.root = NoMsg THEN id ELSE conv.root]

InsertMessage(p) ==
    /\ messages' = Append(messages, [by |-> p.by, at |-> p.at, tl |-> NextTimelineSeq,
                                     ver |-> HeadVersion, arch |-> FALSE, text |-> 0])
    /\ cursor' = CursorAfter(NextTimelineSeq)
    /\ conv' = PointersAfter(Len(messages) + 1)
    /\ UNCHANGED <<events, history>>

InsertEvent(p) ==
    /\ events' = Append(events, [at |-> p.at, tl |-> NextTimelineSeq, arch |-> FALSE])
    /\ cursor' = CursorAfter(NextTimelineSeq)
    /\ UNCHANGED <<messages, conv, history>>

NextVersion == 1 + Max({messages[m].ver : m \in DOMAIN messages} \cup {1})

\* Mutant: an archived message may be branched from.
AnyUserMessage(t) == t \in DOMAIN messages /\ messages[t].by = "user"
\* BranchFromMessage accepts an active user message of the conversation.
MayBranch(t) == IsActive(t) /\ messages[t].by = "user"

\* Mutant: the events are compared with the target's seq.
EventsPastSeq(t) ==
    [e \in DOMAIN events |-> [events[e] EXCEPT !.arch = @ \/ events[e].tl > t]]
\* The events after the target in the timeline are archived.
EventsPast(t) ==
    [e \in DOMAIN events |-> [events[e] EXCEPT !.arch = @ \/ events[e].tl > messages[t].tl]]

\* Mutant: the snapshot is taken of the message as edited.
SnapshotEdited(t) == [msg |-> t, ver |-> NextVersion, text |-> NextVersion]
SnapshotOf(t) == [msg |-> t, ver |-> messages[t].ver, text |-> messages[t].text]

\* The transaction of BranchFromMessage; an edit gives the target a text of its own.
Branch(t, edited) ==
    /\ NextVersion <= MaxVersion
    /\ messages' = [m \in DOMAIN messages |->
                      IF m > t THEN [messages[m] EXCEPT !.arch = TRUE]
                      ELSE IF m < t THEN messages[m]
                      ELSE [messages[m] EXCEPT !.ver = NextVersion, !.arch = FALSE,
                                !.text = IF edited THEN NextVersion ELSE @]]
    /\ events' = EventsPast(t)
    /\ history' = IF edited THEN Append(history, SnapshotOf(t)) ELSE history
    /\ conv' = [conv EXCEPT !.head = t]
    /\ UNCHANGED cursor

\* Conversations.Update writes every column of the copy it is given.
WriteBack(c) ==
    /\ conv' = c
    /\ overwrote' = (overwrote \/ c.head # conv.head \/ c.root # conv.root)

\* Mutant: the backfill numbers all the messages before the events.
RankMessagesFirst(at) ==
    LET ofMessages == {messages[m].at : m \in DOMAIN messages}
    IN  IF at \in ofMessages THEN Cardinality({a \in ofMessages : a <= at})
        ELSE Cardinality({a \in RowStamps : a <= at \/ a \in ofMessages})
\* backfillTimelineSeqForConversation numbers the rows by created_at.
Rank(at) == Cardinality({a \in RowStamps : a <= at})

-----------------------------------------------------------------------------
(* The requests. *)

At(r, p) == pc[r] = p /\ row[r] = NoRow
GoTo(r, p) == pc' = [pc EXCEPT ![r] = p]

\* What a session looks at in its copy of the row, until its turn has started.
Seen(prompt) == [head |-> NoMsg, root |-> NoMsg, prompt |-> prompt]
Loaded == Seen(conv.prompt)
Kept(prompt, next) == IF next = "turn" THEN NoCopy ELSE Seen(prompt)

Arrives(r) ==
    /\ At(r, "idle")
    /\ served < MaxServed
    /\ served' = served + 1

\* A request arrives and loads the conversation: a reply, a workspace patch or a PATCH of
\* the title; the goroutine of generateTitleAsync counts as one of the last.
Load(r) ==
    /\ Arrives(r)
    /\ \/ GoTo(r, "ensure") /\ copy' = [copy EXCEPT ![r] = Loaded]
       \/ GoTo(r, "patch") /\ UNCHANGED copy
       \/ GoTo(r, "title") /\ copy' = [copy EXCEPT ![r] = conv]
    /\ UNCHANGED <<dbVars, target, row, restarts, overwrote>>

\* A retry or an edit names any message the client has seen: it may be archived by now.
LoadBranch(r, t) ==
    /\ Arrives(r)
    /\ \E p \in {"retry", "edit"} : GoTo(r, p)
    /\ target' = [target EXCEPT ![r] = t]
    /\ copy' = [copy EXCEPT ![r] = Loaded]
    /\ UNCHANGED <<dbVars, row, restarts, overwrote>>

BranchFromMessage(r) ==
    /\ At(r, "retry") \/ At(r, "edit")
    /\ MayBranch(target[r])
    /\ Branch(target[r], pc[r] = "edit")
    /\ GoTo(r, "ensureAgain")
    /\ target' = [target EXCEPT ![r] = NoMsg]
    /\ UNCHANGED <<copy, row, served, restarts, overwrote>>

\* The target is not an active user message, or the transaction fails.
BranchFails(r) ==
    /\ At(r, "retry") \/ At(r, "edit")
    /\ GoTo(r, "idle")
    /\ target' = [target EXCEPT ![r] = NoMsg]
    /\ copy' = [copy EXCEPT ![r] = NoCopy]
    /\ UNCHANGED <<dbVars, row, served, restarts, overwrote>>

\* ensureConversationPromptMetadata, which a reply calls before it stores its prompt and
\* every turn before it starts: if the copy names another prompt, the row is read again.
EnsurePrompt(r, here, write, next) ==
    /\ At(r, here)
    /\ IF copy[r].prompt # "current" /\ conv.prompt # "current"
       THEN GoTo(r, write) /\ copy' = [copy EXCEPT ![r] = conv]
       ELSE GoTo(r, next) /\ copy' = [copy EXCEPT ![r] = Kept("current", next)]
    /\ UNCHANGED <<dbVars, target, row, served, restarts, overwrote>>

\* It then writes the whole row; a failure is only logged.
UpdatePrompt(r, here, next) ==
    /\ At(r, here)
    /\ GoTo(r, next)
    /\ \/ /\ WriteBack([copy[r] EXCEPT !.prompt = "current"])
          /\ copy' = [copy EXCEPT ![r] = Kept("current", next)]
       \/ /\ copy' = [copy EXCEPT ![r] = Kept(copy[r].prompt, next)]
          /\ UNCHANGED <<conv, overwrote>>
    /\ UNCHANGED <<messages, events, cursor, history, target, row, served, restarts>>

\* Room for one row more, with those that are on their way.
Room(to) ==
    LET onTheirWay == Cardinality({r \in Requests : row[r] # NoRow /\ row[r].to = to})
    IN  IF to = "messages" THEN Len(messages) + onTheirWay < MaxMessages
        ELSE Len(events) + onTheirWay < MaxEvents

\* Append stamps a row, which Insert then stores, or fails and leaves nothing.
Begin(r, to, by) ==
    /\ Room(to)
    /\ row' = [row EXCEPT ![r] = [to |-> to, by |-> by, at |-> Now]]
    /\ UNCHANGED <<dbVars, target, copy, served, restarts, overwrote>>

Fail(r, next) ==
    /\ GoTo(r, next)
    /\ copy' = [copy EXCEPT ![r] = NoCopy]
    /\ UNCHANGED <<dbVars, target, row, served, restarts, overwrote>>

\* The prompt of a reply; without it the turn does not start.
AppendPrompt(r) ==
    /\ At(r, "append")
    /\ \/ Begin(r, "messages", "user") /\ GoTo(r, "ensureAgain")
       \/ Fail(r, "idle")

\* The hidden message of a workspace patch.
AppendPatch(r) ==
    /\ At(r, "patch")
    /\ \/ Begin(r, "messages", "user") /\ GoTo(r, "finish")
       \/ Fail(r, "finish")

\* A turn records its progress and calls the model.
RecordProgress(r) ==
    /\ At(r, "turn")
    /\ \/ Begin(r, "events", "agent") /\ \E next \in {"turn", "model"} : GoTo(r, next)
       \/ Fail(r, "model")

\* The model's message or the results of its calls: the turn goes on or ends with it.
\* It ends too if it cannot store them, and if it is cancelled with nothing to store.
AppendAnswer(r) ==
    /\ At(r, "model")
    /\ \/ Begin(r, "messages", "agent") /\ \E next \in {"turn", "finish"} : GoTo(r, next)
       \/ Fail(r, "finish")

\* The record of how the turn ended, or of the workspace change.
RecordEnd(r) ==
    /\ At(r, "finish")
    /\ \/ Begin(r, "events", "agent") /\ GoTo(r, "idle")
       \/ Fail(r, "idle")

\* The transaction of Append.
Insert(r) ==
    /\ row[r] # NoRow
    /\ \/ row[r].to = "messages" /\ InsertMessage(row[r])
       \/ row[r].to = "events" /\ InsertEvent(row[r])
    /\ row' = [row EXCEPT ![r] = NoRow]
    /\ UNCHANGED <<pc, target, copy, served, restarts, overwrote>>

\* A title update writes back the row it has read, with the title.
WriteTitle(r) ==
    /\ At(r, "title")
    /\ WriteBack(copy[r]) \/ UNCHANGED <<conv, overwrote>>
    /\ GoTo(r, "idle")
    /\ copy' = [copy EXCEPT ![r] = NoCopy]
    /\ UNCHANGED <<messages, events, cursor, history, target, row, served, restarts>>

\* The server dies and starts again: the requests are gone, and migrate backfills the
\* timeline of a conversation that has rows.
Restart ==
    /\ restarts < MaxRestarts
    /\ restarts' = restarts + 1
    /\ pc' = [r \in Requests |-> "idle"]
    /\ target' = [r \in Requests |-> NoMsg]
    /\ copy' = [r \in Requests |-> NoCopy]
    /\ row' = [r \in Requests |-> NoRow]
    /\ cursor' = IF RowStamps = {} THEN cursor ELSE Len(messages) + Len(events) + 1
    /\ messages' = [m \in DOMAIN messages |-> [messages[m] EXCEPT !.tl = Rank(messages[m].at)]]
    /\ events' = [e \in DOMAIN events |-> [events[e] EXCEPT !.tl = Rank(events[e].at)]]
    /\ UNCHANGED <<conv, history, served, overwrote>>

RequestStep(r) ==
    \/ Load(r) \/ (\E t \in DOMAIN messages : LoadBranch(r, t))
    \/ BranchFromMessage(r) \/ BranchFails(r)
    \/ EnsurePrompt(r, "ensure", "update", "append") \/ UpdatePrompt(r, "update", "append")
    \/ EnsurePrompt(r, "ensureAgain", "updateAgain", "turn")
    \/ UpdatePrompt(r, "updateAgain", "turn")
    \/ AppendPrompt(r) \/ AppendPatch(r) \/ RecordProgress(r) \/ AppendAnswer(r)
    \/ RecordEnd(r) \/ Insert(r) \/ WriteTitle(r)

Next ==
    \/ \E r \in Requests : RequestStep(r)
    \/ Restart

\* A conversation without messages, created with an earlier system prompt.
Init ==
    /\ messages = <<>> /\ events = <<>> /\ cursor = NoCursor /\ history = <<>>
    /\ conv = [head |-> NoMsg, root |-> NoMsg, prompt |-> "old"]
    /\ pc = [r \in Requests |-> "idle"]
    /\ target = [r \in Requests |-> NoMsg]
    /\ copy = [r \in Requests |-> NoCopy]
    /\ row = [r \in Requests |-> NoRow]
    /\ served = 0 /\ restarts = 0 /\ overwrote = FALSE

Spec == Init /\ [][Next]_vars

-----------------------------------------------------------------------------
(* Properties. *)

TypeOK ==
    /\ messages \in Seq(Message) /\ events \in Seq(UIEvent)
    /\ cursor \in Nat /\ conv \in Conv /\ history \in Seq(Snapshot)
    /\ pc \in [Requests -> PC] /\ target \in [Requests -> Nat]
    /\ copy \in [Requests -> Conv \cup {NoCopy}]
    /\ row \in [Requests -> Row \cup {NoRow}]
    /\ served \in Nat /\ restarts \in Nat /\ overwrote \in BOOLEAN

\* message.go: TimelineSeq is a "sequence shared across message and UIEvent rows". No two
\* rows ever have the same number, and the next number is larger than all of them,
\* whichever requests append in turns and however often the server restarts.
OneTimeline ==
    /\ \A m \in DOMAIN messages : messages[m].tl < cursor
    /\ \A e \in DOMAIN events : events[e].tl < cursor
    /\ \A m, n \in DOMAIN messages : messages[m].tl = messages[n].tl => m = n
    /\ \A e, f \in DOMAIN events : events[e].tl = events[f].tl => e = f
    /\ \A m \in DOMAIN messages, e \in DOMAIN events : messages[m].tl # events[e].tl

\* Every row has its type and a number of its own.
TimelineSound == TypeOK /\ OneTimeline

\* The convenience pointers of the conversation follow its active messages, as long as no
\* update wrote back a copy whose pointers had been moved meanwhile: the head is the last
\* active message, the root the first message, and versions only grow along the transcript.
PointersFollow ==
    ~overwrote =>
        /\ IF messages = <<>> THEN conv.head = NoMsg /\ conv.root = NoMsg
           ELSE conv.root = 1 /\ IsActive(conv.head)
        /\ \A m \in DOMAIN messages : IsActive(m) =>
              m <= conv.head /\ messages[m].ver <= messages[conv.head].ver
        /\ \A m, n \in DOMAIN messages :
              IsActive(m) /\ IsActive(n) /\ m < n => messages[m].ver <= messages[n].ver

\* The model and the client replay the active messages in the order of seq.
Transcript == INSTANCE Transcript WITH
    transcript <- {[id |-> m, by |-> messages[m].by, text |-> messages[m].text] :
                      m \in {k \in DOMAIN messages : IsActive(k)}}

\* However requests interleave, the transcript is only continued at its end or cut back
\* to one of its user messages: a superseded branch never comes back.
KeepsTranscript == Transcript!Spec

\* message.go: a snapshot "is written before an in-place edit so older versions remain
\* inspectable". Whatever a message said before a step is still readable after it.
EditsKept ==
    [][/\ \A m \in DOMAIN messages : messages'[m].text # messages[m].text =>
             \E h \in DOMAIN history' :
                 history'[h] = [msg |-> m, ver |-> messages[m].ver, text |-> messages[m].text]
       /\ \A h \in DOMAIN history : history'[h] = history[h]]_vars

\* The timeline orders the messages as seq does.
Aligned == \A m, n \in DOMAIN messages : m < n => messages[m].tl < messages[n].tl

\* While the two orders agree, a branch cuts messages and events at the same point of the
\* timeline: what remains active is what was active up to the branch root.
BranchCutsTimeline ==
    [][Aligned /\ NextVersion' # NextVersion /\ Len(messages') = Len(messages) =>
        LET cut == messages[conv'.head].tl
        IN  /\ \A m \in DOMAIN messages :
                  ~messages'[m].arch <=> ~messages[m].arch /\ messages[m].tl <= cut
            /\ \A e \in DOMAIN events :
                  ~events'[e].arch <=> ~events[e].arch /\ events[e].tl <= cut]_vars

\* A branch archives what comes after its root, in both tables, and loses no text.
BranchIsFaithful == BranchCutsTimeline /\ EditsKept

\* The rows were stamped in the order in which they were inserted.
InOrder ==
    /\ Aligned /\ \A m, n \in DOMAIN messages : m < n => messages[m].at < messages[n].at
    /\ \A e, f \in DOMAIN events :
          e < f => events[e].at < events[f].at /\ events[e].tl < events[f].tl
    /\ \A m \in DOMAIN messages, e \in DOMAIN events :
          messages[m].at < events[e].at <=> messages[m].tl < events[e].tl

SameTimeline ==
    /\ \A m \in DOMAIN messages : messages'[m].tl = messages[m].tl
    /\ \A e \in DOMAIN events : events'[e].tl = events[e].tl

\* A restart leaves the timeline as it is if the rows were stamped in the order of their
\* insertion, and no step but a restart renumbers a row at all.
TimelineKept == [][InOrder \/ restarts' = restarts => SameTimeline]_vars

\* message.go: TimelineSeq "is the canonical ordering field for deterministic timeline
\* replay".
TimelineStable == [][SameTimeline]_vars

\* message.go: "Retry/edit branch operations increment this for the branch root and all
\* newly generated messages after that point."
VersionsFollowBranch ==
    \A m, n \in DOMAIN messages :
        IsActive(m) /\ IsActive(n) /\ m < n => messages[m].ver <= messages[n].ver
=============================================================================
