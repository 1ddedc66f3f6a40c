-------------------------- MODULE ConversationList --------------------------
(***************************************************************************)
(* The workspaces and conversations of the sidebar and the selection:      *)
(* loop-desktop/src/hooks/useWorkspaces.ts and useConversations.ts over    *)
(* the requests they make.  Requests are concurrent and answered in any    *)
(* order; a continuation keeps the selection it closed over.  The server   *)
(* is the environment.  Titles, paths and names are left out.              *)
(***************************************************************************)
EXTENDS Integers, Sequences, SequencesExt, FiniteSetsExt, Lists

CONSTANTS
    Workspaces,   \* ids of workspaces, numbers in the order the server lists them
    PageSize,     \* limit of a page of conversations
    MaxChanges,   \* bound: conversations created or touched
    MaxCalls,     \* bound: requests in flight for the user to make another
    UsesOthers    \* whether the user deletes conversations, and loads older ones, of an
                  \* expanded workspace that is not the selected one

ASSUME ListsAssumption ==
    /\ Workspaces \subseteq Nat \ {0} /\ {1, 2} \subseteq Workspaces
    /\ PageSize \in Nat \ {0}

VARIABLES
    server,   \* workspaces, and conversations with their time of change
    pick,     \* selectionStore: the selected workspace and conversation
    lists,    \* conversationsByWorkspace
    pages,    \* hasMoreConversationsByWorkspace and conversationCursorByWorkspace
    known,    \* workspaces
    calls,    \* requests in flight, with what their continuation does
    failed    \* history: a request failed

listVars == <<server, pick, lists, pages, known, calls, failed>>

None0 == 0

Call(op, ws) == [op |-> op, ws |-> ws, conv |-> None0, preserve |-> TRUE, cursor |-> None0, sel |-> None0,
                 then |-> None0, answer |-> <<>>, state |-> "asked"]

Ids(rows) == {rows[i].id : i \in DOMAIN rows}

\* compareConversationSummaries: a row comes after those changed later, which are as many
\* as there are places before its own
Newest(rows) == [k \in 1 .. Cardinality(rows) |-> CHOOSE r \in rows : Cardinality({q \in rows : q.at >= r.at}) = k]

\* mergeConversationSummaries
Merge(existing, incoming) ==
    Newest(ToSet(incoming) \cup {c \in ToSet(existing) : c.id \notin Ids(incoming)})

-----------------------------------------------------------------------------
(* Requests *)

ListCall(ws, preserve) == [Call("list", ws) EXCEPT !.preserve = preserve]
WorkspacesCall(selected) == [Call("workspaces", None0) EXCEPT !.sel = selected]

\* The effects of a render that sees the workspace changed: the conversations of the new
\* one are loaded, and refreshWorkspaces, which closes over it, runs again
Effects(from, to) ==
    IF from = to THEN <<>>
    ELSE <<WorkspacesCall(to)>> \o IF to = None0 THEN <<>> ELSE <<ListCall(to, TRUE)>>
Picked(ws, conv) == [ws |-> ws, conv |-> IF ws = None0 THEN None0 ELSE conv]

MayAsk == Len(calls) < MaxCalls
Asks(c) == calls' = Append(calls, c)

\* selectWorkspace of the controller, then selectConversation
SelectConversation ==
    /\ MayAsk
    /\ \E ws \in ToSet(known), conv \in {None0} \cup UNION {Ids(lists[w]) : w \in Workspaces} :
         /\ conv = None0 \/ conv \in Ids(lists[ws])
         /\ pick' = Picked(ws, conv)
         /\ calls' = calls \o Effects(pick.ws, ws)
    /\ UNCHANGED <<server, lists, pages, known, failed>>

RefreshConversations ==
    /\ MayAsk /\ pick.ws # None0
    /\ Asks(ListCall(pick.ws, TRUE))
    /\ UNCHANGED <<server, pick, lists, pages, known, failed>>

\* The row of a workspace that is expanded offers it, selected or not
LoadMoreConversations ==
    /\ MayAsk
    /\ \E ws \in ToSet(known) :
         /\ ws = pick.ws \/ UsesOthers
         /\ pages[ws].more /\ pages[ws].cursor # None0
         /\ ~\E i \in DOMAIN calls : calls[i].op = "list" /\ calls[i].ws = ws /\ calls[i].cursor # None0
         /\ Asks([ListCall(ws, TRUE) EXCEPT !.cursor = pages[ws].cursor])
    /\ UNCHANGED <<server, pick, lists, pages, known, failed>>

\* ensureConversationId without a selection: the first message of a new conversation
CreateConversation ==
    /\ MayAsk /\ pick.ws # None0 /\ pick.conv = None0
    /\ Asks([Call("create", pick.ws) EXCEPT !.sel = pick.ws])
    /\ UNCHANGED <<server, pick, lists, pages, known, failed>>

\* The workspace and conversation selected now are those its continuation works on
DeleteConversation ==
    /\ MayAsk /\ pick.ws # None0
    /\ \E ws \in ToSet(known) : \E id \in Ids(lists[ws]) :
         /\ ws = pick.ws \/ UsesOthers
         /\ Asks([Call("delete", pick.ws) EXCEPT !.conv = id, !.sel = pick.conv])
    /\ UNCHANGED <<server, pick, lists, pages, known, failed>>

RenameConversation ==
    /\ MayAsk /\ pick.ws # None0
    /\ \E ws \in ToSet(known) : \E id \in Ids(lists[ws]) :
         Asks([Call("rename", pick.ws) EXCEPT !.conv = id])
    /\ UNCHANGED <<server, pick, lists, pages, known, failed>>

\* createWorkspace, pickAndCreateWorkspace
CreateWorkspace ==
    /\ MayAsk
    /\ \E ws \in Workspaces \ server.wss : Asks([Call("create_ws", ws) EXCEPT !.sel = pick.ws])
    /\ UNCHANGED <<server, pick, lists, pages, known, failed>>

DeleteWorkspace ==
    /\ MayAsk
    /\ \E ws \in ToSet(known) : Asks([Call("delete_ws", ws) EXCEPT !.sel = pick.ws])
    /\ UNCHANGED <<server, pick, lists, pages, known, failed>>

-----------------------------------------------------------------------------
(* The server *)

\* Every change has a time of its own, and a new conversation the time of its creation as id
Put(id, ws) == {c \in server.convs : c.id # id} \cup {[id |-> id, ws |-> ws, at |-> server.last + 1]}
Of(ws) == {[id |-> c.id, at |-> c.at] : c \in {d \in server.convs : d.ws = ws}}

\* The workspaces in the order the server lists them
Listed(wss) == [k \in 1 .. Cardinality(wss) |-> CHOOSE w \in wss : Cardinality({v \in wss : v <= w}) = k]

\* One page, newest first, and whether older ones follow
Page(c) == LET rows == Newest({r \in Of(c.ws) : c.cursor = None0 \/ r.at < c.cursor})
           IN [rows |-> SubSeq(rows, 1, Min({PageSize, Len(rows)})), more |-> Len(rows) > PageSize]

\* A turn that runs in a conversation changes its time
Touch ==
    /\ server.last < MaxChanges
    /\ \E c \in server.convs : server' = [server EXCEPT !.convs = Put(c.id, c.ws), !.last = server.last + 1]
    /\ UNCHANGED <<pick, lists, pages, known, calls, failed>>

Serve ==
    \E i \in DOMAIN calls :
        LET c == calls[i]
            done(a) == calls' = [calls EXCEPT ![i].state = "answered", ![i].answer = a]
        IN /\ c.state = "asked"
           /\ \/ /\ c.op = "list" /\ done(<<Page(c)>>) /\ UNCHANGED server
              \/ /\ c.op = "workspaces" /\ done(Listed(server.wss)) /\ UNCHANGED server
              \/ /\ c.op = "create" /\ c.ws \in server.wss /\ server.last < MaxChanges
                 /\ server' = [server EXCEPT !.convs = Put(server.last + 1, c.ws), !.last = server.last + 1]
                 /\ done(<<server.last + 1>>)
              \/ /\ c.op = "delete" /\ done(<<>>)
                 /\ server' = [server EXCEPT !.convs = {d \in @ : d.id # c.conv}]
              \/ /\ c.op = "rename" /\ done(<<>>) /\ UNCHANGED server
              \/ /\ c.op = "create_ws" /\ done(<<>>) /\ server' = [server EXCEPT !.wss = @ \cup {c.ws}]
              \/ /\ c.op = "delete_ws" /\ done(<<>>)
                 /\ server' = [server EXCEPT !.wss = @ \ {c.ws}, !.convs = {d \in @ : d.ws # c.ws}]
           /\ UNCHANGED <<pick, lists, pages, known, failed>>

-----------------------------------------------------------------------------
(* Continuations *)

Others(i) == RemoveAt(calls, i)
Take(op, i) == i \in DOMAIN calls /\ calls[i].op = op /\ calls[i].state = "answered"

\* Mutant: a selection is kept whatever the workspace lists
KeepSelection(c, rows) == IF c.then # None0 THEN c.then ELSE pick.conv

\* The conversation asked for, the selected one if the page has it or nothing is to be
\* selected, else the newest
NextSelection(c, rows) ==
    IF c.then # None0 THEN c.then
    ELSE IF (c.preserve /\ pick.conv = None0) \/ (pick.conv # None0 /\ pick.conv \in Ids(rows)) THEN pick.conv
    ELSE IF rows = <<>> THEN None0 ELSE rows[1].id

\* refreshConversationsByWorkspace: the list keeps the selected conversation when the page
\* has not got it, but the selection is looked for in the page alone, for the updater that
\* merges the two runs when React renders, after the check
ListAnswered(i) ==
    /\ Take("list", i)
    /\ LET c == calls[i]
           page == c.answer[1]
           selected == Only(lists[c.ws], {r \in ToSet(lists[c.ws]) : r.id = pick.conv})
       IN /\ lists' = [lists EXCEPT ![c.ws] =
                IF c.cursor # None0 THEN Merge(@, page.rows)
                ELSE IF pick.conv \notin Ids(page.rows) THEN Merge(page.rows, selected) ELSE page.rows]
          /\ pages' = [pages EXCEPT ![c.ws] =
                [more |-> page.more, cursor |-> IF page.more THEN Last(page.rows).at ELSE None0]]
          /\ pick' = [pick EXCEPT !.conv = NextSelection(c, page.rows)]
    /\ calls' = Others(i)
    /\ UNCHANGED <<server, known, failed>>

\* refreshWorkspaces, and the selection of a workspace just created
WorkspacesAnswered(i) ==
    /\ Take("workspaces", i)
    /\ LET c == calls[i]
           first == IF c.answer = <<>> THEN None0
                    ELSE IF c.sel \notin ToSet(c.answer) THEN c.answer[1] ELSE pick.ws
           last == IF c.then # None0 THEN c.then ELSE first
       IN /\ known' = c.answer
          /\ pick' = Picked(last, IF first = None0 THEN None0 ELSE pick.conv)
          /\ calls' = Others(i) \o Effects(pick.ws, first) \o Effects(first, last)
    /\ UNCHANGED <<server, lists, pages, failed>>

ConversationCreated(i) ==
    /\ Take("create", i)
    /\ calls' = Append(Others(i), [ListCall(calls[i].sel, TRUE) EXCEPT !.then = calls[i].answer[1]])
    /\ UNCHANGED <<server, pick, lists, pages, known, failed>>

ConversationDeleted(i) ==
    /\ Take("delete", i)
    /\ LET c == calls[i]
           wasSelected == c.sel = c.conv
       IN /\ pick' = IF wasSelected THEN [pick EXCEPT !.conv = None0] ELSE pick
          /\ lists' = [lists EXCEPT ![c.ws] = Only(@, {r \in ToSet(@) : r.id # c.conv})]
          /\ calls' = Append(Others(i), ListCall(c.ws, c.sel = None0 /\ ~wasSelected))
    /\ UNCHANGED <<server, pages, known, failed>>

ConversationRenamed(i) ==
    /\ Take("rename", i)
    /\ calls' = Append(Others(i), ListCall(calls[i].ws, TRUE))
    /\ UNCHANGED <<server, pick, lists, pages, known, failed>>

WorkspaceCreated(i) ==
    /\ Take("create_ws", i)
    /\ calls' = Append(Others(i), [WorkspacesCall(calls[i].sel) EXCEPT !.then = calls[i].ws])
    /\ UNCHANGED <<server, pick, lists, pages, known, failed>>

WorkspaceDeleted(i) ==
    /\ Take("delete_ws", i)
    /\ LET c == calls[i]
           wasSelected == c.sel = c.ws
       IN /\ pick' = IF wasSelected THEN Picked(None0, None0) ELSE pick
          /\ calls' = Append(Others(i), WorkspacesCall(c.sel))
                      \o IF wasSelected THEN Effects(pick.ws, None0) ELSE <<>>
    /\ UNCHANGED <<server, lists, pages, known, failed>>

\* A request that fails is reported; only the creation of a conversation and of a
\* workspace go on after the list they asked for
CallFails(i) ==
    /\ failed' = TRUE
    /\ LET c == calls[i]
           goesOn == c.op \in {"list", "workspaces"} /\ c.then # None0
       IN /\ pick' = IF ~goesOn THEN pick
                     ELSE IF c.op = "list" THEN [pick EXCEPT !.conv = c.then] ELSE Picked(c.then, pick.conv)
          /\ calls' = Others(i) \o IF goesOn /\ c.op = "workspaces" THEN Effects(pick.ws, c.then) ELSE <<>>
    /\ UNCHANGED <<server, lists, pages, known>>

ListInit ==
    /\ \E wss \in {{}, {1}, {1, 2}} :
         server = [wss |-> wss, convs |-> {[id |-> n, ws |-> 1, at |-> n] : n \in IF wss = {} THEN {} ELSE 1..(PageSize + 1)},
                   last |-> IF wss = {} THEN 0 ELSE PageSize + 1]
    /\ pick = [ws |-> None0, conv |-> None0]
    /\ lists = [ws \in Workspaces |-> <<>>]
    /\ pages = [ws \in Workspaces |-> [more |-> FALSE, cursor |-> None0]]
    /\ known = <<>>
    /\ calls = <<WorkspacesCall(None0)>>
    /\ failed = FALSE

ListNext ==
    \/ SelectConversation \/ RefreshConversations \/ LoadMoreConversations
    \/ CreateConversation \/ DeleteConversation \/ RenameConversation
    \/ CreateWorkspace \/ DeleteWorkspace
    \/ Touch \/ Serve
    \/ \E i \in DOMAIN calls :
         \/ ListAnswered(i) \/ WorkspacesAnswered(i)
         \/ ConversationCreated(i) \/ ConversationDeleted(i) \/ ConversationRenamed(i)
         \/ WorkspaceCreated(i) \/ WorkspaceDeleted(i)
         \/ CallFails(i)

ListSpec == ListInit /\ [][ListNext]_listVars

-----------------------------------------------------------------------------
\* Once every answer is in, whatever their order, the selection names what exists: a
\* workspace of the server, or none when it has none, and a conversation of that workspace
\* that the list shows, or that is on an older page, not loaded yet.  (One just created is
\* selected even when others changed since push it off the first page.)
SelectionSettles ==
    calls = <<>> /\ ~failed =>
        /\ pick.ws = None0 <=> server.wss = {}
        /\ pick.ws # None0 => pick.ws \in server.wss
        /\ pick.conv # None0 => /\ pick.conv \in Ids(lists[pick.ws]) \/ pages[pick.ws].more
                                /\ \E c \in server.convs : c.id = pick.conv /\ c.ws = pick.ws

=============================================================================
