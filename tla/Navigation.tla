----------------------------- MODULE Navigation -----------------------------
(***************************************************************************)
(* How the user moves between conversations: the command palette, which    *)
(* searches the server as the query is typed, and the list of visited      *)
(* conversations that Ctrl+O and Ctrl+I walk through.                      *)
(*                                                                         *)
(* The effects of a render have run before the next key, click or answer.  *)
(***************************************************************************)
EXTENDS Lists, SequencesExt

CONSTANTS
    Home,        \* conversation -> its workspace
    RootOf,      \* thread -> the conversation it was started from
    Named,       \* query -> workspaces whose name or path matches
    Hits,        \* query -> conversations and threads the server finds, in order
    MaxJumps,    \* bound: length of the list of visited conversations
    MaxSearches  \* bound: searches sent

ASSUME NavigationBounds == MaxJumps \in Nat /\ MaxSearches \in Nat

\* An answer names finitely many of each, and the empty query has one too
ASSUME AnswersAssumption ==
    /\ IsFiniteSet(DOMAIN Home) /\ IsFiniteSet(DOMAIN RootOf)
    /\ "" \in DOMAIN Hits
    /\ \A q \in DOMAIN Hits : IsFiniteSet(Named[q]) /\ Hits[q] \in Seq(DOMAIN Home \cup DOMAIN RootOf)
    /\ \A t \in DOMAIN RootOf : RootOf[t] \in DOMAIN Home

VARIABLES
    place,      \* selected workspace and conversation
    jumps,      \* visited conversations, place in the list, isNavigatingRef
    palette,    \* open, query, timer, requestID, loading, results, failed, active item
    searches,   \* searches under way: number, query and answer
    jumped      \* history: the conversation was reached by Ctrl+O or Ctrl+I

navVars == <<place, jumps, palette, searches, jumped>>

Everywhere == {Home[c] : c \in DOMAIN Home}
Nowhere == 0

-----------------------------------------------------------------------------
(* The list of visited conversations.                                      *)

\* The effect that follows a change of the selected conversation
Tracked(j, chat) ==
    LET kept == SubSeq(j.list, 1, j.index)
    IN  IF chat = Nowhere THEN j
        ELSE IF j.navigating THEN [j EXCEPT !.navigating = FALSE]
        ELSE IF kept # <<>> /\ Last(kept) = chat THEN j
        ELSE [j EXCEPT !.list = Append(kept, chat), !.index = Len(kept) + 1]

GoTo(ws, chat) ==
    /\ place' = [ws |-> ws, chat |-> chat]
    /\ jumps' = IF chat = place.chat THEN jumps ELSE Tracked(jumps, chat)
    /\ Len(jumps'.list) <= MaxJumps
    /\ jumped' = FALSE

\* handleSelectConversation: the workspace of the conversation is selected first
OpenConversation(chat) == GoTo(Home[chat], chat)

\* selectWorkspace leaves no conversation selected
OpenWorkspace(ws) == GoTo(ws, Nowhere)

\* Ctrl+O and Ctrl+I select a conversation of the list and nothing else
Walk(index) ==
    /\ LET j == [jumps EXCEPT !.index = index, !.navigating = TRUE]
       IN  jumps' = IF place.chat = j.list[index] THEN j ELSE Tracked(j, j.list[index])
    /\ place' = [place EXCEPT !.chat = jumps.list[index]]
    /\ jumped' = TRUE
    /\ UNCHANGED <<palette, searches>>

JumpBack ==
    \/ place.chat = Nowhere /\ jumps.index > 0 /\ Walk(jumps.index)
    \/ place.chat # Nowhere /\ jumps.index > 1 /\ Walk(jumps.index - 1)

JumpForward == jumps.index < Len(jumps.list) /\ Walk(jumps.index + 1)

\* In the sidebar
ClickConversation ==
    /\ ~palette.open
    /\ \E chat \in DOMAIN Home : chat # place.chat /\ OpenConversation(chat)
    /\ UNCHANGED <<palette, searches>>

\* newConversation
StartConversation ==
    /\ OpenWorkspace(place.ws)
    /\ UNCHANGED <<palette, searches>>

-----------------------------------------------------------------------------
(* The palette.                                                            *)

\* parsePaletteSearchResponse: a row without a root is its own
Opens(c) == IF c \in DOMAIN RootOf THEN RootOf[c] ELSE c

NoResults == [workspaces |-> {}, tasks |-> <<>>, chats |-> <<>>]

\* The workspaces of the results, or all of them, that match what is typed now
ActionItems(p) ==
    LET source == IF p.results.workspaces # {} THEN p.results.workspaces ELSE Everywhere
    IN  [i \in 1 .. Cardinality(source \cap Named[p.query]) |-> SetToSeq(source \cap Named[p.query])[i]]

\* A running conversation is not shown another time among the chats
ConversationItems(p) ==
    p.results.tasks \o Only(p.results.chats, ToSet(p.results.chats) \ ToSet(p.results.tasks))

CountItems(p) == Len(ActionItems(p)) + Len(ConversationItems(p))

\* The effect that keeps the active item in the list
Clamped(p) ==
    LET n == CountItems(p)
    IN  IF ~p.open THEN p
        ELSE IF n = 0 THEN [p EXCEPT !.active = 0]
        ELSE IF p.active >= n THEN [p EXCEPT !.active = n - 1]
        ELSE p

\* A change of the palette and its effects; a search waits for 120 ms of rest
ShowPalette(p) == palette' = Clamped(p)

OpenPalette ==
    /\ ~palette.open
    /\ ShowPalette([palette EXCEPT !.open = TRUE, !.query = "", !.failed = FALSE, !.active = 0, !.timer = TRUE])
    /\ UNCHANGED <<place, jumps, searches, jumped>>

Closed(p) == [p EXCEPT !.open = FALSE, !.timer = FALSE]

ClosePalette ==
    /\ palette.open
    /\ palette' = Closed(palette)
    /\ UNCHANGED <<place, jumps, searches, jumped>>

SetQuery(query) ==
    /\ palette.open /\ query # palette.query
    /\ ShowPalette([palette EXCEPT !.query = query, !.timer = TRUE])
    /\ UNCHANGED <<place, jumps, searches, jumped>>

Search ==
    /\ palette.timer /\ palette.request < MaxSearches
    /\ palette' = [palette EXCEPT !.timer = FALSE, !.request = @ + 1, !.loading = TRUE, !.failed = FALSE]
    /\ searches' = searches \cup {[number |-> palette.request + 1, query |-> palette.query]}
    /\ UNCHANGED <<place, jumps, jumped>>

\* Mutant: any answer counts
AnyAnswer(s) == s.number <= palette.request

\* Only the answer to the last search counts
Current(s) == s.number = palette.request

\* The server answers with the threads that run at that time
SearchAnswered(s) ==
    /\ searches' = searches \ {s}
    /\ \E ok \in BOOLEAN, tasks \in {<<>>, SetToSeq(DOMAIN RootOf)} :
         LET found == [workspaces |-> Named[s.query], tasks |-> tasks, chats |-> Hits[s.query]]
         IN  IF Current(s)
             THEN ShowPalette([palette EXCEPT !.loading = FALSE, !.failed = ~ok, !.results = IF ok THEN found ELSE NoResults])
             ELSE palette' = palette
    /\ UNCHANGED <<place, jumps, jumped>>

MoveActive ==
    /\ palette.open /\ CountItems(palette) > 1
    /\ \E step \in {1, CountItems(palette) - 1} :
         palette' = [palette EXCEPT !.active = (@ + step) % CountItems(palette)]
    /\ UNCHANGED <<place, jumps, searches, jumped>>

\* Enter or a click: a new chat in a workspace, or the root conversation of the row
ExecuteItem(i) ==
    /\ palette.open /\ i < CountItems(palette)
    /\ palette' = Closed(palette)
    /\ LET actions == ActionItems(palette)
       IN  IF i < Len(actions) THEN OpenWorkspace(actions[i + 1])
           ELSE OpenConversation(Opens(ConversationItems(palette)[i - Len(actions) + 1]))
    /\ UNCHANGED <<searches>>

NavInit ==
    /\ place = [ws |-> CHOOSE w \in Everywhere : TRUE, chat |-> Nowhere]
    /\ jumps = [list |-> <<>>, index |-> 0, navigating |-> FALSE]
    /\ palette = [open |-> FALSE, query |-> "", timer |-> FALSE, request |-> 0, loading |-> FALSE,
                  results |-> NoResults, failed |-> FALSE, active |-> 0]
    /\ searches = {} /\ jumped = FALSE

NavNext ==
    \/ JumpBack \/ JumpForward \/ ClickConversation \/ StartConversation
    \/ OpenPalette \/ ClosePalette \/ Search \/ MoveActive
    \/ \E query \in DOMAIN Hits : SetQuery(query)
    \/ \E s \in searches : SearchAnswered(s)
    \/ \E i \in 0 .. CountItems(palette) : ExecuteItem(i)

-----------------------------------------------------------------------------
(* Properties.                                                             *)

\* Once nothing is left to wait for, the palette shows the answer to what is
\* typed, whatever order the answers came in; it waits exactly as long as the
\* last search does; the active item is one of the list
SearchSettled ==
    /\ palette.loading <=> \E s \in searches : s.number = palette.request
    /\ palette.open =>
         /\ ~palette.timer /\ ~palette.loading /\ ~palette.failed => palette.results.chats = Hits[palette.query]
         /\ palette.active < CountItems(palette) \/ palette.active = 0

\* The list stands at the selected conversation, has no entry twice in a row,
\* and is not left in the middle of a walk
JumplistFollows ==
    /\ ~jumps.navigating
    /\ place.chat # Nowhere => jumps.list[jumps.index] = place.chat
    /\ \A i \in 1 .. Len(jumps.list) - 1 : jumps.list[i] # jumps.list[i + 1]

\* The selected conversation is one of the selected workspace, unless the list
\* of visited conversations led to it
AtHome == place.chat # Nowhere /\ ~jumped => Home[place.chat] = place.ws

\* Searches answered out of order, the palette closed and opened over them and
\* walks through the visited conversations leave the window consistent
\* (CommandPalette.tsx, App.tsx).
NavigationSound == SearchSettled /\ JumplistFollows /\ AtHome
=============================================================================
