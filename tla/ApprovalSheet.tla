--------------------------- MODULE ApprovalSheet ---------------------------
(***************************************************************************)
(* The sheet that asks the user to allow a command, from the packet that   *)
(* announces the approval to the answer of the server, and the stack of    *)
(* keyboard layers that decides who takes a key: the sheet, the command    *)
(* palette, the composer.  The server's side is module Approvals; here it  *)
(* is what the window can see of it.                                       *)
(*                                                                         *)
(* A render and its effects follow the change of a store before the next   *)
(* key or packet, and the sheet leaves without its exit animation.         *)
(***************************************************************************)
EXTENDS Lists, SequencesExt

CONSTANTS Chats,     \* conversations
          MaxAsks    \* bound: approvals asked for

ASSUME SheetBounds == MaxAsks \in Nat /\ Chats # {}

VARIABLES
    asks,        \* server: conversation and state of every approval
    announced,   \* packets that announce an approval, on their way
    approvals,   \* commandApprovalStore.pendingCommandApprovals
    resolving,   \* commandApprovalStore.isResolvingCommandApproval
    decision,    \* decisions on their way to the server and back
    sheet,       \* selected conversation, active option, text field with the focus, open palette
    chosen,      \* history: approvals for which the user moved the active option
    unheard      \* history: approvals whose packet or answer never reached the window

sheetVars == <<asks, announced, approvals, resolving, decision, sheet, chosen, unheard>>

Options == <<"deny", "allow_once", "allow_session">>
NoApproval == 0

\* getPendingApproval: the first of the conversation
PendingOf(list, chat) ==
    LET i == SelectInSeq(list, LAMBDA id : asks[id].chat = chat)
    IN  IF i = 0 THEN NoApproval ELSE list[i]

ShownApproval == PendingOf(approvals, sheet.chat)

-----------------------------------------------------------------------------
(* The sheet.                                                              *)

\* The sheet stays mounted while it has an approval to show: its effects make
\* "Allow once" the active option of each one and take the focus from a text field
KeepOption(before, after, s) ==
    IF after \in {before, NoApproval} THEN s
    ELSE [s EXCEPT !.focus = "page", !.option = IF before = NoApproval THEN 2 ELSE @]

ResetOption(before, after, s) ==
    IF after \in {before, NoApproval} THEN s ELSE [s EXCEPT !.focus = "page", !.option = 2]

\* The stores change to a list of approvals and a sheet on a conversation
ShowApprovals(list, s) ==
    /\ approvals' = list
    /\ sheet' = ResetOption(ShownApproval, PendingOf(list, s.chat), s)

\* A packet of the active stream: the approval is queued once, whichever
\* conversation is on screen
EnqueueCommandApproval ==
    /\ announced # <<>>
    /\ announced' = Tail(announced)
    /\ LET id == Head(announced)
       IN  ShowApprovals(IF Contains(approvals, id) THEN approvals ELSE Append(approvals, id), sheet)
    /\ UNCHANGED <<asks, resolving, decision, chosen, unheard>>

\* The approval is the one of the selected conversation at the time of the call
ResolveCommandApproval(option) ==
    /\ ShownApproval # NoApproval /\ ~resolving
    /\ resolving' = TRUE
    /\ decision' = Append(decision, [id |-> ShownApproval, decision |-> Options[option], answer |-> "none"])
    /\ UNCHANGED <<asks, announced, approvals, unheard>>

\* An expired approval leaves the list as a decided one does; any other failure keeps it
AfterAnswer(d) ==
    IF d.answer \in {"ok", "expired"} THEN Only(approvals, (1 .. Len(asks)) \ {d.id}) ELSE approvals

DecisionAnswered ==
    /\ decision # <<>> /\ Head(decision).answer # "none"
    /\ resolving' = FALSE
    /\ ShowApprovals(AfterAnswer(Head(decision)), sheet)
    /\ decision' = Tail(decision)
    /\ UNCHANGED <<asks, announced, chosen, unheard>>

-----------------------------------------------------------------------------
(* The keyboard.                                                           *)

\* Highest priority first
Layers == <<"sheet", "palette", "composer">>

Enabled(layer) ==
    CASE layer = "sheet" -> ShownApproval # NoApproval /\ ~resolving
      [] layer = "palette" -> sheet.palette
      [] OTHER -> TRUE

\* A layer without a handler for the key, or whose handler declines it, passes it on
HandlesKey(layer, key) ==
    CASE layer = "sheet" -> key \in {"Arrow", "Digit", "Enter"}
      [] layer = "palette" -> key \in {"Arrow", "Enter", "Escape"}
      [] OTHER -> key = "Enter" /\ sheet.focus = "composer"

\* A character typed in a text field is nobody's shortcut
TakenBy(key) ==
    IF key = "Digit" /\ sheet.focus \in {"palette", "composer"} THEN "field"
    ELSE LET i == SelectInSeq(Layers, LAMBDA layer : Enabled(layer) /\ HandlesKey(layer, key))
         IN  IF i = 0 THEN "nobody" ELSE Layers[i]

ActiveOption(option) ==
    /\ sheet' = [sheet EXCEPT !.option = option, !.focus = "page"]
    /\ chosen' = chosen \cup {ShownApproval}
    /\ UNCHANGED <<asks, announced, approvals, resolving, decision, unheard>>

\* moveSelection(1) and moveSelection(-1)
MoveSelection ==
    /\ TakenBy("Arrow") = "sheet"
    /\ \E step \in {0, 2} : ActiveOption(((sheet.option + step) % 3) + 1)

PressDigit ==
    /\ TakenBy("Digit") = "sheet"
    /\ \E option \in 1 .. 3 : ActiveOption(option)

\* Enter decides, wherever the focus is, before the palette and the composer see it
PressEnter ==
    /\ TakenBy("Enter") = "sheet"
    /\ ResolveCommandApproval(sheet.option)
    /\ UNCHANGED <<sheet, chosen>>

\* A click gives the focus to the option and resolves; the palette covers the sheet
ClickOption(option) ==
    /\ ~sheet.palette
    /\ ResolveCommandApproval(option)
    /\ sheet' = [sheet EXCEPT !.option = option, !.focus = "page"]
    /\ chosen' = chosen \cup {ShownApproval}

\* Enter in the palette opens a conversation
OpenItem ==
    /\ TakenBy("Enter") = "palette"
    /\ \E chat \in Chats : ShowApprovals(approvals, [sheet EXCEPT !.chat = chat, !.palette = FALSE])
    /\ UNCHANGED <<asks, announced, resolving, decision, chosen, unheard>>

ShowChat(chat) ==
    /\ chat # sheet.chat /\ ~sheet.palette
    /\ ShowApprovals(approvals, [sheet EXCEPT !.chat = chat])
    /\ UNCHANGED <<asks, announced, resolving, decision, chosen, unheard>>

\* Ctrl+K opens the palette, which takes the focus, and Escape closes it
TogglePalette ==
    /\ sheet.palette => TakenBy("Escape") = "palette"
    /\ sheet' = [sheet EXCEPT !.palette = ~@, !.focus = IF sheet.palette THEN "page" ELSE "palette"]
    /\ UNCHANGED <<asks, announced, approvals, resolving, decision, chosen, unheard>>

FocusComposer ==
    /\ ~sheet.palette /\ sheet.focus # "composer"
    /\ sheet' = [sheet EXCEPT !.focus = "composer"]
    /\ UNCHANGED <<asks, announced, approvals, resolving, decision, chosen, unheard>>

-----------------------------------------------------------------------------
(* The server and the window as a whole.                                   *)

Announce(chat) ==
    /\ Len(asks) < MaxAsks
    /\ asks' = Append(asks, [chat |-> chat, state |-> "waiting"])
    /\ announced' = Append(announced, Len(asks'))
    /\ UNCHANGED <<approvals, resolving, decision, sheet, chosen, unheard>>

\* The turn is cancelled: the approval is no longer waited for
Abandon(id) ==
    /\ asks[id].state = "waiting"
    /\ asks' = [asks EXCEPT ![id].state = "gone"]
    /\ UNCHANGED <<announced, approvals, resolving, decision, sheet, chosen, unheard>>

\* The request may fail before the server takes it and its answer may be lost
ServeDecision(i) ==
    LET d == decision[i]
        served == [asks EXCEPT ![d.id].state = "decided"]
        waits == asks[d.id].state = "waiting"
    IN  /\ d.answer = "none"
        /\ \E answer \in {"ok", "expired", "error"} :
             /\ answer = "ok" => waits
             /\ answer = "expired" => ~waits
             /\ decision' = [decision EXCEPT ![i].answer = answer]
             /\ \/ answer # "expired" /\ waits /\ asks' = served
                \/ answer # "ok" /\ asks' = asks
             /\ unheard' = IF answer = "error" /\ asks' # asks THEN unheard \cup {d.id} ELSE unheard
        /\ UNCHANGED <<announced, approvals, resolving, sheet, chosen>>

\* The window is loaded again: its stores start empty and nobody sends the
\* packets of before another time
ReloadWindow ==
    /\ sheet.loads = 0
    /\ approvals' = <<>> /\ announced' = <<>> /\ decision' = <<>> /\ resolving' = FALSE
    /\ sheet' = [sheet EXCEPT !.option = 2, !.focus = "page", !.palette = FALSE, !.loads = 1]
    /\ unheard' = unheard \cup ToSet(approvals) \cup ToSet(announced)
    /\ UNCHANGED <<asks, chosen>>

SheetInit ==
    /\ asks = <<>>
    /\ announced = <<>> /\ approvals = <<>> /\ decision = <<>>
    /\ resolving = FALSE
    /\ sheet = [chat |-> CHOOSE chat \in Chats : TRUE, option |-> 2, focus |-> "page", palette |-> FALSE, loads |-> 0]
    /\ chosen = {} /\ unheard = {}

SheetNext ==
    \/ EnqueueCommandApproval \/ DecisionAnswered
    \/ MoveSelection \/ PressDigit \/ PressEnter \/ OpenItem \/ TogglePalette \/ FocusComposer \/ ReloadWindow
    \/ \E option \in 1 .. 3 : ClickOption(option)
    \/ \E chat \in Chats : ShowChat(chat) \/ Announce(chat)
    \/ \E id \in 1 .. Len(asks) : Abandon(id)
    \/ \E i \in 1 .. Len(decision) : ServeDecision(i)

-----------------------------------------------------------------------------
(* Properties.                                                             *)

\* A decision other than the default one is made with an option the user moved
\* to while that approval was on the sheet, never with one left over from the
\* approval before it
DecisionsDeliberate ==
    \A d \in ToSet(decision) : d.decision \in {"deny", "allow_session"} => d.id \in chosen

\* An approval that waits is on its way to the window or in its list, and one
\* that is settled leaves the list with its answer: only a reload of the window
\* or a lost answer breaks this
PromptsKept ==
    \A id \in 1 .. Len(asks) \ unheard :
        /\ asks[id].state = "waiting" => Contains(announced, id) \/ Contains(approvals, id)
        /\ asks[id].state = "decided" /\ Contains(approvals, id) => \E d \in ToSet(decision) : d.id = id

\* The sheet is blocked by one decision in flight and by nothing else
OneDecision == Len(decision) = IF resolving THEN 1 ELSE 0

\* However approvals, answers, failures, keys and changes of conversation
\* interleave, each approval is asked until it is settled and is settled as the
\* user chose for it (commandApprovalStore.ts, CommandApprovalSheet.tsx).
SheetSound == DecisionsDeliberate /\ PromptsKept /\ OneDecision
=============================================================================
