------------------------------ MODULE PatchUndo ------------------------------
(***************************************************************************)
(* Which files of a change set are shown as undone: the context that       *)
(* loop-desktop/src/utils/patchActivityState.ts derives from the rows of a *)
(* conversation, the marks of stores/patchRevertStore.ts, and the requests *)
(* of components/CombinedPatchViewer.tsx and hooks/useConversations.ts     *)
(* that change them.  The server, with its stack of checkpoints, is the    *)
(* environment.  A change set is named by the call of its patch.           *)
(***************************************************************************)
EXTENDS Integers, Sequences, SequencesExt, FiniteSets

CONSTANTS
    Files,        \* paths a patch changes
    MaxTurns,     \* bound: turns of the model
    MaxUndos,     \* bound: requests to revert, undo or restore
    MaxRequests,  \* bound: requests in flight for the user to make another
    Troubles      \* what may happen: "fails", the server refuses to revert the files;
                  \* "restored", a checkpoint is restored by hand; "no_git", the workspace
                  \* has no git repository and the server no checkpoints

VARIABLES
    log,       \* server: the rows of the conversation
    saved,     \* server: checkpoints, oldest first, each with what was reverted then
    reverted,  \* server: the files of each change set that are reverted in the workspace
    rows,      \* renderer: the rows of the conversation in the stores
    marks,     \* renderer: byPatchKey of the patch revert store
    asked,     \* requests in flight, in the order they were made
    onScreen,  \* the conversation is selected and its feed mounted
    undos,     \* requests to revert, undo or restore, made so far
    misled     \* history: files of change sets whose revert was refused, or that a
               \* checkpoint restored by hand brought back

undoVars == <<log, saved, reverted, rows, marks, asked, onScreen, undos, misled>>

NoCheckpoint == 0
ChangeSets == 1..MaxTurns

User(m) == [kind |-> "user", message |-> m]
Checkpointed(cp, m) == [kind |-> "created", checkpoint |-> cp, message |-> m]
Tool(c, ok) == [kind |-> "tool", call |-> c, success |-> ok]
AssistantText == [kind |-> "assistant"]
SelectedReverted(cp, base, c, paths) ==
    [kind |-> "reverted", checkpoint |-> cp, base |-> base, call |-> c, paths |-> paths]
UndoRestored(cp) == [kind |-> "undone", checkpoint |-> cp]
ManuallyRestored(cp) == [kind |-> "restored", checkpoint |-> cp]

-----------------------------------------------------------------------------
(* buildAssistantPatchContext: one pass over the rows.  The patch id of a change set is    *)
(* never empty, so what is reverted is looked up by it and never by the checkpoint.        *)

NoContext == [calls |-> {}, checkpoint |-> NoCheckpoint, message |-> 0,
              contexts |-> {}, applied |-> {}, undone |-> {}]

Reverted(a, r) ==
    IF NoCheckpoint \in {r.checkpoint, r.base} THEN a
    ELSE [a EXCEPT !.applied = {x \in @ : x.checkpoint # r.checkpoint} \cup {r},
                   !.undone = @ \cup {<<r.call, p>> : p \in r.paths}]

UndoOf(a, r) ==
    [a EXCEPT !.undone = @ \ UNION {{<<x.call, p>> : p \in x.paths} :
                                     x \in {y \in a.applied : y.checkpoint = r.checkpoint}}]

\* One change set ends at the text of the assistant that follows its patches
ContextOf(a) ==
    [a EXCEPT !.calls = {},
              !.contexts = @ \cup {[call |-> c, base |-> a.checkpoint] : c \in a.calls}]

ContextStep(a, r) ==
    CASE r.kind = "user" -> [a EXCEPT !.calls = {}, !.checkpoint = NoCheckpoint, !.message = r.message]
      [] r.kind = "created" -> IF r.message = a.message THEN [a EXCEPT !.checkpoint = r.checkpoint] ELSE a
      [] r.kind = "tool" -> IF r.success THEN [a EXCEPT !.calls = @ \cup {r.call}] ELSE a
      [] r.kind = "assistant" -> ContextOf(a)
      [] r.kind = "reverted" -> Reverted(a, r)
      [] r.kind = "undone" -> UndoOf(a, r)
      [] OTHER -> a

Context(rs) == FoldLeft(ContextStep, NoContext, rs)
PathsIn(context, c) == {p \in Files : <<c, p>> \in context.undone}

-----------------------------------------------------------------------------
(* patchRevertStore *)

MarkOptimistic(m, c, paths) == [m EXCEPT ![c].paths = @ \cup paths]

\* Mutant: a mark once made stays
SyncAdding(m, rs) == [c \in ChangeSets |-> [paths |-> m[c].paths \cup PathsIn(Context(rs), c), seen |-> TRUE]]

\* What the rows say replaces the mark; their silence removes a mark they confirmed before
SyncAuthoritative(m, rs) ==
    LET context == Context(rs)
        sets == {x.call : x \in context.contexts}
        synced(c) == LET paths == PathsIn(context, c) IN
            IF paths # {} THEN [paths |-> paths, seen |-> TRUE]
            ELSE IF m[c].seen THEN [paths |-> {}, seen |-> FALSE] ELSE m[c]
    IN [c \in ChangeSets |-> IF c \in sets THEN synced(c) ELSE m[c]]

\* The effect of the feed, after a render that saw the rows change
Rendered(m, rs) == IF onScreen' THEN SyncAuthoritative(m, rs) ELSE m

\* revertedPathSet of the viewer
ShownUndone(c) == PathsIn(Context(rows), c) \cup marks[c].paths

-----------------------------------------------------------------------------
(* Requests *)

Asking(op, c, base, paths) ==
    [op |-> op, call |-> c, base |-> base, paths |-> paths, state |-> "asked", answer |-> <<>>]
LoadHistory == Asking("load", 0, NoCheckpoint, {})
MayUndo == /\ onScreen /\ undos < MaxUndos /\ undos' = undos + 1
           /\ Len(asked) < MaxRequests

\* handleUndo up to the answer of applyPatchToWorkspace
HandleUndo ==
    /\ MayUndo
    /\ \E x \in Context(rows).contexts : \E paths \in SUBSET (Files \ ShownUndone(x.call)) \ {{}} :
         asked' = Append(asked, Asking("revert", x.call, x.base, paths))
    /\ UNCHANGED <<log, saved, reverted, rows, marks, onScreen, misled>>

UndoLatestCheckpoint ==
    /\ MayUndo
    /\ asked' = Append(asked, Asking("undo", 0, NoCheckpoint, {}))
    /\ UNCHANGED <<log, saved, reverted, rows, marks, onScreen, misled>>

RestoreCheckpoint ==
    /\ MayUndo /\ "restored" \in Troubles
    /\ \E i \in DOMAIN saved : asked' = Append(asked, Asking("restore", 0, saved[i].id, {}))
    /\ UNCHANGED <<log, saved, reverted, rows, marks, onScreen, misled>>

\* A turn on the server; the client loads the history when it has ended
RunTurn ==
    /\ onScreen /\ asked = <<>>
    /\ Cardinality({i \in DOMAIN log : log[i].kind = "user"}) < MaxTurns
    /\ LET c == 1 + Cardinality({i \in DOMAIN log : log[i].kind = "user"})
           git == "no_git" \notin Troubles
       IN \E ok \in BOOLEAN :
            /\ log' = log \o <<User(c)>> \o (IF git THEN <<Checkpointed(Len(log) + 1, c)>> ELSE <<>>)
                          \o <<Tool(c, ok), AssistantText>>
            /\ saved' = IF git THEN Append(saved, [id |-> Len(log) + 1, reverted |-> reverted]) ELSE saved
    /\ asked' = Append(asked, LoadHistory)
    /\ UNCHANGED <<reverted, rows, marks, onScreen, undos, misled>>

-----------------------------------------------------------------------------
(* The server *)

Served(i, a) == asked' = [asked EXCEPT ![i].state = "answered", ![i].answer = a]

\* A checkpoint is saved, then the files are reverted
ServeRevert(i) ==
    /\ LET r == asked[i]
           cp == IF "no_git" \in Troubles THEN NoCheckpoint ELSE Len(log) + 1
           row == SelectedReverted(cp, r.base, r.call, r.paths)
       IN /\ r.op = "revert"
          /\ saved' = IF cp = NoCheckpoint THEN saved ELSE Append(saved, [id |-> cp, reverted |-> reverted])
          /\ reverted' = reverted \cup {<<r.call, p>> : p \in r.paths}
          /\ log' = Append(log, row)
          /\ Served(i, <<row>>)
    /\ UNCHANGED <<rows, marks, onScreen, undos, misled>>

RefuseRevert(i) ==
    /\ asked[i].op = "revert" /\ "fails" \in Troubles
    /\ Served(i, <<>>)
    /\ misled' = misled \cup {<<asked[i].call, p>> : p \in asked[i].paths}
    /\ UNCHANGED <<log, saved, reverted, rows, marks, onScreen, undos>>

\* The latest checkpoint is restored and forgotten
ServeUndo(i) ==
    /\ asked[i].op = "undo"
    /\ IF saved = <<>> THEN UNCHANGED <<log, saved, reverted>>
       ELSE /\ reverted' = Last(saved).reverted
            /\ log' = Append(log, UndoRestored(Last(saved).id))
            /\ saved' = Front(saved)
    /\ Served(i, <<>>)
    /\ UNCHANGED <<rows, marks, onScreen, undos, misled>>

ServeRestore(i) ==
    /\ asked[i].op = "restore"
    /\ \E k \in DOMAIN saved : saved[k].id = asked[i].base /\ reverted' = saved[k].reverted
    /\ log' = Append(log, ManuallyRestored(asked[i].base))
    /\ Served(i, <<>>)
    /\ misled' = misled \cup (reverted \ reverted')
    /\ UNCHANGED <<saved, rows, marks, onScreen, undos>>

ServeLoad(i) ==
    /\ asked[i].op = "load"
    /\ Served(i, log)
    /\ UNCHANGED <<log, saved, reverted, rows, marks, onScreen, undos, misled>>

-----------------------------------------------------------------------------
(* Answers *)

\* applyPatchToWorkspace pushes the row it was told of, the feed renders, handleUndo marks
\* the paths: those of the answer, or those it asked for when the request failed
RevertAnswered ==
    /\ Head(asked).op = "revert"
    /\ UNCHANGED onScreen
    /\ rows' = rows \o Head(asked).answer
    /\ marks' = MarkOptimistic(IF rows' = rows THEN marks ELSE Rendered(marks, rows'),
                               Head(asked).call, Head(asked).paths)
    /\ asked' = Tail(asked) \o (IF Head(asked).answer = <<>> THEN <<>> ELSE <<LoadHistory>>)
    /\ UNCHANGED <<log, saved, reverted, undos, misled>>

UndoAnswered ==
    /\ Head(asked).op \in {"undo", "restore"}
    /\ asked' = Append(Tail(asked), LoadHistory)
    /\ UNCHANGED <<log, saved, reverted, rows, marks, onScreen, undos, misled>>

HistoryLoaded ==
    /\ Head(asked).op = "load"
    /\ UNCHANGED onScreen
    /\ rows' = Head(asked).answer
    /\ marks' = Rendered(marks, rows')
    /\ asked' = Tail(asked)
    /\ UNCHANGED <<log, saved, reverted, undos, misled>>

\* Another workspace is selected: the rows and the marks of the conversation are dropped
LeaveWorkspace ==
    /\ onScreen /\ onScreen' = FALSE
    /\ rows' = <<>>
    /\ marks' = [c \in ChangeSets |-> [paths |-> {}, seen |-> FALSE]]
    /\ UNCHANGED <<log, saved, reverted, asked, undos, misled>>

\* Another conversation is
LeaveConversation ==
    /\ onScreen /\ onScreen' = FALSE
    /\ UNCHANGED <<log, saved, reverted, rows, marks, asked, undos, misled>>

\* The feed renders the rows it finds, and the history is loaded
Return ==
    /\ ~onScreen /\ onScreen' = TRUE
    /\ marks' = Rendered(marks, rows)
    /\ Len(asked) < MaxRequests /\ asked' = Append(asked, LoadHistory)
    /\ UNCHANGED <<log, saved, reverted, rows, undos, misled>>

UndoInit ==
    /\ log = <<>> /\ saved = <<>> /\ reverted = {}
    /\ rows = <<>>
    /\ marks = [c \in ChangeSets |-> [paths |-> {}, seen |-> FALSE]]
    /\ asked = <<>> /\ onScreen = TRUE /\ undos = 0 /\ misled = {}

UndoNext ==
    \/ HandleUndo \/ UndoLatestCheckpoint \/ RestoreCheckpoint \/ RunTurn
    \/ \E i \in DOMAIN asked :
         /\ asked[i].state = "asked"
         /\ \/ ServeRevert(i) \/ RefuseRevert(i) \/ ServeUndo(i) \/ ServeRestore(i) \/ ServeLoad(i)
    \/ /\ asked # <<>> /\ Head(asked).state = "answered"
       /\ \/ RevertAnswered \/ UndoAnswered \/ HistoryLoaded
    \/ LeaveWorkspace \/ LeaveConversation \/ Return

UndoSpec == UndoInit /\ [][UndoNext]_undoVars

-----------------------------------------------------------------------------
SettledMarks == onScreen /\ asked = <<>>
Shown == {<<x.call, p>> : x \in Context(rows).contexts, p \in Files}
AllShownUndone == {s \in Shown : s[2] \in ShownUndone(s[1])}

\* Once every answer is in, the files shown as undone in the conversation on screen are
\* those the server has reverted and not brought back since: the mark made when the answer
\* arrives, the row pushed with it and the row loaded later agree, and the mark goes when
\* an undo brings the files back.  What a refused revert or a manual restore leaves marked
\* is set aside.
RevertsShown ==
    SettledMarks => /\ reverted \subseteq AllShownUndone
               /\ AllShownUndone \subseteq reverted \cup misled

\* A file shown as undone is reverted in the workspace, also when the server refused to
\* revert it (CombinedPatchViewer.tsx: "This change set has already been reverted.").
UndoneIsReverted == SettledMarks => AllShownUndone \subseteq reverted

=============================================================================
