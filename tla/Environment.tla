----------------------------- MODULE Environment -----------------------------
(***************************************************************************)
(* Where a new conversation will work: the status of the workspace's git   *)
(* repository as the composer shows it, the choice between the workspace   *)
(* itself and a worktree of its own, and the submission of the first       *)
(* message, which creates the worktree, reads the status again, creates    *)
(* the conversation and sends.                                             *)
(*                                                                         *)
(* A request goes to the workspace that was selected when its handler was  *)
(* rendered, and its answer finds the window wherever the user went since. *)
(***************************************************************************)
EXTENDS Naturals, Sequences, FiniteSets, SequencesExt

CONSTANTS Repos,         \* workspace -> git state it starts with: "none", "empty" or "ready"
          MaxPending,    \* bound: requests under way
          MaxActs        \* bound: moves, git requests, polls and submissions of the user

ASSUME EnvironmentBounds == MaxPending \in Nat /\ MaxActs \in Nat

\* The window opens on a workspace whose repository has commits
ASSUME ReposAssumption ==
    /\ \A ws \in DOMAIN Repos : Repos[ws] \in {"none", "empty", "ready"}
    /\ \E ws \in DOMAIN Repos : Repos[ws] = "ready"

VARIABLES
    repo,        \* server: git state and branch of every workspace
    trees,       \* server: workspace of every worktree made
    threads,     \* server: workspace and worktree of every conversation
    spot,        \* selected workspace and conversation
    acts,        \* moves, git requests, polls and submissions made
    status,      \* the git status the window shows
    draft,       \* draftEnvMode, draftBaseBranch and isPreparingWorktree
    drafts,      \* conversations with text in the composer, 0 for the new one
    turns,       \* conversations with a turn under way
    pending,     \* requests under way
    history      \* submissions disturbed, drafts of others erased

envVars == <<repo, trees, threads, spot, acts, status, draft, drafts, turns, pending, history>>

Act == acts < MaxActs /\ acts' = acts + 1

Branches == {"main", "dev"}
NoStatus == [ws |-> 0, level |-> "none", branch |-> ""]
NewThread == 0
NoTree == 0

StatusOf(ws) == [ws |-> ws, level |-> repo[ws].level, branch |-> repo[ws].branch]

\* A request: what it asks of which workspace, and what a submission carries along
Ask0(what, ws) == [what |-> what, ws |-> ws, branch |-> "", tree |-> NoTree, from |-> NewThread, got |-> NoStatus, answer |-> "none"]
Submission(r) == r.what \in {"worktree", "conversation"} \/ r.tree # NoTree
Submitting == \E i \in 1 .. Len(pending) : Submission(pending[i])

-----------------------------------------------------------------------------
(* The effects of App.                                                     *)

\* A workspace without git has no branch
KnownBranches(s) == IF s.level = "ready" THEN Branches ELSE {s.branch} \ {""}

ResolveDraftBaseBranch(current, s) ==
    IF current \in KnownBranches(s) THEN current ELSE s.branch

\* A new status settles the base branch and may take the worktree mode back
StatusEffects(d, s) ==
    [d EXCEPT !.base = ResolveDraftBaseBranch(@, s), !.mode = IF s.level = "ready" THEN @ ELSE "local"]

\* The selected conversation decides its own environment
PlaceEffects(d, thread) == [d EXCEPT !.mode = IF thread # NewThread THEN "local" ELSE @]

\* resolveDraftEnvironmentMode
EffectiveMode == IF status.level = "ready" THEN draft.mode ELSE "local"

-----------------------------------------------------------------------------
(* The user.                                                               *)

\* A new workspace asks for its status at once
GoToSpot(ws, thread) ==
    /\ Act
    /\ spot' = [ws |-> ws, thread |-> thread]
    /\ draft' = PlaceEffects([draft EXCEPT !.base = ResolveDraftBaseBranch(@, status)], thread)
    /\ pending' = IF ws = spot.ws THEN pending ELSE Append(pending, Ask0("status", ws))
    /\ Len(pending') <= MaxPending
    /\ history' = [history EXCEPT !.disturbed = @ \/ Submitting]
    /\ UNCHANGED <<repo, trees, threads, status, drafts, turns>>

ChooseWorkspace == \E ws \in DOMAIN Repos : ws # spot.ws /\ GoToSpot(ws, NewThread)
ChooseThread == \E c \in 1 .. Len(threads) : c # spot.thread /\ GoToSpot(threads[c].ws, c)
NewDraft == spot.thread # NewThread /\ GoToSpot(spot.ws, NewThread)

\* Ctrl+Shift+W, and the buttons that the bar shows unless it prepares a worktree
SetDraftEnvMode ==
    /\ spot.thread = NewThread /\ status.level = "ready"
    /\ draft' = [draft EXCEPT !.mode = IF @ = "local" THEN "worktree" ELSE "local"]
    /\ UNCHANGED <<repo, trees, threads, spot, acts, status, drafts, turns, pending, history>>

SetDraftBaseBranch(branch) ==
    /\ spot.thread = NewThread /\ EffectiveMode = "worktree" /\ ~draft.preparing
    /\ branch \in KnownBranches(status) \ {draft.base}
    /\ draft' = [draft EXCEPT !.base = branch]
    /\ UNCHANGED <<repo, trees, threads, spot, acts, status, drafts, turns, pending, history>>

\* The bar offers to initialise git, to check a branch out and to push
GitRequest(what, branch) ==
    /\ Act /\ Len(pending) < MaxPending /\ ~draft.preparing
    /\ pending' = Append(pending, [Ask0(what, spot.ws) EXCEPT !.branch = branch])
    /\ UNCHANGED <<repo, trees, threads, spot, status, draft, drafts, turns, history>>

InitGit == status.ws # 0 /\ status.level = "none" /\ GitRequest("init", "")

\* A conversation in a worktree has no branch to choose
CheckoutBranch(branch) ==
    /\ status.level # "none" /\ branch \in KnownBranches(status) \ {status.branch}
    /\ spot.thread # NewThread => threads[spot.thread].tree = NoTree
    /\ spot.thread = NewThread => EffectiveMode = "local"
    /\ GitRequest("checkout", branch)

PushBranch ==
    /\ status.branch # "" /\ (spot.thread = NewThread => EffectiveMode = "local")
    /\ GitRequest("push", status.branch)

\* Every five seconds; bound: one reading of the status at a time
PollStatus ==
    /\ ~\E i \in 1 .. Len(pending) : pending[i].what = "status"
    /\ Act /\ Len(pending) < MaxPending
    /\ pending' = Append(pending, Ask0("status", spot.ws))
    /\ UNCHANGED <<repo, trees, threads, spot, status, draft, drafts, turns, history>>

TypeText ==
    /\ drafts' = drafts \cup {spot.thread}
    /\ UNCHANGED <<repo, trees, threads, spot, acts, status, draft, turns, pending, history>>

-----------------------------------------------------------------------------
(* The submission.                                                         *)

\* Mutant: the conversation is created in the workspace selected now
EnsureConversationHere(ws, tree, others) ==
    IF NewThread \notin drafts \/ spot.thread \in turns THEN others
    ELSE Append(others, [Ask0("conversation", spot.ws) EXCEPT !.tree = tree, !.from = spot.thread])

\* sendMessageText up to its first await: it looks at the conversation that is
\* selected now, and creates one in the workspace of the handler
EnsureConversation(ws, tree, others) ==
    IF NewThread \notin drafts \/ spot.thread \in turns THEN others
    ELSE Append(others, [Ask0("conversation", ws) EXCEPT !.tree = tree, !.from = spot.thread])

\* handleComposerSubmit: a worktree first when the mode asks for one
SubmitNewThread ==
    /\ Act /\ spot.thread = NewThread /\ NewThread \in drafts /\ Len(pending) < MaxPending
    /\ IF draft.mode = "worktree"
       THEN /\ pending' = Append(pending, [Ask0("worktree", spot.ws) EXCEPT !.branch = draft.base])
            /\ draft' = [draft EXCEPT !.preparing = TRUE]
       ELSE /\ pending' = EnsureConversation(spot.ws, NoTree, pending)
            /\ draft' = draft
    /\ history' = [history EXCEPT !.disturbed = @ \/ Submitting]
    /\ UNCHANGED <<repo, trees, threads, spot, status, drafts, turns>>

SubmitInThread ==
    /\ Act /\ spot.thread \in drafts /\ spot.thread # NewThread /\ spot.thread \notin turns
    /\ turns' = turns \cup {spot.thread}
    /\ drafts' = drafts \ {spot.thread}
    /\ history' = [history EXCEPT !.disturbed = @ \/ Submitting]
    /\ UNCHANGED <<repo, trees, threads, spot, status, draft, pending>>

TurnOver ==
    /\ \E c \in turns : turns' = turns \ {c}
    /\ UNCHANGED <<repo, trees, threads, spot, acts, status, draft, drafts, pending, history>>

-----------------------------------------------------------------------------
(* The server.                                                             *)

\* A request may fail, and the server does what it is asked when it does not
ServeRequest(i) ==
    LET r == pending[i]
    IN  /\ r.answer = "none"
        /\ \/ /\ ~history.failed
              /\ pending' = [pending EXCEPT ![i].answer = "failed"]
              /\ history' = [history EXCEPT !.failed = TRUE, !.disturbed = @ \/ Submission(r)]
              /\ UNCHANGED <<repo, trees, threads>>
           \/ /\ r.what = "status"
              /\ pending' = [pending EXCEPT ![i].answer = "ok", ![i].got = StatusOf(r.ws)]
              /\ UNCHANGED <<repo, trees, threads, history>>
           \/ /\ r.what \in {"init", "checkout", "push"}
              /\ repo' = [repo EXCEPT ![r.ws] =
                     CASE r.what = "init" -> [level |-> "ready", branch |-> "main"]
                       [] r.what = "checkout" -> [@ EXCEPT !.branch = r.branch]
                       [] OTHER -> @]
              /\ pending' = [pending EXCEPT ![i].answer = "ok"]
              /\ UNCHANGED <<trees, threads, history>>
           \/ /\ r.what = "worktree"
              /\ trees' = Append(trees, r.ws)
              /\ pending' = [pending EXCEPT ![i].answer = "ok", ![i].tree = Len(trees')]
              /\ UNCHANGED <<repo, threads, history>>
           \/ /\ r.what = "conversation"
              /\ threads' = Append(threads, [ws |-> r.ws, tree |-> r.tree])
              /\ pending' = [pending EXCEPT ![i].answer = "ok", ![i].got.ws = Len(threads')]
              /\ UNCHANGED <<repo, trees, history>>
        /\ UNCHANGED <<spot, acts, status, draft, drafts, turns>>

-----------------------------------------------------------------------------
(* The answers.                                                            *)

\* fetchStatus shows the answer of any workspace; a submission goes on after it,
\* answered or not
StatusAnswered(i) ==
    LET r == pending[i]
        others == RemoveAt(pending, i)
        shown == IF r.answer = "ok" THEN r.got ELSE status
        settled == IF r.answer = "ok" THEN StatusEffects(draft, shown) ELSE draft
        next == EnsureConversation(r.ws, r.tree, others)
    IN  /\ r.what = "status" /\ r.answer # "none"
        /\ status' = shown
        /\ pending' = IF r.tree = NoTree THEN others ELSE next
        /\ draft' = IF r.tree # NoTree /\ next = others THEN [settled EXCEPT !.preparing = FALSE] ELSE settled
        /\ UNCHANGED <<repo, trees, threads, spot, acts, drafts, turns, history>>

\* A change of the repository is followed by its status, the failure of one by nothing
ChangeAnswered(i) ==
    LET r == pending[i]
        others == RemoveAt(pending, i)
    IN  /\ r.what \in {"init", "checkout", "push", "worktree"} /\ r.answer # "none"
        /\ pending' = IF r.answer = "failed" THEN others ELSE Append(others, [Ask0("status", r.ws) EXCEPT !.tree = r.tree])
        /\ draft' = [draft EXCEPT !.preparing = @ /\ ~(r.what = "worktree" /\ r.answer = "failed")]
        /\ UNCHANGED <<repo, trees, threads, spot, acts, status, drafts, turns, history>>

\* The new conversation is selected in whatever workspace is on screen, and the
\* draft that is cleared is the one of the conversation that was there
ConversationAnswered(i) ==
    LET r == pending[i]
        made == r.got.ws
        settled == [draft EXCEPT !.preparing = @ /\ r.tree = NoTree]
    IN  /\ r.what = "conversation" /\ r.answer # "none"
        /\ pending' = RemoveAt(pending, i)
        /\ IF r.answer = "failed"
           THEN draft' = settled /\ UNCHANGED <<spot, turns, drafts, history>>
           ELSE /\ spot' = [spot EXCEPT !.thread = made]
                /\ draft' = PlaceEffects(settled, made)
                /\ turns' = turns \cup {made}
                /\ drafts' = drafts \ {r.from}
                /\ history' = [history EXCEPT !.erased = @ \/ (r.from \in drafts /\ r.from # NewThread)]
        /\ UNCHANGED <<repo, trees, threads, acts, status>>

EnvInit ==
    /\ repo = [ws \in DOMAIN Repos |-> [level |-> Repos[ws], branch |-> IF Repos[ws] = "none" THEN "" ELSE "main"]]
    /\ trees = <<>> /\ threads = <<>>
    /\ spot = [ws |-> CHOOSE ws \in DOMAIN Repos : Repos[ws] = "ready", thread |-> NewThread]
    /\ acts = 0
    /\ status = NoStatus
    /\ draft = [mode |-> "local", base |-> "", preparing |-> FALSE]
    /\ drafts = {} /\ turns = {}
    /\ pending = <<Ask0("status", spot.ws)>>
    /\ history = [disturbed |-> FALSE, erased |-> FALSE, failed |-> FALSE]

EnvNext ==
    \/ ChooseWorkspace \/ ChooseThread \/ NewDraft \/ SetDraftEnvMode
    \/ InitGit \/ PushBranch \/ PollStatus \/ TypeText \/ SubmitNewThread \/ SubmitInThread \/ TurnOver
    \/ \E branch \in Branches : SetDraftBaseBranch(branch) \/ CheckoutBranch(branch)
    \/ \E i \in 1 .. Len(pending) : ServeRequest(i) \/ StatusAnswered(i) \/ ChangeAnswered(i) \/ ConversationAnswered(i)

-----------------------------------------------------------------------------
(* Properties.                                                             *)

\* A conversation works in a worktree of its own workspace and of nobody else
TreesAtHome ==
    \A c \in 1 .. Len(threads) : threads[c].tree # NoTree =>
        /\ trees[threads[c].tree] = threads[c].ws
        /\ \A other \in 1 .. Len(threads) \ {c} : threads[other].tree # threads[c].tree

\* A submission that nothing disturbed leaves no worktree without its
\* conversation, no draft but the submitted one is erased by it, and the window
\* does not stay in its preparation
TreesUsed ==
    ~history.disturbed =>
        /\ ~history.erased
        /\ ~Submitting => /\ \A t \in 1 .. Len(trees) : \E c \in 1 .. Len(threads) : threads[c].tree = t
                          /\ ~draft.preparing

\* The worktree mode is on for a new conversation of a repository with commits,
\* and the base is a branch the shown status knows
ModeSound ==
    /\ draft.mode = "worktree" => spot.thread = NewThread /\ status.level = "ready"
    /\ status # NoStatus => draft.base = status.branch \/ draft.base \in KnownBranches(status)

\* However status answers, branch changes, submissions and moves of the user
\* interleave, worktrees and conversations match (App.tsx,
\* draftConversationSubmit.ts, useGitStatus.ts).
WorktreesSound == TreesAtHome /\ TreesUsed /\ ModeSound
=============================================================================
