------------------------------- MODULE Threads -------------------------------
(***************************************************************************)
(* Child threads (loop/agent/tools/spawn_thread.go and await_thread.go):   *)
(* conversations that tool calls of a parent's turn start at an anchor of  *)
(* the parent, run by a goroutine each, and await by reading their row,    *)
(* while users branch, patch and delete the conversations, turns are       *)
(* cancelled and the server crashes.                                       *)
(*                                                                         *)
(* A statement or transaction of the store is one action.  The child's     *)
(* turn is what its driver sees of it: the module Turn has its inside.     *)
(* The tools of a child do not include spawn_thread, so threads are not    *)
(* nested.                                                                 *)
(***************************************************************************)
EXTENDS Naturals, Sequences

CONSTANTS
    Spawns,         \* calls of spawn_thread, and the threads they make
    Awaiters,       \* calls of await_thread
    Parent,         \* the parent conversation
    MaxParent,      \* bound: messages of the parent
    MaxOwn,         \* bound: messages of a thread
    MaxPatches,     \* bound: rows read to be written back
    MaxFailures     \* bound: operations of the store that fail, and crashes

ASSUME ThreadsAssumption == /\ Parent \notin Spawns /\ MaxParent \in Nat /\ MaxOwn \in Nat
                            /\ MaxPatches \in Nat /\ MaxFailures \in Nat

VARIABLES
    rows,       \* the table conversations
    transcript, \* the messages of each conversation, in the order of seq
    run,        \* what each spawn_thread call and then the goroutine of its thread does
    noted,      \* the thread_status events of each thread in the parent's timeline
    prefix,     \* history: the parent's messages up to the anchor, when it was resolved
    given,      \* history: the parent's messages in what the thread's turn has read last
    await,      \* what each await_thread call does
    copied,     \* a row read by a request that writes it back
    doomed,     \* rows a request has still to delete
    patches,    \* rows read so far
    failures    \* failures and crashes so far

threadVars == <<rows, transcript, run, noted, prefix, given, await, copied, doomed, patches, failures>>
storeVars == <<rows, transcript>>
historyVars == <<prefix, given>>
requestVars == <<copied, doomed, patches>>

NoRow == [there |-> FALSE]
NoCopy == [of |-> Parent, row |-> NoRow]
Silent == [at |-> "idle"]

\* The messages of a conversation that are not archived, by their seq
Active(c, upTo) == {i \in DOMAIN transcript[c] : i <= upTo /\ ~transcript[c][i].arch}
AllActive(c) == Active(c, Len(transcript[c]))
IsLast(s, m) == IF s = {} THEN m = 0 ELSE m \in s /\ \A i \in s : i <= m

Breaks == failures < MaxFailures /\ failures' = failures + 1
RunTo(t, state) == run' = [run EXCEPT ![t] = state]
Moves(t, at) == RunTo(t, [run[t] EXCEPT !.at = at])
ChildFails(t) == RunTo(t, [run[t] EXCEPT !.at = "outcome", !.outcome = "failed"])

AppendMessage(c, by) ==
    /\ rows[c].there
    /\ transcript' = [transcript EXCEPT ![c] = Append(@, [by |-> by, arch |-> FALSE])]
    /\ rows' = [rows EXCEPT ![c].head = Len(transcript[c]) + 1]

-----------------------------------------------------------------------------
(* spawn_thread. *)

\* The head of the parent's row, as the tool was given it if the row cannot be read
\* now; without a head the last message.
ResolveAnchor(t, full, blocking) ==
    /\ run[t].at = "none"
    /\ \E head, anchor \in 0 .. MaxParent :
         /\ \/ rows[Parent].there /\ head = rows[Parent].head /\ UNCHANGED failures
            \/ rows[Parent].there /\ head < Len(transcript[Parent]) /\ Breaks
            \/ ~rows[Parent].there /\ UNCHANGED failures
         /\ IF head # 0 THEN anchor = head ELSE IsLast(AllActive(Parent), anchor)
         /\ full => anchor # 0
         /\ RunTo(t, [at |-> "create", anchor |-> anchor, full |-> full, blocking |-> blocking,
                      cancelled |-> FALSE, outcome |-> "none"])
         /\ prefix' = [prefix EXCEPT ![t] = Active(Parent, anchor)]
    /\ UNCHANGED <<storeVars, noted, given, await, requestVars>>

CreateThread(t) ==
    /\ run[t].at = "create"
    /\ \/ /\ ~run[t].cancelled
          /\ rows' = [rows EXCEPT ![t] = [there |-> TRUE, head |-> 0, status |-> "running"]]
          /\ Moves(t, "spawned")
          /\ UNCHANGED failures
       \/ /\ (run[t].cancelled /\ UNCHANGED failures) \/ Breaks
          /\ Moves(t, "refused")
          /\ UNCHANGED rows
    /\ UNCHANGED <<transcript, noted, historyVars, await, requestVars>>

\* persistThreadUIEvent: an event that cannot be stored is logged.
Note(t, status) ==
    \/ rows[Parent].there /\ noted' = [noted EXCEPT ![t] = Append(@, status)] /\ UNCHANGED failures
    \/ ~rows[Parent].there /\ UNCHANGED <<noted, failures>>
    \/ Breaks /\ UNCHANGED noted

\* The call of an asynchronous thread returns, and its goroutine has a context of its own.
Announce(t) ==
    /\ \/ run[t].at = "spawned" /\ Note(t, "spawned") /\ Moves(t, "started")
       \/ /\ run[t].at = "started" /\ Note(t, "started")
          /\ RunTo(t, [run[t] EXCEPT !.at = "task", !.cancelled = @ /\ run[t].blocking])
    /\ UNCHANGED <<storeVars, historyVars, await, requestVars>>

-----------------------------------------------------------------------------
(* driveChildSession. *)

\* HandleUserMessage appends the task and starts the turn.
AppendTask(t) ==
    /\ run[t].at = "task"
    /\ \/ ~run[t].cancelled /\ AppendMessage(t, "user") /\ Moves(t, "anchor") /\ UNCHANGED failures
       \/ /\ run[t].cancelled \/ ~rows[t].there
          /\ ChildFails(t) /\ UNCHANGED <<storeVars, failures>>
       \/ Breaks /\ ChildFails(t) /\ UNCHANGED storeVars
    /\ UNCHANGED <<noted, historyVars, await, requestVars>>

\* buildHistory: the thread's messages, and for a full chain the rows of the thread and of
\* its parent and the seq of the anchor.  Without messages there is no history.
FindAnchor(t) ==
    LET anchored == /\ rows[Parent].there /\ run[t].anchor \in DOMAIN transcript[Parent]
                    /\ ~transcript[Parent][run[t].anchor].arch
        needed == run[t].full /\ AllActive(t) # {}
    IN  /\ run[t].at = "anchor"
        /\ \/ ~run[t].cancelled /\ needed /\ anchored /\ Moves(t, "history") /\ UNCHANGED failures
           \/ ~run[t].cancelled /\ ~needed /\ Moves(t, "model") /\ UNCHANGED failures
           \/ (run[t].cancelled \/ (needed /\ ~anchored)) /\ ChildFails(t) /\ UNCHANGED failures
           \/ Breaks /\ ChildFails(t)
        /\ UNCHANGED <<storeVars, noted, historyVars, await, requestVars>>

\* Mutant: the parent's messages are not cut at the anchor
ChainUncut(t) == AllActive(Parent)
\* GetParentHistory: the messages of the parent that are active by now, up to the anchor
ChainOf(t) == Active(Parent, run[t].anchor)

ReadChain(t) ==
    /\ run[t].at = "history"
    /\ \/ /\ ~run[t].cancelled
          /\ given' = [given EXCEPT ![t] = ChainOf(t)]
          /\ Moves(t, "model")
          /\ UNCHANGED failures
       \/ run[t].cancelled /\ ChildFails(t) /\ UNCHANGED <<given, failures>>
       \/ Breaks /\ ChildFails(t) /\ UNCHANGED given
    /\ UNCHANGED <<storeVars, noted, prefix, await, requestVars>>

\* The model answers and the turn goes on with its tools or is complete; or the turn ends with
\* an error or is aborted, also because the answer cannot be stored.
ModelAnswers(t) ==
    /\ run[t].at = "model"
    /\ \/ /\ ~run[t].cancelled
          /\ AppendMessage(t, "agent")
          /\ \/ Len(transcript'[t]) < MaxOwn /\ Moves(t, "anchor")
             \/ RunTo(t, [run[t] EXCEPT !.at = "outcome", !.outcome = "completed"])
       \/ ChildFails(t) /\ UNCHANGED storeVars
    /\ UNCHANGED <<noted, historyVars, await, requestVars, failures>>

\* Mutant: the outcome is not put on the timeline
OutcomeUnnoted(t) ==
    /\ run[t].at = "outcome"
    /\ Moves(t, "update")
    /\ UNCHANGED <<storeVars, noted, historyVars, await, requestVars, failures>>
\* The outcome goes to the parent's timeline first
NoteOutcome(t) ==
    /\ run[t].at = "outcome"
    /\ Note(t, run[t].outcome)
    /\ Moves(t, "update")
    /\ UNCHANGED <<storeVars, historyVars, await, requestVars>>

\* The row is written from the struct it was created from, which has no head.  A row that is
\* gone, or an update that fails, is logged.
StoreOutcome(t) ==
    /\ run[t].at = "update"
    /\ RunTo(t, [at |-> "done", outcome |-> run[t].outcome])
    /\ prefix' = [prefix EXCEPT ![t] = {}] /\ given' = [given EXCEPT ![t] = {}]
    /\ \/ /\ rows[t].there
          /\ rows' = [rows EXCEPT ![t].status = run[t].outcome, ![t].head = 0]
          /\ UNCHANGED failures
       \/ ~rows[t].there /\ UNCHANGED <<rows, failures>>
       \/ Breaks /\ UNCHANGED rows
    /\ UNCHANGED <<transcript, noted, await, requestVars>>

-----------------------------------------------------------------------------
(* await_thread. *)

BeginAwait(a, t, blocking) ==
    /\ await[a] = Silent
    /\ rows[t].there /\ run[t].at # "spawned"
    /\ await' = [await EXCEPT ![a] = [at |-> "polls", of |-> t, blocking |-> blocking, cancelled |-> FALSE]]
    /\ UNCHANGED <<storeVars, run, noted, historyVars, requestVars, failures>>

Answers(a, what) == await' = [await EXCEPT ![a] = [at |-> "returned", of |-> await[a].of, answer |-> what]]

\* Mutant: only a thread that has completed ends the wait
Completed(status) == status = "completed"
\* The status is no longer running
LeftRunning(status) == status # "running"

\* A row that cannot be read ends the wait too, because its status is not running.
PollStatus(a) ==
    LET row == rows[await[a].of]
    IN  /\ await[a].at = "polls"
        /\ \/ /\ ~await[a].cancelled /\ row.there
              /\ ~await[a].blocking \/ LeftRunning(row.status)
              /\ Answers(a, row.status) /\ UNCHANGED failures
           \/ /\ await[a].cancelled \/ ~row.there
              /\ Answers(a, "error") /\ UNCHANGED failures
           \/ Breaks /\ Answers(a, "error")
        /\ UNCHANGED <<storeVars, run, noted, historyVars, requestVars>>

-----------------------------------------------------------------------------
(* What others do to the conversations. *)

ParentAppends(by) ==
    /\ Len(transcript[Parent]) < MaxParent
    /\ AppendMessage(Parent, by)
    /\ UNCHANGED <<run, noted, historyVars, await, requestVars, failures>>

\* BranchFromMessage, for a retry or an edit of an earlier message of the user
BranchParent(m) ==
    /\ m \in DOMAIN transcript[Parent]
    /\ transcript[Parent][m] = [by |-> "user", arch |-> FALSE]
    /\ transcript' = [transcript EXCEPT ![Parent] =
                        [i \in DOMAIN @ |-> IF i > m THEN [@[i] EXCEPT !.arch = TRUE] ELSE @[i]]]
    /\ rows' = [rows EXCEPT ![Parent].head = m]
    /\ transcript' # transcript
    /\ UNCHANGED <<run, noted, historyVars, await, requestVars, failures>>

\* A title or a workspace is set: the row is read and written back whole.
ReadRow(c) ==
    /\ copied = NoCopy /\ patches < MaxPatches /\ rows[c].there
    /\ copied' = [of |-> c, row |-> rows[c]]
    /\ patches' = patches + 1
    /\ UNCHANGED <<storeVars, run, noted, historyVars, await, doomed, failures>>

WriteRow ==
    /\ copied # NoCopy
    /\ rows' = IF rows[copied.of].there THEN [rows EXCEPT ![copied.of] = copied.row] ELSE rows
    /\ copied' = NoCopy
    /\ UNCHANGED <<transcript, run, noted, historyVars, await, doomed, patches, failures>>

\* ConversationHandler.Delete: the threads a conversation has by now, and then itself
BeginDelete(c) ==
    /\ doomed = {} /\ rows[c].there
    /\ doomed' = {c} \cup {t \in Spawns : c = Parent /\ rows[t].there}
    /\ UNCHANGED <<storeVars, run, noted, historyVars, await, copied, patches, failures>>

DeleteRow(c) ==
    /\ c \in doomed /\ (c = Parent => doomed = {Parent})
    /\ doomed' = doomed \ {c}
    /\ rows' = [rows EXCEPT ![c] = NoRow]
    /\ transcript' = [transcript EXCEPT ![c] = <<>>]
    /\ noted' = IF c = Parent THEN [t \in Spawns |-> <<>>] ELSE noted
    /\ UNCHANGED <<run, historyVars, await, copied, patches, failures>>

DeleteFails ==
    /\ doomed # {} /\ Breaks
    /\ doomed' = {}
    /\ UNCHANGED <<storeVars, run, noted, historyVars, await, copied, patches>>

\* The parent's turn is cancelled, with the calls it waits for
CancelTurn ==
    /\ run' = [t \in Spawns |->
                 IF run[t].at \in {"none", "refused", "done", "dead"} \/ ~(run[t].blocking \/ run[t].at = "create")
                 THEN run[t] ELSE [run[t] EXCEPT !.cancelled = TRUE]]
    /\ await' = [a \in Awaiters |-> IF await[a].at = "polls" THEN [await[a] EXCEPT !.cancelled = TRUE] ELSE await[a]]
    /\ <<run, await>>' # <<run, await>>
    /\ UNCHANGED <<storeVars, noted, historyVars, requestVars, failures>>

\* The server dies; the rows stay.
ServerDies ==
    /\ Breaks
    /\ run' = [t \in Spawns |-> IF run[t].at \in {"none", "refused", "done"} THEN run[t]
                                ELSE [at |-> "dead", outcome |-> run[t].outcome]]
    /\ prefix' = [t \in Spawns |-> {}] /\ given' = [t \in Spawns |-> {}]
    /\ await' = [a \in Awaiters |-> IF await[a].at = "polls" THEN Silent ELSE await[a]]
    /\ copied' = NoCopy /\ doomed' = {}
    /\ UNCHANGED <<storeVars, noted, patches>>

\* A turn of the parent is under way; a request may have read its row before it had messages.
ThreadInit ==
    /\ rows = [c \in Spawns \cup {Parent} |-> IF c = Parent THEN [there |-> TRUE, head |-> 2, status |-> "none"] ELSE NoRow]
    /\ transcript = [c \in Spawns \cup {Parent} |->
                       IF c = Parent THEN <<[by |-> "user", arch |-> FALSE], [by |-> "agent", arch |-> FALSE]>> ELSE <<>>]
    /\ run = [t \in Spawns |-> [at |-> "none"]]
    /\ noted = [t \in Spawns |-> <<>>] /\ prefix = [t \in Spawns |-> {}] /\ given = [t \in Spawns |-> {}]
    /\ await = [a \in Awaiters |-> Silent]
    /\ \/ copied = NoCopy /\ patches = 0
       \/ copied = [of |-> Parent, row |-> [there |-> TRUE, head |-> 0, status |-> "none"]] /\ patches = MaxPatches
    /\ doomed = {} /\ failures = 0

SpawnStep(t) ==
    \/ CreateThread(t) \/ Announce(t) \/ AppendTask(t) \/ FindAnchor(t) \/ ReadChain(t)
    \/ ModelAnswers(t) \/ NoteOutcome(t) \/ StoreOutcome(t)

ThreadNext ==
    \/ \E t \in Spawns : SpawnStep(t)
    \/ \E t \in Spawns, full, blocking \in BOOLEAN : ResolveAnchor(t, full, blocking)
    \/ \E a \in Awaiters : PollStatus(a)
    \/ \E a \in Awaiters, t \in Spawns, blocking \in BOOLEAN : BeginAwait(a, t, blocking)
    \/ \E by \in {"user", "agent"} : ParentAppends(by)
    \/ \E m \in 1 .. MaxParent : BranchParent(m)
    \/ \E c \in Spawns \cup {Parent} : ReadRow(c) \/ BeginDelete(c) \/ DeleteRow(c)
    \/ WriteRow \/ DeleteFails \/ CancelTurn \/ ServerDies

(* The goroutines of calls and threads run on, and timers of the polls fire; a model call
   ends, and a turn has a last iteration (ChildTurnEnds of the module Turn). *)
ThreadFairness ==
    /\ \A t \in Spawns : WF_threadVars(SpawnStep(t))
    /\ \A a \in Awaiters : WF_threadVars(PollStatus(a))

ThreadSpec == ThreadInit /\ [][ThreadNext]_threadVars /\ ThreadFairness

-----------------------------------------------------------------------------
(* Properties. *)

\* The messages s are the first of those of p.
BeginsAs(s, p) == s \subseteq p /\ \A i \in s, j \in p : j < i => j \in s

\* A thread works on what the parent's transcript was when its anchor was resolved, whatever
\* is appended, archived or written back since.  A branch that falls between the two readings
\* of one history cuts it short, and it archives the anchor then.
HistoryAnchored ==
    \A t \in Spawns : given[t] # {} =>
        \/ given[t] = prefix[t]
        \/ /\ BeginsAs(given[t], prefix[t])
           /\ rows[Parent].there => transcript[Parent][run[t].anchor].arch

\* A terminal status in the row, and what await_thread says of it, is the outcome of the
\* thread's turn.  By then the timeline of the parent shows it, if nothing failed.
OutcomeTold ==
    /\ \A t \in Spawns : rows[t].there /\ rows[t].status # "running" =>
         /\ rows[t].status = run[t].outcome
         /\ failures = 0 /\ rows[Parent].there => noted[t] = <<"spawned", "started", rows[t].status>>
    /\ \A a \in Awaiters : await[a].at = "returned" /\ await[a].answer \in {"completed", "failed"} =>
         run[await[a].of].outcome = await[a].answer

\* The row of a thread whose goroutine has ended is final, if its update did not fail and no
\* copy read before was written back.
OutcomeKept ==
    \A t \in Spawns : run[t].at = "done" /\ rows[t].there /\ failures = 0 /\ patches = 0 =>
        rows[t].status = run[t].outcome

\* Threads, their histories and what is told of them agree.
ThreadsSound == HistoryAnchored /\ OutcomeTold /\ OutcomeKept

\* Nothing will ever end this thread in the store.
Stranded(t) == rows[t].there /\ rows[t].status = "running" /\ run[t].at \in {"done", "dead"}

\* A call that awaits a thread returns when the thread has an outcome, fails or is deleted,
\* without its own turn being cancelled, unless the thread was left running in the store by
\* a crash, a failed update or a row written back.
AwaitReturns ==
    \A a \in Awaiters : await[a].at = "polls" ~>
        await[a].at # "polls" \/ Stranded(await[a].of)
=============================================================================
