------------------------------- MODULE MCTools -------------------------------
(***************************************************************************)
(* The instances of the tools that wait for others which TLC checks: calls *)
(* that need an approval, and calls that start and await child threads.    *)
(* They share no variable: each behaviour runs one of the two, and leaves  *)
(* the other at its first state.  The threads have two parts: histories,   *)
(* with a parent that goes on, and outcomes, with calls that await them.   *)
(***************************************************************************)
EXTENDS Approvals, Threads

CONSTANTS c1, c2, s1

VARIABLE part   \* the component that runs

\* A call of the turn and one of a child thread ask in one session.
CallsHome == [c \in {c1, c2} |-> s1]

HistoriesNext ==
    /\ ThreadNext
    /\ failures' = 0 /\ UNCHANGED await
    /\ \A t \in Spawns : run'[t].at = "create" => ~run'[t].blocking
OutcomesNext ==
    /\ ThreadNext
    /\ UNCHANGED <<rows[Parent], transcript[Parent]>>
    /\ \A t \in Spawns : Len(transcript'[t]) <= 2

ToolsInit ==
    /\ Init /\ ThreadInit
    /\ part \in {"approvals", "histories", "outcomes"}
    /\ part # "histories" => copied = NoCopy

ToolsNext ==
    /\ UNCHANGED part
    /\ \/ part = "approvals" /\ Next /\ UNCHANGED threadVars
       \/ part = "histories" /\ HistoriesNext /\ UNCHANGED vars
       \/ part = "outcomes" /\ OutcomesNext /\ UNCHANGED vars

\* Each part is as fair as its component is (ApprovalsFairness, ThreadFairness).
ToolsSpec ==
    /\ ToolsInit /\ [][ToolsNext]_<<part, vars, threadVars>>
    /\ \A c \in Commands : WF_vars(part = "approvals" /\ AwaitDecision(c))
    /\ \A s \in Sessions : WF_vars(part = "approvals" /\ Handler(s))
    /\ WF_vars(part = "approvals" /\ \E r \in resolving : HandOver(r))
    /\ \A t \in Spawns : WF_threadVars(part = "outcomes" /\ SpawnStep(t))
    /\ \A a \in Awaiters : WF_threadVars(part = "outcomes" /\ PollStatus(a))
=============================================================================
