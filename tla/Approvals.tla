------------------------------ MODULE Approvals ------------------------------
(***************************************************************************)
(* Command approvals (loop/agent/tools/command_approval.go): tool calls    *)
(* that wait for consent, the users who give it by another HTTP request,   *)
(* and the reply handlers (loop/handlers/conversation_handler.go) that     *)
(* announce the prompts and clear the allow flag of their session.         *)
(*                                                                         *)
(* The manager's mutex covers single map operations, so AwaitDecision is   *)
(* a sequence of actions; between two of them users decide, timers fire    *)
(* and handlers leave.                                                     *)
(***************************************************************************)
EXTENDS Naturals, Sequences, FiniteSets

CONSTANTS
    Commands,   \* tool calls that need an approval
    Sessions,   \* reply requests, each with an approval session of its own
    Home,       \* the session each tool call asks in
    Detached,   \* tool calls of asynchronous child threads: they use context.Background()
    QueueCap    \* capacity of commandApprovalCh (64 in the code)

ASSUME HomeAssumption == Home \in [Commands -> Sessions] /\ Detached \subseteq Commands
ASSUME QueueAssumption == QueueCap \in Nat \ {0}

VARIABLES
    (* the manager *)
    pending,    \* the requests in the map "pending"
    allow,      \* the sessions in the map "allowSessions"
    (* the tool calls *)
    pc,         \* the next step of each tool call
    decisionCh, \* the channel of its entry, of capacity 1: a decision, or "none"
    (* the requests that resolve *)
    resolving,  \* decisions taken under the lock and not yet handed over
    decided,    \* history: the decision whose request was answered with success, or "none"
    (* the reply handlers *)
    handler,    \* "streaming", "leaving" or "returned"
    gone,       \* the context of the HTTP request is done
    ended,      \* the turn has ended and the handler knows
    queue,      \* commandApprovalCh
    shown       \* history: the prompts written to the stream

managerVars == <<pending, allow>>
callVars == <<pc, decisionCh>>
userVars == <<resolving, decided>>
handlerVars == <<handler, gone, ended, queue, shown>>
vars == <<managerVars, callVars, userVars, handlerVars>>

Decision == {"deny", "allow_once", "allow_session"}
PC == {"idle", "asked", "notifying", "waiting", "granting", "leaving", "runs", "refused"}
Busy == PC \ {"idle", "runs", "refused"}

GoTo(c, p) == pc' = [pc EXCEPT ![c] = p]

-----------------------------------------------------------------------------
(* AwaitDecision. *)

IsSessionAllowed(s) == s \in allow

\* The turn's context: done when the client has gone or the handler has left its loop.
ContextDone(c) == c \notin Detached /\ (gone[Home[c]] \/ handler[Home[c]] # "streaming")

\* A tool call of a turn asks, or one of an asynchronous child thread, which may outlive
\* the turn.
Ask(c) ==
    /\ pc[c] = "idle"
    /\ c \notin Detached => ~ended[Home[c]]
    /\ GoTo(c, IF IsSessionAllowed(Home[c]) THEN "runs" ELSE "asked")
    /\ UNCHANGED <<managerVars, decisionCh, userVars, handlerVars>>

Register(c) ==
    /\ pc[c] = "asked"
    /\ pending' = pending \cup {c}
    /\ GoTo(c, "notifying")
    /\ UNCHANGED <<allow, decisionCh, userVars, handlerVars>>

\* Mutant: a prompt for which the channel has no room is dropped.
NotifyIfRoom(c) ==
    /\ pc[c] = "notifying"
    /\ queue' = IF Len(queue[Home[c]]) < QueueCap
                THEN [queue EXCEPT ![Home[c]] = Append(@, c)] ELSE queue
    /\ GoTo(c, "waiting")
    /\ UNCHANGED <<managerVars, decisionCh, userVars, handler, gone, ended, shown>>

\* Mutant: the send does not watch the context of the request.
NotifyBlocking(c) ==
    /\ pc[c] = "notifying"
    /\ Len(queue[Home[c]]) < QueueCap
    /\ queue' = [queue EXCEPT ![Home[c]] = Append(@, c)]
    /\ GoTo(c, "waiting")
    /\ UNCHANGED <<managerVars, decisionCh, userVars, handler, gone, ended, shown>>

\* emitCommandApprovalRequest: the prompt goes to the handler, or the request is gone.
Notify(c) ==
    /\ pc[c] = "notifying"
    /\ \/ /\ Len(queue[Home[c]]) < QueueCap
          /\ queue' = [queue EXCEPT ![Home[c]] = Append(@, c)]
       \/ gone[Home[c]] /\ UNCHANGED queue
    /\ GoTo(c, "waiting")
    /\ UNCHANGED <<managerVars, decisionCh, userVars, handler, gone, ended, shown>>

\* The decision arrives; removePending finds nothing, because Resolve took the entry.
Decide(c) ==
    /\ pc[c] = "waiting"
    /\ decisionCh[c] # "none"
    /\ decisionCh' = [decisionCh EXCEPT ![c] = "none"]
    /\ pending' = pending \ {c}
    /\ GoTo(c, IF decisionCh[c] = "deny" THEN "refused"
               ELSE IF decisionCh[c] = "allow_once" THEN "runs" ELSE "granting")
    /\ UNCHANGED <<allow, userVars, handlerVars>>

\* setSessionAllowed, once more after Resolve.
Grant(c) ==
    /\ pc[c] = "granting"
    /\ allow' = allow \cup {Home[c]}
    /\ GoTo(c, "runs")
    /\ UNCHANGED <<pending, decisionCh, userVars, handlerVars>>

\* Mutant: the wait does not watch its context.
CancelNever(c) == FALSE /\ UNCHANGED vars

\* The context is done.  A decision that has arrived too may be chosen as well.
Cancel(c) ==
    /\ pc[c] = "waiting"
    /\ ContextDone(c)
    /\ GoTo(c, "leaving")
    /\ UNCHANGED <<managerVars, decisionCh, userVars, handlerVars>>

\* The timer fires.
TimeOut(c) ==
    /\ pc[c] = "waiting"
    /\ GoTo(c, "leaving")
    /\ UNCHANGED <<managerVars, decisionCh, userVars, handlerVars>>

\* Mutant: the entry stays in the map.
LeaveEntry(c) ==
    /\ pc[c] = "leaving"
    /\ GoTo(c, "refused")
    /\ UNCHANGED <<managerVars, decisionCh, userVars, handlerVars>>

RemovePending(c) ==
    /\ pc[c] = "leaving"
    /\ pending' = pending \ {c}
    /\ GoTo(c, "refused")
    /\ UNCHANGED <<allow, decisionCh, userVars, handlerVars>>

-----------------------------------------------------------------------------
(* Resolve: first the map, under the lock, and then the channel of the entry. *)

\* Mutant: the entry stays in the map until the waiter removes it.
ResolveKeeping(c, d) ==
    /\ c \in pending
    /\ allow' = IF d = "allow_session" THEN allow \cup {Home[c]} ELSE allow
    /\ resolving' = resolving \cup {[of |-> c, what |-> d]}
    /\ decided' = [decided EXCEPT ![c] = d]
    /\ UNCHANGED <<pending, callVars, handlerVars>>

\* Mutant: every consent is taken for the session.
ResolveForSession(c, d) ==
    /\ c \in pending
    /\ pending' = pending \ {c}
    /\ allow' = IF d # "deny" THEN allow \cup {Home[c]} ELSE allow
    /\ resolving' = resolving \cup {[of |-> c, what |-> d]}
    /\ decided' = [decided EXCEPT ![c] = d]
    /\ UNCHANGED <<callVars, handlerVars>>

Resolve(c, d) ==
    /\ c \in pending
    /\ pending' = pending \ {c}
    /\ allow' = IF d = "allow_session" THEN allow \cup {Home[c]} ELSE allow
    /\ resolving' = resolving \cup {[of |-> c, what |-> d]}
    /\ decided' = [decided EXCEPT ![c] = d]
    /\ UNCHANGED <<callVars, handlerVars>>

\* The send that does not wait: without room the decision is dropped.
HandOver(r) ==
    /\ r \in resolving
    /\ resolving' = resolving \ {r}
    /\ decisionCh' = [decisionCh EXCEPT ![r.of] = IF @ = "none" THEN r.what ELSE @]
    /\ UNCHANGED <<managerVars, pc, decided, handlerVars>>

-----------------------------------------------------------------------------
(* The reply handler. *)

\* The loop of Reply takes a prompt and writes it to the stream, or leaves if it cannot.
Show(s) ==
    /\ handler[s] = "streaming"
    /\ queue[s] # <<>>
    /\ queue' = [queue EXCEPT ![s] = Tail(@)]
    /\ \/ shown' = shown \cup {Head(queue[s])} /\ UNCHANGED handler
       \/ handler' = [handler EXCEPT ![s] = "leaving"] /\ UNCHANGED shown
    /\ UNCHANGED <<managerVars, callVars, userVars, gone, ended>>

Disconnect(s) ==
    /\ ~gone[s]
    /\ gone' = [gone EXCEPT ![s] = TRUE]
    /\ UNCHANGED <<managerVars, callVars, userVars, handler, ended, queue, shown>>

\* The turn has ended, as it does when its tool calls have returned, and the handler sees
\* its terminal event; or the handler sees that the client has gone.  The deferred calls
\* cancel the turn and then clear the session.
Leave(s) ==
    /\ handler[s] = "streaming"
    /\ \/ /\ \A c \in Commands \ Detached : Home[c] = s => pc[c] \notin Busy
          /\ ended' = [ended EXCEPT ![s] = TRUE]
       \/ gone[s] /\ UNCHANGED ended
    /\ handler' = [handler EXCEPT ![s] = "leaving"]
    /\ UNCHANGED <<managerVars, callVars, userVars, gone, queue, shown>>

\* An event of the turn or a thread's status cannot be written, although the context of the
\* request is not done yet.
SendFails(s) ==
    /\ handler[s] = "streaming"
    /\ handler' = [handler EXCEPT ![s] = "leaving"]
    /\ UNCHANGED <<managerVars, callVars, userVars, gone, ended, queue, shown>>

\* The server cancels the context of a request whose handler has returned.
ClearSession(s) ==
    /\ handler[s] = "leaving"
    /\ handler' = [handler EXCEPT ![s] = "returned"]
    /\ allow' = allow \ {s}
    /\ gone' = [gone EXCEPT ![s] = TRUE]
    /\ UNCHANGED <<pending, callVars, userVars, ended, queue, shown>>

-----------------------------------------------------------------------------
Init ==
    /\ pending = {} /\ allow = {} /\ resolving = {} /\ shown = {}
    /\ pc = [c \in Commands |-> "idle"]
    /\ decisionCh = [c \in Commands |-> "none"]
    /\ decided = [c \in Commands |-> "none"]
    /\ handler = [s \in Sessions |-> "streaming"]
    /\ gone = [s \in Sessions |-> FALSE]
    /\ ended = [s \in Sessions |-> FALSE]
    /\ queue = [s \in Sessions |-> <<>>]

AwaitDecision(c) ==
    Register(c) \/ Notify(c) \/ Decide(c) \/ Grant(c) \/ Cancel(c) \/ RemovePending(c)

Handler(s) == Show(s) \/ Leave(s) \/ ClearSession(s)

Next ==
    \/ \E c \in Commands : Ask(c) \/ AwaitDecision(c) \/ TimeOut(c)
    \/ \E c \in Commands, d \in Decision : Resolve(c, d)
    \/ \E r \in resolving : HandOver(r)
    \/ \E s \in Sessions : Handler(s) \/ SendFails(s) \/ Disconnect(s)

Spec == Init /\ [][Next]_vars

(* Goroutines that can run do, those of tool calls and those of the handlers, and a request
   that resolves finishes. No timer need fire: it is set to ten minutes. *)
ApprovalsFairness ==
    /\ \A c \in Commands : WF_vars(AwaitDecision(c))
    /\ \A s \in Sessions : WF_vars(Handler(s))
    /\ WF_vars(\E r \in resolving : HandOver(r))

FairSpec == Spec /\ ApprovalsFairness

-----------------------------------------------------------------------------
(* Properties. *)

TypeOK ==
    /\ pending \subseteq Commands /\ shown \subseteq Commands /\ allow \subseteq Sessions
    /\ pc \in [Commands -> PC]
    /\ decisionCh \in [Commands -> Decision \cup {"none"}]
    /\ decided \in [Commands -> Decision \cup {"none"}]
    /\ resolving \subseteq [of : Commands, what : Decision]
    /\ handler \in [Sessions -> {"streaming", "leaving", "returned"}]
    /\ gone \in [Sessions -> BOOLEAN] /\ ended \in [Sessions -> BOOLEAN]
    /\ queue \in [Sessions -> Seq(Commands)]

\* A command runs only with consent: a user allowed it, or allowed the session it asks in
\* by another of its commands.  One that a user denied never runs.
ConsentNeeded ==
    \A c \in Commands : pc[c] \in {"granting", "runs"} =>
        \/ decided[c] \in {"allow_once", "allow_session"}
        \/ /\ decided[c] = "none"
           /\ \E d \in Commands : Home[d] = Home[c] /\ decided[d] = "allow_session"

HasDecision(c) == decisionCh[c] # "none" \/ \E r \in resolving : r.of = c

\* What is listed as pending can still be decided, and whoever waits can still be reached:
\* by the entry in the map, or by the decision that took it out.
EntryHasWaiter ==
    \A c \in Commands :
        /\ c \in pending => pc[c] \in {"notifying", "waiting", "leaving"}
        /\ pc[c] \in {"notifying", "waiting"} => c \in pending \/ HasDecision(c)

\* Two users who answer one prompt at the same time: one succeeds, and its decision finds
\* the channel empty, so the send that does not wait never drops it.
OneDecision ==
    /\ \A r \in resolving : decisionCh[r.of] = "none"
    /\ \A q, r \in resolving : q.of = r.of => q = r

\* Whichever of the users, the timer and the context comes first, a prompt has one answer and
\* its waiter gets it.
OneAnswer == EntryHasWaiter /\ OneDecision

\* While its client listens and its handler streams, a command that waits has been shown
\* to the user or will be.
PromptAnnounced ==
    \A c \in Commands : LET s == Home[c] IN
        pc[c] = "waiting" /\ handler[s] = "streaming" /\ ~gone[s] =>
            c \in shown \/ \E k \in DOMAIN queue[s] : queue[s][k] = c

\* No tool call hangs in the announcement of its prompt, which comes before the wait with
\* its timeout: neither a full channel nor a handler that has left can keep it there.
AnnouncementReturns ==
    \A c \in Commands : pc[c] = "notifying" ~> pc[c] # "notifying"

\* The tool calls of a turn whose client has gone return, without waiting for the timer.
AbandonedCallsReturn ==
    \A c \in Commands : c \notin Detached /\ gone[Home[c]] /\ pc[c] \in Busy ~> pc[c] \notin Busy

\* No call hangs in its announcement or after its client has gone.
CallsReturn == AnnouncementReturns /\ AbandonedCallsReturn

-----------------------------------------------------------------------------
(* The inductive invariant: an entry is taken out of the map by one decision at most, and  *)
(* that decision is what its waiter receives; every flag stems from a decision.            *)

Undecided(c) == decided[c] = "none" /\ ~HasDecision(c)

CallInv(c) ==
    /\ pc[c] \in {"idle", "asked"} => c \notin pending /\ Undecided(c)
    /\ pc[c] \in {"granting", "runs", "refused"} => c \notin pending
    /\ c \in pending => Undecided(c)
    /\ decisionCh[c] # "none" => decided[c] = decisionCh[c]
    /\ pc[c] = "granting" => decided[c] = "allow_session"

HandedOverOnce == \A r \in resolving : decided[r.of] = r.what

FlagsDecided == \A s \in allow : \E d \in Commands : Home[d] = s /\ decided[d] = "allow_session"

ApprovalsInv ==
    /\ TypeOK
    /\ \A c \in Commands : CallInv(c)
    /\ HandedOverOnce
    /\ FlagsDecided
    /\ ConsentNeeded
    /\ EntryHasWaiter
    /\ OneDecision
    /\ PromptAnnounced
=============================================================================
