---------------------------- MODULE CommandProofs ----------------------------
(***************************************************************************)
(* Theorems about the commands the model runs: the approval of a command   *)
(* (Approvals), for any tool calls, sessions and channel capacity, and the *)
(* processes that outlive their call (Processes), for any set of calls and *)
(* any number of processes, pieces of output and polls.                    *)
(***************************************************************************)
EXTENDS Approvals, Processes, SequenceTheorems, TLAPS

-----------------------------------------------------------------------------
(* Channels as sequences. *)

\* A send keeps what the channel holds and puts the new element behind it.
LEMMA AppendKeeps ==
    ASSUME NEW q \in Seq(Commands), NEW e \in Commands
    PROVE  /\ \A k \in DOMAIN q : k \in DOMAIN Append(q, e) /\ Append(q, e)[k] = q[k]
           /\ Len(q) + 1 \in DOMAIN Append(q, e)
           /\ Append(q, e)[Len(q) + 1] = e
OBVIOUS

\* A receive takes the first element and moves each other one forward.
LEMMA TailKeeps ==
    ASSUME NEW q \in Seq(Commands), q # <<>>
    PROVE  /\ Head(q) \in Commands
           /\ Tail(q) \in Seq(Commands)
           /\ \A k \in DOMAIN q : \/ q[k] = Head(q)
                                  \/ k - 1 \in DOMAIN Tail(q) /\ Tail(q)[k - 1] = q[k]
OBVIOUS

-----------------------------------------------------------------------------
(* One lemma per action. *)

\* A call that finds the flag of its session runs by a consent of another one.
LEMMA AskInv ==
    ASSUME ApprovalsInv, NEW c \in Commands, Ask(c)
    PROVE  ApprovalsInv'
<1> USE HomeAssumption DEF ApprovalsInv, TypeOK, Ask, GoTo, IsSessionAllowed,
       managerVars, callVars, userVars, handlerVars
<1>1. TypeOK'
  BY DEF TypeOK, PC, Decision
<1>2. (\A x \in Commands : CallInv(x))'
  BY DEF CallInv, Undecided, HasDecision
<1>3. HandedOverOnce'
  BY DEF HandedOverOnce
<1>4. FlagsDecided'
  BY DEF FlagsDecided
<1>5. ConsentNeeded'
  <2>1. decided[c] = "none"
    BY DEF CallInv, Undecided
  <2>2. pc'[c] = "runs" => \E d \in Commands : Home[d] = Home[c] /\ decided[d] = "allow_session"
    BY DEF FlagsDecided
  <2>3. \A x \in Commands : x # c => pc'[x] = pc[x]
    OBVIOUS
  <2>4. pc'[c] # "granting"
    OBVIOUS
  <2> QED
    BY <2>1, <2>2, <2>3, <2>4 DEF ConsentNeeded
<1>6. EntryHasWaiter'
  BY DEF EntryHasWaiter, HasDecision, CallInv, Undecided
<1>7. OneDecision'
  BY DEF OneDecision
<1>8. PromptAnnounced'
  BY DEF PromptAnnounced
<1> QED
  BY <1>1, <1>2, <1>3, <1>4, <1>5, <1>6, <1>7, <1>8

\* An entry that is registered is undecided, and its call announces it next.
LEMMA RegisterInv ==
    ASSUME ApprovalsInv, NEW c \in Commands, Register(c)
    PROVE  ApprovalsInv'
<1> USE HomeAssumption DEF ApprovalsInv, TypeOK, Register, GoTo,
       managerVars, callVars, userVars, handlerVars
<1>1. TypeOK'
  BY DEF TypeOK, PC, Decision
<1>2. (\A x \in Commands : CallInv(x))'
  BY DEF CallInv, Undecided, HasDecision
<1>3. HandedOverOnce'
  BY DEF HandedOverOnce
<1>4. FlagsDecided'
  BY DEF FlagsDecided
<1>5. ConsentNeeded'
  BY DEF ConsentNeeded
<1>6. EntryHasWaiter'
  BY DEF EntryHasWaiter, HasDecision, CallInv, Undecided
<1>7. OneDecision'
  BY DEF OneDecision
<1>8. PromptAnnounced'
  BY DEF PromptAnnounced
<1> QED
  BY <1>1, <1>2, <1>3, <1>4, <1>5, <1>6, <1>7, <1>8

\* The prompt that the handler receives is the last of its channel.
LEMMA NotifyInv ==
    ASSUME ApprovalsInv, NEW c \in Commands, Notify(c)
    PROVE  ApprovalsInv'
<1> USE HomeAssumption DEF ApprovalsInv, TypeOK, Notify, GoTo,
       managerVars, callVars, userVars, handlerVars
<1>1. TypeOK'
  <2>1. Home[c] \in Sessions /\ queue[Home[c]] \in Seq(Commands)
    OBVIOUS
  <2>2. Append(queue[Home[c]], c) \in Seq(Commands)
    BY <2>1
  <2>3. queue' \in [Sessions -> Seq(Commands)]
    BY <2>2
  <2> QED
    BY <2>3 DEF PC
<1>2. (\A x \in Commands : CallInv(x))'
  BY DEF CallInv, Undecided, HasDecision
<1>3. HandedOverOnce'
  BY DEF HandedOverOnce
<1>4. FlagsDecided'
  BY DEF FlagsDecided
<1>5. ConsentNeeded'
  BY DEF ConsentNeeded
<1>6. EntryHasWaiter'
  BY DEF EntryHasWaiter, HasDecision, CallInv, Undecided
<1>7. OneDecision'
  BY DEF OneDecision
<1>8. PromptAnnounced'
  <2> DEFINE q == queue[Home[c]]
  <2>1. Home[c] \in Sessions /\ q \in Seq(Commands)
    OBVIOUS
  <2>2. CASE queue' = [queue EXCEPT ![Home[c]] = Append(@, c)]
    <3>1. queue'[Home[c]] = Append(q, c)
      BY <2>1, <2>2
    <3>2. /\ \A k \in DOMAIN q : k \in DOMAIN queue'[Home[c]] /\ queue'[Home[c]][k] = q[k]
          /\ Len(q) + 1 \in DOMAIN queue'[Home[c]] /\ queue'[Home[c]][Len(q) + 1] = c
      BY <2>1, <3>1, AppendKeeps
    <3> HIDE DEF q
    <3>3. \E k \in DOMAIN queue'[Home[c]] : queue'[Home[c]][k] = c
      BY <3>2
    <3>4. ASSUME NEW x \in Commands, NEW k \in DOMAIN queue[Home[x]], queue[Home[x]][k] = x
          PROVE  \E j \in DOMAIN queue'[Home[x]] : queue'[Home[x]][j] = x
      <4>1. CASE Home[x] = Home[c]
        BY <3>2, <3>4, <4>1 DEF q
      <4>2. CASE Home[x] # Home[c]
        <5>1. queue'[Home[x]] = queue[Home[x]]
          BY <2>2, <4>2
        <5> QED
          BY <3>4, <5>1
      <4> QED
        BY <4>1, <4>2
    <3>5. ASSUME NEW x \in Commands, pc'[x] = "waiting", handler[Home[x]] = "streaming", ~gone[Home[x]]
          PROVE  x \in shown \/ \E k \in DOMAIN queue'[Home[x]] : queue'[Home[x]][k] = x
      <4>1. CASE x = c
        BY <3>3, <4>1
      <4>2. CASE x # c
        <5>1. pc[x] = "waiting"
          BY <3>5, <4>2
        <5>2. x \in shown \/ \E k \in DOMAIN queue[Home[x]] : queue[Home[x]][k] = x
          BY <3>5, <5>1 DEF PromptAnnounced
        <5> QED
          BY <3>4, <5>2
      <4> QED
        BY <4>1, <4>2
    <3>6. UNCHANGED <<handler, gone, shown>>
      OBVIOUS
    <3> QED
      BY <3>5, <3>6 DEF PromptAnnounced
  <2>3. CASE gone[Home[c]] /\ UNCHANGED queue
    BY <2>3 DEF PromptAnnounced
  <2> QED
    BY <2>2, <2>3
<1> QED
  BY <1>1, <1>2, <1>3, <1>4, <1>5, <1>6, <1>7, <1>8

\* The decision a call receives is the one its user was told of.
LEMMA DecideInv ==
    ASSUME ApprovalsInv, NEW c \in Commands, Decide(c)
    PROVE  ApprovalsInv'
<1> USE HomeAssumption DEF ApprovalsInv, TypeOK, Decide, GoTo,
       managerVars, callVars, userVars, handlerVars
<1>1. TypeOK'
  BY DEF TypeOK, PC, Decision
<1>2. (\A x \in Commands : CallInv(x))'
  <2>1. decided[c] = decisionCh[c] /\ c \notin pending
    BY DEF CallInv, Undecided, HasDecision
  <2>2. CallInv(c)'
    BY <2>1 DEF CallInv, Undecided, HasDecision, Decision
  <2>3. ASSUME NEW x \in Commands, x # c
        PROVE  CallInv(x)'
    BY <2>3 DEF CallInv, Undecided, HasDecision
  <2> QED
    BY <2>2, <2>3
<1>3. HandedOverOnce'
  BY DEF HandedOverOnce
<1>4. FlagsDecided'
  BY DEF FlagsDecided
<1>5. ConsentNeeded'
  BY DEF ConsentNeeded, CallInv, Decision
<1>6. EntryHasWaiter'
  BY DEF EntryHasWaiter, HasDecision, CallInv, Undecided
<1>7. OneDecision'
  BY DEF OneDecision
<1>8. PromptAnnounced'
  BY DEF PromptAnnounced
<1> QED
  BY <1>1, <1>2, <1>3, <1>4, <1>5, <1>6, <1>7, <1>8

\* The flag that the call sets again stems from its own decision.
LEMMA GrantInv ==
    ASSUME ApprovalsInv, NEW c \in Commands, Grant(c)
    PROVE  ApprovalsInv'
<1> USE HomeAssumption DEF ApprovalsInv, TypeOK, Grant, GoTo,
       managerVars, callVars, userVars, handlerVars
<1>1. TypeOK'
  BY DEF TypeOK, PC, Decision
<1>2. (\A x \in Commands : CallInv(x))'
  BY DEF CallInv, Undecided, HasDecision
<1>3. HandedOverOnce'
  BY DEF HandedOverOnce
<1>4. FlagsDecided'
  BY DEF FlagsDecided, CallInv
<1>5. ConsentNeeded'
  BY DEF ConsentNeeded
<1>6. EntryHasWaiter'
  BY DEF EntryHasWaiter, HasDecision, CallInv, Undecided
<1>7. OneDecision'
  BY DEF OneDecision
<1>8. PromptAnnounced'
  BY DEF PromptAnnounced
<1> QED
  BY <1>1, <1>2, <1>3, <1>4, <1>5, <1>6, <1>7, <1>8

\* A call whose context is done stops waiting, with its entry or its decision in place.
LEMMA CancelInv ==
    ASSUME ApprovalsInv, NEW c \in Commands, Cancel(c)
    PROVE  ApprovalsInv'
<1> USE HomeAssumption DEF ApprovalsInv, TypeOK, Cancel, GoTo,
       managerVars, callVars, userVars, handlerVars
<1>1. TypeOK'
  BY DEF TypeOK, PC, Decision
<1>2. (\A x \in Commands : CallInv(x))'
  BY DEF CallInv, Undecided, HasDecision
<1>3. HandedOverOnce'
  BY DEF HandedOverOnce
<1>4. FlagsDecided'
  BY DEF FlagsDecided
<1>5. ConsentNeeded'
  BY DEF ConsentNeeded
<1>6. EntryHasWaiter'
  BY DEF EntryHasWaiter, HasDecision, CallInv, Undecided
<1>7. OneDecision'
  BY DEF OneDecision
<1>8. PromptAnnounced'
  BY DEF PromptAnnounced
<1> QED
  BY <1>1, <1>2, <1>3, <1>4, <1>5, <1>6, <1>7, <1>8

\* A call whose timer fires stops waiting, with its entry or its decision in place.
LEMMA TimeOutInv ==
    ASSUME ApprovalsInv, NEW c \in Commands, TimeOut(c)
    PROVE  ApprovalsInv'
<1> USE HomeAssumption DEF ApprovalsInv, TypeOK, TimeOut, GoTo,
       managerVars, callVars, userVars, handlerVars
<1>1. TypeOK'
  BY DEF TypeOK, PC, Decision
<1>2. (\A x \in Commands : CallInv(x))'
  BY DEF CallInv, Undecided, HasDecision
<1>3. HandedOverOnce'
  BY DEF HandedOverOnce
<1>4. FlagsDecided'
  BY DEF FlagsDecided
<1>5. ConsentNeeded'
  BY DEF ConsentNeeded
<1>6. EntryHasWaiter'
  BY DEF EntryHasWaiter, HasDecision, CallInv, Undecided
<1>7. OneDecision'
  BY DEF OneDecision
<1>8. PromptAnnounced'
  BY DEF PromptAnnounced
<1> QED
  BY <1>1, <1>2, <1>3, <1>4, <1>5, <1>6, <1>7, <1>8

\* A call that has stopped waiting refuses, whatever was decided.
LEMMA RemovePendingInv ==
    ASSUME ApprovalsInv, NEW c \in Commands, RemovePending(c)
    PROVE  ApprovalsInv'
<1> USE HomeAssumption DEF ApprovalsInv, TypeOK, RemovePending, GoTo,
       managerVars, callVars, userVars, handlerVars
<1>1. TypeOK'
  BY DEF TypeOK, PC, Decision
<1>2. (\A x \in Commands : CallInv(x))'
  BY DEF CallInv, Undecided, HasDecision
<1>3. HandedOverOnce'
  BY DEF HandedOverOnce
<1>4. FlagsDecided'
  BY DEF FlagsDecided
<1>5. ConsentNeeded'
  BY DEF ConsentNeeded
<1>6. EntryHasWaiter'
  BY DEF EntryHasWaiter, HasDecision, CallInv, Undecided
<1>7. OneDecision'
  BY DEF OneDecision
<1>8. PromptAnnounced'
  BY DEF PromptAnnounced
<1> QED
  BY <1>1, <1>2, <1>3, <1>4, <1>5, <1>6, <1>7, <1>8

\* An entry that is in the map is undecided, so the decision taken for it is the only one.
LEMMA ResolveInv ==
    ASSUME ApprovalsInv, NEW c \in Commands, NEW d \in Decision, Resolve(c, d)
    PROVE  ApprovalsInv'
<1> USE HomeAssumption DEF ApprovalsInv, TypeOK, Resolve,
       managerVars, callVars, userVars, handlerVars
<1>0. decided[c] = "none" /\ decisionCh[c] = "none" /\ (\A r \in resolving : r.of # c)
  BY DEF CallInv, Undecided, HasDecision
<1>a. LET r == [of |-> c, what |-> d]
      IN  r \in [of : Commands, what : Decision] /\ r.of = c /\ r.what = d
  OBVIOUS
<1>1. TypeOK'
  <2>1. resolving' \subseteq [of : Commands, what : Decision]
    BY <1>a
  <2>2. decided' \in [Commands -> Decision \cup {"none"}]
    OBVIOUS
  <2> QED
    BY <2>1, <2>2
<1>2. (\A x \in Commands : CallInv(x))'
  <2>1. \A x \in Commands : x # c /\ HasDecision(x)' => HasDecision(x)
    BY <1>a DEF HasDecision
  <2>2. CallInv(c)'
    BY <1>0 DEF CallInv, EntryHasWaiter
  <2>3. ASSUME NEW x \in Commands, x # c
        PROVE  CallInv(x)'
    BY <2>1, <2>3 DEF CallInv, Undecided
  <2> QED
    BY <2>2, <2>3
<1>3. HandedOverOnce'
  BY <1>0, <1>a DEF HandedOverOnce
<1>4. FlagsDecided'
  BY <1>0 DEF FlagsDecided
<1>5. ConsentNeeded'
  BY <1>0 DEF ConsentNeeded, EntryHasWaiter
<1>6. EntryHasWaiter'
  <2>1. HasDecision(c)'
    BY <1>a DEF HasDecision
  <2>2. \A x \in Commands : HasDecision(x) => HasDecision(x)'
    BY DEF HasDecision
  <2> QED
    BY <2>1, <2>2 DEF EntryHasWaiter
<1>7. OneDecision'
  BY <1>0, <1>a DEF OneDecision
<1>8. PromptAnnounced'
  BY DEF PromptAnnounced
<1> QED
  BY <1>1, <1>2, <1>3, <1>4, <1>5, <1>6, <1>7, <1>8

\* The channel of the entry is empty when the only decision for it arrives.
LEMMA HandOverInv ==
    ASSUME ApprovalsInv, NEW r \in resolving, HandOver(r)
    PROVE  ApprovalsInv'
<1> USE HomeAssumption DEF ApprovalsInv, TypeOK, HandOver,
       managerVars, callVars, userVars, handlerVars
<1>0. r.of \in Commands /\ r.what \in Decision /\ decisionCh[r.of] = "none" /\ decided[r.of] = r.what
  BY DEF OneDecision, HandedOverOnce
<1>a. decisionCh' = [decisionCh EXCEPT ![r.of] = r.what] /\ r.what # "none"
  BY <1>0 DEF Decision
<1>b. \A x \in Commands : HasDecision(x)' <=> HasDecision(x)
  BY <1>0, <1>a DEF HasDecision
<1>1. TypeOK'
  BY <1>0, <1>a
<1>2. (\A x \in Commands : CallInv(x))'
  BY <1>0, <1>a, <1>b DEF CallInv, Undecided
<1>3. HandedOverOnce'
  BY DEF HandedOverOnce
<1>4. FlagsDecided'
  BY DEF FlagsDecided
<1>5. ConsentNeeded'
  BY DEF ConsentNeeded
<1>6. EntryHasWaiter'
  BY <1>b DEF EntryHasWaiter
<1>7. OneDecision'
  BY <1>0, <1>a DEF OneDecision
<1>8. PromptAnnounced'
  BY DEF PromptAnnounced
<1> QED
  BY <1>1, <1>2, <1>3, <1>4, <1>5, <1>6, <1>7, <1>8

\* A prompt that leaves the channel is shown, or the handler has left its loop.
LEMMA ShowInv ==
    ASSUME ApprovalsInv, NEW s \in Sessions, Show(s)
    PROVE  ApprovalsInv'
<1> USE HomeAssumption DEF ApprovalsInv, TypeOK, Show,
       managerVars, callVars, userVars, handlerVars
<1>0. queue[s] \in Seq(Commands) /\ queue[s] # <<>>
  OBVIOUS
<1>1. TypeOK'
  <2>1. Head(queue[s]) \in Commands /\ Tail(queue[s]) \in Seq(Commands)
    BY <1>0, TailKeeps
  <2>2. queue' \in [Sessions -> Seq(Commands)]
    BY <2>1
  <2> QED
    BY <2>1, <2>2
<1>2. (\A x \in Commands : CallInv(x))'
  BY DEF CallInv, Undecided, HasDecision
<1>3. HandedOverOnce'
  BY DEF HandedOverOnce
<1>4. FlagsDecided'
  BY DEF FlagsDecided
<1>5. ConsentNeeded'
  BY DEF ConsentNeeded
<1>6. EntryHasWaiter'
  BY DEF EntryHasWaiter, HasDecision, CallInv, Undecided
<1>7. OneDecision'
  BY DEF OneDecision
<1>8. PromptAnnounced'
  <2>1. \A k \in DOMAIN queue[s] :
           \/ queue[s][k] = Head(queue[s])
           \/ k - 1 \in DOMAIN Tail(queue[s]) /\ Tail(queue[s])[k - 1] = queue[s][k]
    BY <1>0, TailKeeps
  <2>2. queue'[s] = Tail(queue[s])
    OBVIOUS
  <2>3. CASE shown' = shown \cup {Head(queue[s])} /\ UNCHANGED handler
    <3>1. ASSUME NEW x \in Commands, Home[x] = s, pc[x] = "waiting", ~gone[s]
          PROVE  x \in shown' \/ \E k \in DOMAIN queue'[s] : queue'[s][k] = x
      <4>1. CASE x \in shown
        BY <2>3, <4>1
      <4>2. ASSUME NEW k \in DOMAIN queue[s], queue[s][k] = x
            PROVE  x \in shown' \/ \E j \in DOMAIN queue'[s] : queue'[s][j] = x
        BY <2>1, <2>2, <2>3, <4>2
      <4>3. x \in shown \/ \E k \in DOMAIN queue[s] : queue[s][k] = x
        BY <3>1 DEF PromptAnnounced
      <4> QED
        BY <4>1, <4>2, <4>3
    <3> QED
      BY <2>3, <3>1 DEF PromptAnnounced
  <2>4. CASE handler' = [handler EXCEPT ![s] = "leaving"] /\ UNCHANGED shown
    BY <2>4 DEF PromptAnnounced
  <2> QED
    BY <2>3, <2>4
<1> QED
  BY <1>1, <1>2, <1>3, <1>4, <1>5, <1>6, <1>7, <1>8

\* A client that goes needs no prompts.
LEMMA DisconnectInv ==
    ASSUME ApprovalsInv, NEW s \in Sessions, Disconnect(s)
    PROVE  ApprovalsInv'
<1> USE HomeAssumption DEF ApprovalsInv, TypeOK, Disconnect,
       managerVars, callVars, userVars, handlerVars
<1>1. TypeOK'
  BY DEF TypeOK, PC, Decision
<1>2. (\A x \in Commands : CallInv(x))'
  BY DEF CallInv, Undecided, HasDecision
<1>3. HandedOverOnce'
  BY DEF HandedOverOnce
<1>4. FlagsDecided'
  BY DEF FlagsDecided
<1>5. ConsentNeeded'
  BY DEF ConsentNeeded
<1>6. EntryHasWaiter'
  BY DEF EntryHasWaiter, HasDecision, CallInv, Undecided
<1>7. OneDecision'
  BY DEF OneDecision
<1>8. PromptAnnounced'
  BY DEF PromptAnnounced
<1> QED
  BY <1>1, <1>2, <1>3, <1>4, <1>5, <1>6, <1>7, <1>8

\* A handler that cannot write shows no more prompts.
LEMMA SendFailsInv ==
    ASSUME ApprovalsInv, NEW s \in Sessions, SendFails(s)
    PROVE  ApprovalsInv'
<1> USE HomeAssumption DEF ApprovalsInv, TypeOK, SendFails,
       managerVars, callVars, userVars, handlerVars
<1>1. TypeOK'
  BY DEF TypeOK, PC, Decision
<1>2. (\A x \in Commands : CallInv(x))'
  BY DEF CallInv, Undecided, HasDecision
<1>3. HandedOverOnce'
  BY DEF HandedOverOnce
<1>4. FlagsDecided'
  BY DEF FlagsDecided
<1>5. ConsentNeeded'
  BY DEF ConsentNeeded
<1>6. EntryHasWaiter'
  BY DEF EntryHasWaiter, HasDecision, CallInv, Undecided
<1>7. OneDecision'
  BY DEF OneDecision
<1>8. PromptAnnounced'
  BY DEF PromptAnnounced
<1> QED
  BY <1>1, <1>2, <1>3, <1>4, <1>5, <1>6, <1>7, <1>8

\* A handler that leaves shows no more prompts.
LEMMA LeaveInv ==
    ASSUME ApprovalsInv, NEW s \in Sessions, Leave(s)
    PROVE  ApprovalsInv'
<1> USE HomeAssumption DEF ApprovalsInv, TypeOK, Leave,
       managerVars, callVars, userVars, handlerVars
<1>1. TypeOK'
  BY DEF TypeOK, PC, Decision
<1>2. (\A x \in Commands : CallInv(x))'
  BY DEF CallInv, Undecided, HasDecision
<1>3. HandedOverOnce'
  BY DEF HandedOverOnce
<1>4. FlagsDecided'
  BY DEF FlagsDecided
<1>5. ConsentNeeded'
  BY DEF ConsentNeeded
<1>6. EntryHasWaiter'
  BY DEF EntryHasWaiter, HasDecision, CallInv, Undecided
<1>7. OneDecision'
  BY DEF OneDecision
<1>8. PromptAnnounced'
  BY DEF PromptAnnounced
<1> QED
  BY <1>1, <1>2, <1>3, <1>4, <1>5, <1>6, <1>7, <1>8

\* A cleared session has one flag less.
LEMMA ClearSessionInv ==
    ASSUME ApprovalsInv, NEW s \in Sessions, ClearSession(s)
    PROVE  ApprovalsInv'
<1> USE HomeAssumption DEF ApprovalsInv, TypeOK, ClearSession,
       managerVars, callVars, userVars, handlerVars
<1>1. TypeOK'
  BY DEF TypeOK, PC, Decision
<1>2. (\A x \in Commands : CallInv(x))'
  BY DEF CallInv, Undecided, HasDecision
<1>3. HandedOverOnce'
  BY DEF HandedOverOnce
<1>4. FlagsDecided'
  BY DEF FlagsDecided
<1>5. ConsentNeeded'
  BY DEF ConsentNeeded
<1>6. EntryHasWaiter'
  BY DEF EntryHasWaiter, HasDecision, CallInv, Undecided
<1>7. OneDecision'
  BY DEF OneDecision
<1>8. PromptAnnounced'
  BY DEF PromptAnnounced
<1> QED
  BY <1>1, <1>2, <1>3, <1>4, <1>5, <1>6, <1>7, <1>8

-----------------------------------------------------------------------------
\* The invariant holds before the first tool call asks.
LEMMA ApprovalsInitInv == Init => ApprovalsInv
<1> SUFFICES ASSUME Init PROVE ApprovalsInv
  OBVIOUS
<1> USE HomeAssumption DEF Init
<1>1. TypeOK
  BY DEF TypeOK, PC
<1>2. \A c \in Commands : CallInv(c)
  BY DEF CallInv, Undecided, HasDecision
<1>3. HandedOverOnce /\ FlagsDecided /\ OneDecision
  BY DEF HandedOverOnce, FlagsDecided, OneDecision
<1>4. ConsentNeeded /\ EntryHasWaiter /\ PromptAnnounced
  BY DEF ConsentNeeded, EntryHasWaiter, PromptAnnounced
<1> QED
  BY <1>1, <1>2, <1>3, <1>4 DEF ApprovalsInv

\* The invariant is inductive.
LEMMA ApprovalsNextInv == ApprovalsInv /\ [Next]_vars => ApprovalsInv'
<1> SUFFICES ASSUME ApprovalsInv, [Next]_vars PROVE ApprovalsInv'
  OBVIOUS
<1>1. ASSUME NEW c \in Commands, Ask(c) \/ AwaitDecision(c) \/ TimeOut(c)
      PROVE  ApprovalsInv'
  BY <1>1, AskInv, RegisterInv, NotifyInv, DecideInv, GrantInv, CancelInv, TimeOutInv, RemovePendingInv
     DEF AwaitDecision
<1>2. ASSUME NEW c \in Commands, NEW d \in Decision, Resolve(c, d)
      PROVE  ApprovalsInv'
  BY <1>2, ResolveInv
<1>3. ASSUME NEW r \in resolving, HandOver(r)
      PROVE  ApprovalsInv'
  BY <1>3, HandOverInv
<1>4. ASSUME NEW s \in Sessions, Handler(s) \/ SendFails(s) \/ Disconnect(s)
      PROVE  ApprovalsInv'
  BY <1>4, ShowInv, LeaveInv, ClearSessionInv, SendFailsInv, DisconnectInv DEF Handler
<1>5. CASE UNCHANGED vars
  <2> USE <1>5 DEF vars, managerVars, callVars, userVars, handlerVars
  <2>1. TypeOK' /\ HandedOverOnce' /\ FlagsDecided' /\ OneDecision'
    BY DEF ApprovalsInv, TypeOK, HandedOverOnce, FlagsDecided, OneDecision
  <2>2. (\A x \in Commands : CallInv(x))'
    BY DEF ApprovalsInv, CallInv, Undecided, HasDecision
  <2>3. ConsentNeeded' /\ EntryHasWaiter' /\ PromptAnnounced'
    BY DEF ApprovalsInv, ConsentNeeded, EntryHasWaiter, PromptAnnounced, HasDecision
  <2> QED
    BY <2>1, <2>2, <2>3 DEF ApprovalsInv
<1> QED
  BY <1>1, <1>2, <1>3, <1>4, <1>5 DEF Next

\* In every state the program reaches, every entry of the map is undecided, each decision is
\* the one its waiter will receive, and each allow flag stems from a decision.
THEOREM Invariance == Spec => []ApprovalsInv
  BY ApprovalsInitInv, ApprovalsNextInv, PTL DEF Spec

\* A command runs only with consent, for any number of tool calls that ask in parallel in one
\* session and of users that answer.
THEOREM Consent == Spec => []ConsentNeeded
<1>1. ApprovalsInv => ConsentNeeded
  BY DEF ApprovalsInv
<1> QED
  BY <1>1, Invariance, PTL

\* Every entry of the map has a tool call behind it, and every call that waits can be
\* reached, whichever of the decision, the timer and the context comes first.
THEOREM Reachable == Spec => []EntryHasWaiter
<1>1. ApprovalsInv => EntryHasWaiter
  BY DEF ApprovalsInv
<1> QED
  BY <1>1, Invariance, PTL

\* The send of Resolve that does not wait never drops a decision.
THEOREM NeverDropped == Spec => []OneDecision
<1>1. ApprovalsInv => OneDecision
  BY DEF ApprovalsInv
<1> QED
  BY <1>1, Invariance, PTL

\* A prompt has one answer, and its waiter gets it, for any number of users and calls.
THEOREM OneAnswerReaches == Spec => []OneAnswer
  BY Reachable, NeverDropped, PTL DEF OneAnswer

\* While its client listens, a command waits with its prompt shown or on its way, for any
\* capacity of the channel.
THEOREM Announced == Spec => []PromptAnnounced
<1>1. ApprovalsInv => PromptAnnounced
  BY DEF ApprovalsInv
<1> QED
  BY <1>1, Invariance, PTL

-----------------------------------------------------------------------------
(* Processes. *)

Process == [alive : BOOLEAN, input : BOOLEAN, written : Nat, copied : Nat, taken : Nat,
            exitCode : BOOLEAN, done : BOOLEAN]
Steps == {"free", "register", "input", "wait", "take", "read", "reply"}
Call == [at : Steps, p : Nat, exec : BOOLEAN, finished : BOOLEAN, output : SUBSET Nat, exited : BOOLEAN]
Statements == {"exited", "finished", "running"}

-----------------------------------------------------------------------------
(* The inductive invariant. *)

Types ==
    /\ procs \in Seq(Process)
    /\ heard \in Seq(SUBSET Nat) /\ Len(heard) = Len(procs)
    /\ told \in Seq(SUBSET Statements) /\ Len(told) = Len(procs)
    /\ caller \in [Callers -> Call]
    /\ table \subseteq Ids /\ killed \subseteq Ids /\ unsaid \subseteq Ids
    /\ \A c \in Callers : caller[c].at # "free" => caller[c].p \in Ids

\* Output is written, copied and taken in this order; the exit code is set when a process
\* has exited and its output is copied, and done is closed after that.
Sound(q) ==
    /\ q.taken <= q.copied /\ q.copied <= q.written
    /\ q.exitCode => ~q.alive /\ q.copied = q.written
    /\ q.done => q.exitCode
AllSound == \A p \in Ids : Sound(procs[p])

Registers(c, p) == caller[c].at = "register" /\ caller[c].p = p
Carries(c, p) == caller[c].at \in {"read", "reply"} /\ caller[c].p = p

\* A process that is being started is known to no other call.
Alone ==
    \A c \in Callers : caller[c].at = "register" =>
        /\ caller[c].p \notin table
        /\ \A d \in Callers \ {c} : caller[d].at # "free" => caller[d].p # caller[c].p

\* Without an exit code a process is in the table, killed, or about to be registered.
Kept ==
    \A p \in Ids : ~procs[p].exitCode => p \in table \cup killed \/ \E c \in Callers : Registers(c, p)

\* A call that waited for the end finds the process done, and then takes all of its output;
\* no output follows.
Ended ==
    /\ \A c \in Callers : caller[c].finished /\ caller[c].at \in {"take", "read", "reply"} =>
         /\ procs[caller[c].p].done
         /\ caller[c].at # "take" => procs[caller[c].p].taken = procs[caller[c].p].written
    /\ \A p \in Ids : "finished" \in told[p] => procs[p].done /\ procs[p].taken = procs[p].written

\* The output taken of each process is parted among its replies and the calls that carry it.
Parted ==
    \A p \in Ids :
        /\ heard[p] \subseteq 1 .. procs[p].taken
        /\ \A c \in Callers : Carries(c, p) =>
             /\ caller[c].output \subseteq 1 .. procs[p].taken
             /\ caller[c].output \cap heard[p] = {}
             /\ \A d \in Callers \ {c} : Carries(d, p) => caller[c].output \cap caller[d].output = {}
        /\ \A n \in 1 .. procs[p].taken : n \in heard[p] \/ \E c \in Callers : Carries(c, p) /\ n \in caller[c].output

ProcInv == Types /\ AllSound /\ Alone /\ Kept /\ SessionsFound /\ Ended /\ Parted
-----------------------------------------------------------------------------
(* Changes of one process, one call or one set. *)

\* A process replaced by another value of its record.
LEMMA Replaced ==
    ASSUME Types, NEW p \in Ids, NEW q \in Process, procs' = [procs EXCEPT ![p] = q]
    PROVE  /\ procs' \in Seq(Process) /\ Len(procs') = Len(procs) /\ Ids' = Ids
           /\ \A i \in Ids : procs'[i] = IF i = p THEN q ELSE procs[i]
<1>1. procs \in Seq(Process) /\ p \in 1 .. Len(procs)
  BY DEF Types, Ids
<1>2. /\ procs' \in Seq(Process) /\ Len(procs') = Len(procs)
      /\ \A i \in 1 .. Len(procs) : procs'[i] = IF i = p THEN q ELSE procs[i]
  BY <1>1, ExceptSeq
<1> QED
  BY <1>2 DEF Ids

\* What the typing of the processes and replies gives for one of them.
LEMMA OfProcess ==
    ASSUME Types, NEW p \in Ids
    PROVE  procs[p] \in Process /\ heard[p] \in SUBSET Nat /\ told[p] \in SUBSET Statements /\ p \in Nat
BY ElementOfSeq DEF Types, Ids

\* A step of a process or of the goroutines that watch it.
LEMMA ProcessStep ==
    ASSUME ProcInv, NEW p \in Ids, NEW q \in Process, procs' = [procs EXCEPT ![p] = q],
           UNCHANGED <<table, caller, heard, told, killed, unsaid>>,
           q.taken = procs[p].taken, Sound(q), procs[p].exitCode => q.exitCode,
           procs[p].done => q.done /\ q.written = procs[p].written
    PROVE  ProcInv'
<1> USE DEF ProcInv
<1>1. /\ procs' \in Seq(Process) /\ Len(procs') = Len(procs) /\ Ids' = Ids
      /\ \A i \in Ids : procs'[i] = IF i = p THEN q ELSE procs[i]
  BY Replaced
<1>2. \A i \in Ids : /\ procs'[i].taken = procs[i].taken
                     /\ procs[i].exitCode => procs'[i].exitCode
                     /\ procs[i].done => procs'[i].done /\ procs'[i].written = procs[i].written
  BY <1>1
<1>3. Types'
  BY <1>1 DEF Types
<1>4. AllSound'
  BY <1>1 DEF AllSound, Sound
<1>5. Alone'
  BY DEF Alone
<1>6. Kept'
  BY <1>1, <1>2 DEF Kept, Registers
<1>7. SessionsFound'
  BY <1>1 DEF SessionsFound, WillTell
<1>8. Ended'
  BY <1>1, <1>2 DEF Ended, Types
<1>9. Parted'
  BY <1>1, <1>2 DEF Parted, Carries
<1> QED
  BY <1>3, <1>4, <1>5, <1>6, <1>7, <1>8, <1>9

\* The steps of the process, its pipe and its monitor.
LEMMA ProcessSteps ==
    ASSUME ProcInv, NEW p \in Ids,
           WriteOutput(p) \/ Exit(p) \/ CopyOutput(p) \/ Waited(p) \/ CloseDone(p)
    PROVE  ProcInv'
<1>1. procs[p] \in Process /\ Sound(procs[p])
  BY OfProcess DEF ProcInv, AllSound
<1>2. CASE WriteOutput(p)
  <2> DEFINE q == [procs[p] EXCEPT !.written = @ + 1]
  <2>1. q \in Process /\ q.taken = procs[p].taken /\ Sound(q) /\ ~procs[p].exitCode /\ ~procs[p].done
    BY <1>1, <1>2 DEF WriteOutput, Process, Sound
  <2>2. procs' = [procs EXCEPT ![p] = q]
    BY <1>2 DEF WriteOutput
  <2> QED
    BY <1>2, <2>1, <2>2, ProcessStep DEF WriteOutput
<1>3. CASE Exit(p)
  <2> DEFINE q == [procs[p] EXCEPT !.alive = FALSE]
  <2>1. q \in Process /\ q.taken = procs[p].taken /\ Sound(q) /\ q.exitCode = procs[p].exitCode /\ q.done = procs[p].done
        /\ q.written = procs[p].written
    BY <1>1, <1>3 DEF Exit, Process, Sound
  <2>2. procs' = [procs EXCEPT ![p] = q]
    BY <1>3 DEF Exit
  <2> QED
    BY <1>3, <2>1, <2>2, ProcessStep DEF Exit
<1>4. CASE CopyOutput(p)
  <2> DEFINE q == [procs[p] EXCEPT !.copied = @ + 1]
  <2>1. q \in Process /\ q.taken = procs[p].taken /\ Sound(q) /\ ~procs[p].exitCode /\ ~procs[p].done
    BY <1>1, <1>4 DEF CopyOutput, Process, Sound
  <2>2. procs' = [procs EXCEPT ![p] = q]
    BY <1>4 DEF CopyOutput
  <2> QED
    BY <1>4, <2>1, <2>2, ProcessStep DEF CopyOutput
<1>5. CASE Waited(p)
  <2> DEFINE q == [procs[p] EXCEPT !.exitCode = TRUE]
  <2>1. q \in Process /\ q.taken = procs[p].taken /\ Sound(q) /\ q.exitCode /\ q.done = procs[p].done
        /\ q.written = procs[p].written
    BY <1>1, <1>5 DEF Waited, Process, Sound
  <2>2. procs' = [procs EXCEPT ![p] = q]
    BY <1>5 DEF Waited
  <2> QED
    BY <1>5, <2>1, <2>2, ProcessStep DEF Waited
<1>6. CASE CloseDone(p)
  <2> DEFINE q == [procs[p] EXCEPT !.done = TRUE]
  <2>1. q \in Process /\ q.taken = procs[p].taken /\ Sound(q) /\ q.exitCode /\ q.done
        /\ q.written = procs[p].written
    BY <1>1, <1>6 DEF CloseDone, Process, Sound
  <2>2. procs' = [procs EXCEPT ![p] = q]
    BY <1>6 DEF CloseDone
  <2> QED
    BY <1>6, <2>1, <2>2, ProcessStep DEF CloseDone
<1> QED
  BY <1>2, <1>3, <1>4, <1>5, <1>6

\* A step that neither takes output nor replies leaves the parts of each process alone.
LEMMA SameParts ==
    ASSUME Parted, Ids' = Ids, UNCHANGED <<procs, heard>>,
           \A d \in Callers, p \in Ids :
              /\ caller'[d].at \in {"read", "reply"} /\ caller'[d].p = p <=> Carries(d, p)
              /\ Carries(d, p) => caller'[d].output = caller[d].output
    PROVE  Parted'
<1> SUFFICES ASSUME NEW p \in Ids
             PROVE  /\ heard[p] \subseteq 1 .. procs[p].taken
                    /\ \A d \in Callers : Carries(d, p) =>
                         /\ caller'[d].output \subseteq 1 .. procs[p].taken
                         /\ caller'[d].output \cap heard[p] = {}
                         /\ \A e \in Callers \ {d} : Carries(e, p) => caller'[d].output \cap caller'[e].output = {}
                    /\ \A k \in 1 .. procs[p].taken :
                         k \in heard[p] \/ \E d \in Callers : Carries(d, p) /\ k \in caller'[d].output
  BY DEF Parted, Carries
<1> QED
  BY DEF Parted
-----------------------------------------------------------------------------
(* Steps of a call. *)

\* A call that goes on, or comes, without touching a process or the table: it keeps the
\* output it carries, and a process it comes to is in the table.
LEMMA CallGoesOn ==
    ASSUME ProcInv, NEW c \in Callers, NEW s \in Call, caller' = [caller EXCEPT ![c] = s],
           UNCHANGED <<procs, table, heard, told, killed, unsaid>>,
           caller[c].at \notin {"register", "reply"}, s.at # "register",
           s.at # "free" => s.p \in table \/ (caller[c].at # "free" /\ s.p = caller[c].p),
           s.at \in {"read", "reply"} <=> caller[c].at \in {"read", "reply"},
           s.at \in {"read", "reply"} => s.p = caller[c].p /\ s.output = caller[c].output,
           s.finished /\ s.at \in {"take", "read", "reply"} =>
               procs[s.p].done /\ (s.at # "take" => procs[s.p].taken = procs[s.p].written)
    PROVE  ProcInv'
<1> USE DEF ProcInv
<1>1. \A d \in Callers : caller'[d] = IF d = c THEN s ELSE caller[d]
  BY DEF Types
<1>2. Ids' = Ids
  BY DEF Ids
<1>3. Types'
  BY <1>1, <1>2 DEF Types
<1>4. AllSound'
  BY <1>2 DEF AllSound
<1>5. Alone'
  BY <1>1 DEF Alone
<1>6. Kept'
  <2>1. \A p \in Ids : (\E d \in Callers : Registers(d, p)) => \E d \in Callers : caller'[d].at = "register" /\ caller'[d].p = p
    BY <1>1 DEF Registers
  <2> QED
    BY <1>2, <2>1 DEF Kept, Registers
<1>7. SessionsFound'
  <2> SUFFICES ASSUME NEW p \in Ids, "running" \in told[p], "exited" \notin told[p], p \notin table \cup killed \cup unsaid
               PROVE  WillTell(p)'
    BY <1>2 DEF SessionsFound
  <2>1. PICK d \in Callers : caller[d].at = "reply" /\ caller[d].p = p /\ caller[d].exited
    BY DEF SessionsFound, WillTell
  <2> QED
    BY <1>1, <2>1 DEF WillTell
<1>8. Ended'
  BY <1>1, <1>2 DEF Ended
<1>9. Parted'
  <2>1. \A d \in Callers, p \in Ids :
           /\ caller'[d].at \in {"read", "reply"} /\ caller'[d].p = p <=> Carries(d, p)
           /\ Carries(d, p) => caller'[d].output = caller[d].output
    BY <1>1 DEF Carries
  <2> QED
    BY <1>2, <2>1, SameParts
<1> QED
  BY <1>3, <1>4, <1>5, <1>6, <1>7, <1>8, <1>9

\* Looking up, passing input, waiting, and reading the exit code.
LEMMA WaitingSteps ==
    ASSUME ProcInv, NEW c \in Callers,
           \/ \E p \in Ids, input \in BOOLEAN : Poll(c, p, input)
           \/ PassInput(c) \/ ReadExitCode(c)
           \/ \E finished \in BOOLEAN : WaitEnds(c, finished)
    PROVE  ProcInv'
<1>1. /\ caller[c] \in Call
      /\ caller[c].at # "free" => caller[c].p \in Ids /\ procs[caller[c].p] \in Process
  BY OfProcess DEF ProcInv, Types
<1>2. Free \in Call /\ Free.at = "free"
  BY DEF Free, Call, Steps
<1>3. ASSUME NEW p \in Ids, NEW input \in BOOLEAN, Poll(c, p, input) PROVE ProcInv'
  <2> DEFINE s == [Free EXCEPT !.at = IF input THEN "input" ELSE "wait", !.p = p]
  <2>1. s \in Call /\ s.at \in {"input", "wait"} /\ s.p = p
    BY OfProcess DEF ProcInv, Free, Call, Steps
  <2>2. caller' = [caller EXCEPT ![c] = s] /\ caller[c].at = "free" /\ p \in table
    BY <1>2, <1>3 DEF Poll, SetCaller
  <2> HIDE DEF s
  <2> QED
    BY <1>3, <2>1, <2>2, CallGoesOn DEF Poll
<1>4. CASE PassInput(c)
  <2> DEFINE s == [caller[c] EXCEPT !.at = "wait"]
  <2>1. s \in Call /\ s.at = "wait" /\ s.p = caller[c].p
    BY <1>1 DEF Call, Steps
  <2>2. caller[c].at = "input" /\ (caller' = [caller EXCEPT ![c] = s] \/ caller' = [caller EXCEPT ![c] = Free])
    BY <1>4 DEF PassInput, GoesTo, SetCaller
  <2> HIDE DEF s
  <2> QED
    BY <1>2, <1>4, <2>1, <2>2, CallGoesOn DEF PassInput
<1>5. CASE ReadExitCode(c)
  <2> DEFINE s == [caller[c] EXCEPT !.at = "reply", !.exited = procs[caller[c].p].exitCode]
  <2>1. caller[c].at = "read" /\ caller' = [caller EXCEPT ![c] = s]
    BY <1>5 DEF ReadExitCode, SetCaller
  <2>2. /\ s \in Call /\ s.at = "reply"
        /\ s.p = caller[c].p /\ s.output = caller[c].output /\ s.finished = caller[c].finished
    BY <1>1, <2>1 DEF Call, Steps, Process
  <2>3. s.finished => procs[s.p].done /\ procs[s.p].taken = procs[s.p].written
    BY <2>1, <2>2 DEF ProcInv, Ended
  <2> HIDE DEF s
  <2> QED
    BY <1>5, <2>1, <2>2, <2>3, CallGoesOn DEF ReadExitCode
<1>6. ASSUME NEW finished \in BOOLEAN, WaitEnds(c, finished) PROVE ProcInv'
  <2> DEFINE s == [caller[c] EXCEPT !.at = "take", !.finished = finished]
  <2>1. caller[c].at = "wait" /\ caller' = [caller EXCEPT ![c] = s]
    BY <1>6 DEF WaitEnds, SetCaller
  <2>2. s \in Call /\ s.at = "take" /\ s.p = caller[c].p /\ s.finished = finished
    BY <1>1 DEF Call, Steps
  <2>3. s.finished => procs[s.p].done
    BY <1>6, <2>2 DEF WaitEnds
  <2> HIDE DEF s
  <2> QED
    BY <1>6, <2>1, <2>2, <2>3, CallGoesOn DEF WaitEnds
<1> QED
  BY <1>3, <1>4, <1>5, <1>6

\* A new process is known to its call alone.
LEMMA StartStep ==
    ASSUME ProcInv, NEW c \in Callers, NEW input \in BOOLEAN, Start(c, input)
    PROVE  ProcInv'
<1> USE DEF ProcInv
<1> DEFINE n == Len(procs) + 1
           s == [Free EXCEPT !.at = "register", !.p = n, !.exec = TRUE]
<1>1. Fresh(input) \in Process /\ Sound(Fresh(input)) /\ Fresh(input).taken = 0 /\ ~Fresh(input).exitCode
  BY DEF Fresh, Process, Sound
<1>2. Len(procs) \in Nat /\ n \in Nat
  BY DEF Types
<1>3. s \in Call /\ s.at = "register" /\ s.p = n
  BY <1>2 DEF Free, Call, Steps
<1>4. caller[c].at = "free" /\ \A d \in Callers : caller'[d] = IF d = c THEN s ELSE caller[d]
  BY DEF Start, SetCaller, Types, Free
<1>5. /\ procs' \in Seq(Process) /\ Len(procs') = n /\ procs'[n] = Fresh(input)
      /\ \A p \in Ids : procs'[p] = procs[p]
  BY <1>1, AppendProperties DEF Start, Types, Ids
<1>6. /\ heard' \in Seq(SUBSET Nat) /\ Len(heard') = n /\ heard'[n] = {}
      /\ \A p \in Ids : heard'[p] = heard[p]
  <2>1. {} \in SUBSET Nat /\ heard' = Append(heard, {})
    BY DEF Start
  <2> QED
    BY <2>1, AppendProperties DEF Types, Ids
<1>7. /\ told' \in Seq(SUBSET Statements) /\ Len(told') = n /\ told'[n] = {}
      /\ \A p \in Ids : told'[p] = told[p]
  <2>1. {} \in SUBSET Statements /\ told' = Append(told, {})
    BY DEF Start
  <2> QED
    BY <2>1, AppendProperties DEF Types, Ids
<1>8. n \notin Ids /\ \A p : p \in Ids' <=> p \in Ids \/ p = n
  BY <1>2, <1>5 DEF Ids
<1>9. UNCHANGED <<table, killed, unsaid>>
  BY DEF Start
<1> HIDE DEF n, s
<1>10. Types'
  BY <1>3, <1>4, <1>5, <1>6, <1>7, <1>8, <1>9 DEF Types, Start, SetCaller
<1>11. AllSound'
  BY <1>1, <1>5, <1>8 DEF AllSound
<1>12. Alone'
  BY <1>3, <1>4, <1>8, <1>9 DEF Alone, Types
<1>13. Kept'
  BY <1>1, <1>3, <1>4, <1>5, <1>8, <1>9 DEF Kept, Registers
<1>14. SessionsFound'
  BY <1>4, <1>7, <1>8, <1>9 DEF SessionsFound, WillTell
<1>15. Ended'
  BY <1>3, <1>4, <1>5, <1>7, <1>8 DEF Ended, Types
<1>16. Parted'
  <2>1. \A d \in Callers, p \in Ids :
           /\ caller'[d].at \in {"read", "reply"} /\ caller'[d].p = p <=> Carries(d, p)
           /\ Carries(d, p) => caller'[d].output = caller[d].output
    BY <1>3, <1>4, <1>8 DEF Carries, Types
  <2>2. \A d \in Callers : ~(caller'[d].at \in {"read", "reply"} /\ caller'[d].p = n)
    BY <1>3, <1>4, <1>8 DEF Types
  <2>3. 1 .. procs'[n].taken = {}
    BY <1>1, <1>5
  <2>4. ASSUME NEW p \in Ids
        PROVE  /\ heard'[p] \subseteq 1 .. procs'[p].taken
               /\ \A d \in Callers : Carries(d, p) =>
                    /\ caller'[d].output \subseteq 1 .. procs'[p].taken
                    /\ caller'[d].output \cap heard'[p] = {}
                    /\ \A e \in Callers \ {d} : Carries(e, p) => caller'[d].output \cap caller'[e].output = {}
               /\ \A k \in 1 .. procs'[p].taken :
                    k \in heard'[p] \/ \E d \in Callers : Carries(d, p) /\ k \in caller'[d].output
    BY <1>5, <1>6, <2>1 DEF Parted
  <2>5. SUFFICES ASSUME NEW p \in Ids'
                 PROVE  /\ heard'[p] \subseteq 1 .. procs'[p].taken
                        /\ \A d \in Callers : caller'[d].at \in {"read", "reply"} /\ caller'[d].p = p =>
                             /\ caller'[d].output \subseteq 1 .. procs'[p].taken
                             /\ caller'[d].output \cap heard'[p] = {}
                             /\ \A e \in Callers \ {d} : caller'[e].at \in {"read", "reply"} /\ caller'[e].p = p =>
                                  caller'[d].output \cap caller'[e].output = {}
                        /\ \A k \in 1 .. procs'[p].taken :
                             k \in heard'[p] \/ \E d \in Callers : /\ caller'[d].at \in {"read", "reply"} /\ caller'[d].p = p
                                                                   /\ k \in caller'[d].output
    <3> HIDE DEF ProcInv
    <3> QED
      BY DEF Parted, Carries
  <2>6. CASE p = n
    BY <1>6, <2>2, <2>3, <2>6
  <2>7. CASE p \in Ids
    BY <2>1, <2>4, <2>7
  <2> QED
    BY <1>8, <2>6, <2>7
<1> QED
  BY <1>10, <1>11, <1>12, <1>13, <1>14, <1>15, <1>16

\* A started process is put in the table.
LEMMA RegisterStep ==
    ASSUME ProcInv, NEW c \in Callers, RegisterProcess(c)
    PROVE  ProcInv'
<1> USE DEF ProcInv
<1> DEFINE n == caller[c].p
           s == [caller[c] EXCEPT !.at = "wait"]
<1>1. /\ caller[c] \in Call /\ caller[c].at = "register" /\ n \in Ids
      /\ s \in Call /\ s.at = "wait" /\ s.p = n
  BY DEF RegisterProcess, Types, Call, Steps
<1>2. \A d \in Callers : caller'[d] = IF d = c THEN s ELSE caller[d]
  BY DEF RegisterProcess, GoesTo, SetCaller, Types
<1>3. table' = table \cup {n} /\ UNCHANGED <<procs, heard, told, killed, unsaid>> /\ Ids' = Ids
  BY DEF RegisterProcess, Ids
<1> HIDE DEF s
<1>4. Types'
  BY <1>1, <1>2, <1>3 DEF Types, RegisterProcess, GoesTo, SetCaller, s
<1>5. AllSound'
  BY <1>3 DEF AllSound
<1>6. Alone'
  BY <1>1, <1>2, <1>3 DEF Alone
<1>7. Kept'
  BY <1>1, <1>2, <1>3 DEF Kept, Registers
<1>8. SessionsFound'
  BY <1>1, <1>2, <1>3 DEF SessionsFound, WillTell
<1>9. Ended'
  BY <1>1, <1>2, <1>3 DEF Ended
<1>10. Parted'
  <2>1. \A d \in Callers, p \in Ids :
           /\ caller'[d].at \in {"read", "reply"} /\ caller'[d].p = p <=> Carries(d, p)
           /\ Carries(d, p) => caller'[d].output = caller[d].output
    BY <1>1, <1>2 DEF Carries
  <2> QED
    BY <1>3, <2>1, SameParts
<1> QED
  BY <1>4, <1>5, <1>6, <1>7, <1>8, <1>9, <1>10

\* The output copied so far passes from the buffer to the call that takes it.
LEMMA TakeStep ==
    ASSUME ProcInv, NEW c \in Callers, TakeOutput(c)
    PROVE  ProcInv'
<1> USE DEF ProcInv
<1> DEFINE n == caller[c].p
           q == [procs[n] EXCEPT !.taken = procs[n].copied]
           s == [caller[c] EXCEPT !.at = "read", !.output = procs[n].taken + 1 .. procs[n].copied]
<1>1. /\ caller[c] \in Call /\ caller[c].at = "take" /\ n \in Ids
  BY DEF TakeOutput, Types
<1>2. procs[n] \in Process /\ Sound(procs[n]) /\ heard[n] \in SUBSET Nat
  BY <1>1, OfProcess DEF AllSound
<1>3. /\ q \in Process /\ Sound(q) /\ q.taken = procs[n].copied /\ q.written = procs[n].written
      /\ q.exitCode = procs[n].exitCode /\ q.done = procs[n].done /\ q.copied = procs[n].copied
  BY <1>2 DEF Process, Sound
<1>4. /\ s \in Call /\ s.at = "read" /\ s.p = n /\ s.finished = caller[c].finished
      /\ s.output = procs[n].taken + 1 .. procs[n].copied
  <2>1. procs[n].taken + 1 .. procs[n].copied \in SUBSET Nat
    BY <1>2 DEF Process
  <2> QED
    BY <1>1, <2>1 DEF Call, Steps
<1>5. procs' = [procs EXCEPT ![n] = q] /\ caller' = [caller EXCEPT ![c] = s]
      /\ UNCHANGED <<table, heard, told, killed, unsaid>>
  BY DEF TakeOutput, SetCaller
<1>6. \A d \in Callers : caller'[d] = IF d = c THEN s ELSE caller[d]
  BY <1>5 DEF Types
<1> HIDE DEF q, s
<1>7. /\ procs' \in Seq(Process) /\ Len(procs') = Len(procs) /\ Ids' = Ids
      /\ \A i \in Ids : procs'[i] = IF i = n THEN q ELSE procs[i]
  BY <1>1, <1>3, <1>5, Replaced
<1>8. Types'
  BY <1>1, <1>4, <1>5, <1>6, <1>7 DEF Types
<1>9. AllSound'
  BY <1>3, <1>7 DEF AllSound
<1>10. Alone'
  BY <1>1, <1>4, <1>5, <1>6 DEF Alone
<1>11. Kept'
  BY <1>1, <1>3, <1>5, <1>6, <1>7 DEF Kept, Registers
<1>12. SessionsFound'
  BY <1>1, <1>5, <1>6, <1>7 DEF SessionsFound, WillTell
<1>13. procs[n].done => q.taken = q.written
  BY <1>2, <1>3 DEF Sound
<1>14. Ended'
  BY <1>1, <1>3, <1>4, <1>5, <1>6, <1>7, <1>13 DEF Ended, Types
<1>15. Parted'
  <2> SUFFICES ASSUME NEW p \in Ids
               PROVE  /\ heard[p] \subseteq 1 .. procs'[p].taken
                      /\ \A d \in Callers : caller'[d].at \in {"read", "reply"} /\ caller'[d].p = p =>
                           /\ caller'[d].output \subseteq 1 .. procs'[p].taken
                           /\ caller'[d].output \cap heard[p] = {}
                           /\ \A e \in Callers \ {d} : caller'[e].at \in {"read", "reply"} /\ caller'[e].p = p =>
                                caller'[d].output \cap caller'[e].output = {}
                      /\ \A k \in 1 .. procs'[p].taken :
                           k \in heard[p] \/ \E d \in Callers : /\ caller'[d].at \in {"read", "reply"} /\ caller'[d].p = p
                                                                 /\ k \in caller'[d].output
    <3> HIDE DEF ProcInv
    <3> QED
      BY <1>5, <1>7 DEF Parted, Carries
  <2>1. CASE p # n
    BY <1>1, <1>4, <1>6, <1>7, <2>1 DEF Parted, Carries
  <2>2. CASE p = n
    <3>1. procs'[p] = q
      BY <1>7, <2>2
    <3>2. /\ heard[p] \subseteq 1 .. procs[p].taken
          /\ \A d \in Callers : Carries(d, p) =>
                /\ caller[d].output \subseteq 1 .. procs[p].taken
                /\ caller[d].output \cap heard[p] = {}
                /\ \A e \in Callers \ {d} : Carries(e, p) => caller[d].output \cap caller[e].output = {}
          /\ \A k \in 1 .. procs[p].taken : k \in heard[p] \/ \E d \in Callers : Carries(d, p) /\ k \in caller[d].output
      BY DEF Parted
    <3>3. /\ procs[p].taken \in Nat /\ q.taken \in Nat /\ procs[p].taken <= q.taken
          /\ s.output = procs[p].taken + 1 .. q.taken
      BY <1>2, <1>3, <1>4, <2>2 DEF Sound, Process
    <3>4. /\ 1 .. procs[p].taken \subseteq 1 .. q.taken /\ s.output \subseteq 1 .. q.taken
          /\ s.output \cap 1 .. procs[p].taken = {} /\ 1 .. q.taken = 1 .. procs[p].taken \cup s.output
      BY <3>3
    <3>5. /\ ~Carries(c, p) /\ caller'[c].at = "read" /\ caller'[c].p = p /\ caller'[c].output = s.output
      BY <1>1, <1>4, <1>6, <2>2 DEF Carries
    <3>6. \A d \in Callers \ {c} : /\ caller'[d].at \in {"read", "reply"} /\ caller'[d].p = p <=> Carries(d, p)
                                   /\ caller'[d].output = caller[d].output
      BY <1>6 DEF Carries
    <3>7. heard[p] \subseteq 1 .. procs'[p].taken
      BY <3>1, <3>2, <3>4
    <3>8. ASSUME NEW d \in Callers, caller'[d].at \in {"read", "reply"}, caller'[d].p = p
          PROVE  /\ caller'[d].output \subseteq 1 .. procs'[p].taken
                 /\ caller'[d].output \cap heard[p] = {}
                 /\ \A e \in Callers \ {d} : caller'[e].at \in {"read", "reply"} /\ caller'[e].p = p =>
                      caller'[d].output \cap caller'[e].output = {}
      <4>1. CASE d = c
        BY <3>1, <3>2, <3>4, <3>5, <3>6, <4>1
      <4>2. CASE d # c
        BY <3>1, <3>2, <3>4, <3>5, <3>6, <3>8, <4>2
      <4> QED
        BY <4>1, <4>2
    <3>9. ASSUME NEW k \in 1 .. procs'[p].taken
          PROVE  k \in heard[p] \/ \E d \in Callers : /\ caller'[d].at \in {"read", "reply"} /\ caller'[d].p = p
                                                      /\ k \in caller'[d].output
      <4>1. k \in 1 .. procs[p].taken \/ k \in s.output
        BY <3>1, <3>4
      <4>2. CASE k \in s.output
        BY <3>5, <4>2
      <4>3. CASE k \in 1 .. procs[p].taken /\ k \notin heard[p]
        <5>1. PICK d \in Callers : Carries(d, p) /\ k \in caller[d].output
          BY <3>2, <4>3
        <5> QED
          BY <3>5, <3>6, <5>1
      <4> QED
        BY <4>1, <4>2, <4>3
    <3> QED
      BY <3>7, <3>8, <3>9
  <2> QED
    BY <2>1, <2>2
<1> QED
  BY <1>8, <1>9, <1>10, <1>11, <1>12, <1>14, <1>15

\* The output passes to the replies, and the table loses a process that has an exit code.
LEMMA ReplyStep ==
    ASSUME ProcInv, NEW c \in Callers, Reply(c)
    PROVE  ProcInv'
<1> USE DEF ProcInv
<1> DEFINE n == caller[c].p
           h == heard[n] \cup caller[c].output
           t == told[n] \cup Said(c)
<1>1. /\ caller[c] \in Call /\ caller[c].at = "reply" /\ n \in Ids
      /\ caller[c].output \in SUBSET Nat /\ caller[c].finished \in BOOLEAN
  BY DEF Reply, Types, Call
<1>2. /\ Free \in Call /\ Free.at = "free" /\ ~Free.finished
  BY DEF Free, Call, Steps
<1>3. /\ heard[n] \in SUBSET Nat /\ told[n] \in SUBSET Statements
  BY <1>1, OfProcess
<1>4. /\ Said(c) \in SUBSET Statements
      /\ "finished" \in Said(c) => caller[c].finished
      /\ "exited" \in Said(c) <=> caller[c].exited
  BY DEF Said, Statements
<1>5. h \in SUBSET Nat /\ t \in SUBSET Statements
  BY <1>1, <1>3, <1>4
<1>6. /\ heard' = [heard EXCEPT ![n] = h] /\ told' = [told EXCEPT ![n] = t] /\ caller' = [caller EXCEPT ![c] = Free]
      /\ UNCHANGED <<procs, killed>> /\ Ids' = Ids
      /\ procs[n].exitCode => table' = table \ {n}
      /\ ~procs[n].exitCode => table' = table
      /\ procs[n].exitCode /\ ~caller[c].exited => unsaid' = unsaid \cup {n}
      /\ unsaid' = unsaid \/ unsaid' = unsaid \cup {n}
  BY DEF Reply, Finished, SetCaller, Ids
<1>7. \A d \in Callers : caller'[d] = IF d = c THEN Free ELSE caller[d]
  BY <1>6 DEF Types
<1> HIDE DEF h, t
<1>8. /\ heard' \in Seq(SUBSET Nat) /\ Len(heard') = Len(procs)
      /\ \A i \in Ids : heard'[i] = IF i = n THEN h ELSE heard[i]
  BY <1>1, <1>5, <1>6, ExceptSeq DEF Types, Ids
<1>9. /\ told' \in Seq(SUBSET Statements) /\ Len(told') = Len(procs)
      /\ \A i \in Ids : told'[i] = IF i = n THEN t ELSE told[i]
  BY <1>1, <1>5, <1>6, ExceptSeq DEF Types, Ids
<1>10. Types'
  BY <1>1, <1>2, <1>6, <1>7, <1>8, <1>9 DEF Types
<1>11. AllSound'
  BY <1>6 DEF AllSound
<1>12. Alone'
  BY <1>1, <1>2, <1>6, <1>7 DEF Alone
<1>13. Kept'
  BY <1>1, <1>2, <1>6, <1>7 DEF Kept, Registers
<1>14. ASSUME NEW p \in Ids, "running" \in told'[p], "exited" \notin told'[p], p \notin table' \cup killed \cup unsaid'
      PROVE  \E d \in Callers : caller'[d].at = "reply" /\ caller'[d].p = p /\ caller'[d].exited
  <2>1. CASE p # n
    BY <1>1, <1>6, <1>7, <1>9, <1>14, <2>1 DEF SessionsFound, WillTell
  <2>2. CASE p = n
    <3>1. ~caller[c].exited /\ "exited" \notin told[n]
      BY <1>4, <1>9, <1>14, <2>2 DEF t
    <3>2. ~procs[n].exitCode /\ n \notin table \cup killed
      BY <1>6, <1>14, <2>2, <3>1
    <3>3. PICK d \in Callers : caller[d].at = "register" /\ caller[d].p = n
      BY <1>1, <3>2 DEF Kept, Registers
    <3> QED
      BY <1>1, <3>3 DEF Alone
  <2> QED
    BY <2>1, <2>2
<1>15. SessionsFound'
  BY <1>6, <1>14 DEF SessionsFound, WillTell
<1>16. "finished" \in t => procs[n].done /\ procs[n].taken = procs[n].written
  BY <1>1, <1>4 DEF t, Ended
<1>17. Ended'
  BY <1>1, <1>2, <1>6, <1>7, <1>9, <1>16 DEF Ended
<1>18. Parted'
  <2> SUFFICES ASSUME NEW p \in Ids
               PROVE  /\ heard'[p] \subseteq 1 .. procs[p].taken
                      /\ \A d \in Callers : caller'[d].at \in {"read", "reply"} /\ caller'[d].p = p =>
                           /\ caller'[d].output \subseteq 1 .. procs[p].taken
                           /\ caller'[d].output \cap heard'[p] = {}
                           /\ \A e \in Callers \ {d} : caller'[e].at \in {"read", "reply"} /\ caller'[e].p = p =>
                                caller'[d].output \cap caller'[e].output = {}
                      /\ \A k \in 1 .. procs[p].taken :
                           k \in heard'[p] \/ \E d \in Callers : /\ caller'[d].at \in {"read", "reply"} /\ caller'[d].p = p
                                                                  /\ k \in caller'[d].output
    <3> HIDE DEF ProcInv
    <3> QED
      BY <1>6 DEF Parted, Carries
  <2>1. \A d \in Callers \ {c} : /\ caller'[d].at \in {"read", "reply"} /\ caller'[d].p = p <=> Carries(d, p)
                                 /\ caller'[d].output = caller[d].output
    BY <1>7 DEF Carries
  <2>2. ~(caller'[c].at \in {"read", "reply"})
    BY <1>2, <1>7
  <2>3. CASE p # n
    <3>1. ~Carries(c, p) /\ heard'[p] = heard[p]
      BY <1>1, <1>8, <2>3 DEF Carries
    <3> QED
      BY <2>1, <2>2, <3>1 DEF Parted
  <2>4. CASE p = n
    <3>1. Carries(c, p) /\ heard'[p] = heard[p] \cup caller[c].output
      BY <1>1, <1>8, <2>4 DEF Carries, h
    <3> QED
      BY <2>1, <2>2, <3>1 DEF Parted
  <2> QED
    BY <2>3, <2>4
<1> QED
  BY <1>10, <1>11, <1>12, <1>13, <1>15, <1>17, <1>18

\* Processes that are killed leave the table.
LEMMA KillStep ==
    ASSUME ProcInv, NEW some, Kill(some)
    PROVE  ProcInv'
<1> USE DEF ProcInv
<1>1. /\ some \subseteq table /\ table' = table \ some /\ killed' = killed \cup some
      /\ UNCHANGED <<procs, caller, heard, told, unsaid>> /\ Ids' = Ids
  BY DEF Kill, Ids
<1>2. Types'
  BY <1>1 DEF Types
<1>3. AllSound' /\ Ended'
  BY <1>1 DEF AllSound, Ended
<1>4. Alone'
  BY <1>1 DEF Alone
<1>5. Kept'
  BY <1>1 DEF Kept, Registers
<1>6. SessionsFound'
  BY <1>1 DEF SessionsFound, WillTell
<1>7. Parted'
  BY <1>1 DEF Parted, Carries
<1> QED
  BY <1>2, <1>3, <1>4, <1>5, <1>6, <1>7
-----------------------------------------------------------------------------
(* The theorems. *)

LEMMA ProcessesInitInv == ProcInit => ProcInv
<1> SUFFICES ASSUME ProcInit PROVE ProcInv
  OBVIOUS
<1>1. procs = <<>> /\ heard = <<>> /\ told = <<>> /\ Ids = {}
  BY DEF ProcInit, Ids
<1>2. \A c \in Callers : caller[c] = Free
  BY DEF ProcInit
<1>3. Free \in Call /\ Free.at = "free" /\ ~Free.finished
  BY DEF Free, Call, Steps
<1>4. Types
  BY <1>1, <1>3 DEF Types, ProcInit
<1>5. AllSound /\ Kept /\ SessionsFound /\ Parted
  BY <1>1 DEF AllSound, Kept, SessionsFound, Parted
<1>6. Alone /\ Ended
  BY <1>1, <1>2, <1>3 DEF Alone, Ended
<1> QED
  BY <1>4, <1>5, <1>6 DEF ProcInv

LEMMA ProcessesNextInv == ProcInv /\ [ProcNext]_procVars => ProcInv'
<1> SUFFICES ASSUME ProcInv, [ProcNext]_procVars PROVE ProcInv'
  OBVIOUS
<1>1. ASSUME NEW p \in Ids, WriteOutput(p) \/ Exit(p) \/ CopyOutput(p) \/ Waited(p) \/ CloseDone(p)
      PROVE  ProcInv'
  BY <1>1, ProcessSteps
<1>2. ASSUME NEW c \in Callers, CallStep(c) PROVE ProcInv'
  BY <1>2, WaitingSteps, RegisterStep, TakeStep, ReplyStep DEF CallStep
<1>3. ASSUME NEW c \in Callers, NEW input \in BOOLEAN, Start(c, input) PROVE ProcInv'
  BY <1>3, StartStep
<1>4. ASSUME NEW c \in Callers, NEW input \in BOOLEAN, NEW p \in Ids, Poll(c, p, input) PROVE ProcInv'
  BY <1>4, WaitingSteps
<1>5. ASSUME NEW some, Kill(some) PROVE ProcInv'
  BY <1>5, KillStep
<1>6. CASE UNCHANGED procVars
  <2>1. Ids' = Ids /\ UNCHANGED <<procs, table, caller, heard, told, killed, unsaid>>
    BY <1>6 DEF procVars, Ids
  <2>2. Types' /\ AllSound' /\ Alone' /\ Ended'
    BY <2>1 DEF ProcInv, Types, AllSound, Alone, Ended
  <2>3. Kept' /\ SessionsFound' /\ Parted'
    BY <2>1 DEF ProcInv, Kept, Registers, SessionsFound, WillTell, Parted, Carries
  <2> QED
    BY <2>2, <2>3 DEF ProcInv
<1> QED
  BY <1>1, <1>2, <1>3, <1>4, <1>5, <1>6 DEF ProcNext

\* The inductive invariant holds for any set of calls and any bounds.
THEOREM ProcInvariance == ProcSpec => []ProcInv
BY ProcessesInitInv, ProcessesNextInv, PTL DEF ProcSpec

\* ExecCommand, WriteStdin and Kill keep the table, what replies have said and the output
\* they hand out in agreement, whatever calls, exits and timers come between: a process
\* that runs can be reached, a session the model was told of is found, and every piece of
\* output is in one reply.
THEOREM SessionsStaySound == ProcSpec => []SessionsSound
<1>1. ASSUME ProcInv PROVE ReachableWhileAlive
  BY <1>1 DEF ProcInv, ReachableWhileAlive, AllSound, Sound, Kept, Registers
<1>2. ASSUME ProcInv, NEW p \in Ids
      PROVE  /\ heard[p] \cup Carried(p) = 1 .. procs[p].taken
             /\ heard[p] \cap Carried(p) = {}
             /\ "finished" \in told[p] => procs[p].taken = procs[p].written
  <2>1. \A k : k \in Carried(p) <=> \E c \in Callers : Carries(c, p) /\ k \in caller[c].output
    BY DEF Carried, Carries
  <2> HIDE DEF Carried
  <2>2. heard[p] \subseteq 1 .. procs[p].taken /\ Carried(p) \subseteq 1 .. procs[p].taken
    BY <1>2, <2>1 DEF ProcInv, Parted
  <2>3. 1 .. procs[p].taken \subseteq heard[p] \cup Carried(p)
    BY <1>2, <2>1 DEF ProcInv, Parted
  <2>4. heard[p] \cap Carried(p) = {}
    BY <1>2, <2>1 DEF ProcInv, Parted
  <2>5. "finished" \in told[p] => procs[p].taken = procs[p].written
    BY <1>2 DEF ProcInv, Ended
  <2> QED
    BY <2>2, <2>3, <2>4, <2>5
<1>3. ProcInv => SessionsSound
  BY <1>1, <1>2 DEF SessionsSound, OutputWhole, ProcInv
<1> QED
  BY <1>3, ProcInvariance, PTL
=============================================================================
