----------------------------- MODULE TurnProofs -----------------------------
(***************************************************************************)
(* Proofs about Turn, for every value of its constants: first what holds   *)
(* of its messages, events and channel, then what it tells its readers,    *)
(* the waits and their ends, the attempts, and the text of a message that  *)
(* an abort cuts short.                                                    *)
(***************************************************************************)
EXTENDS TurnInvariant, SequenceTheorems, FiniteSetTheorems, TLAPS

-----------------------------------------------------------------------------
(* The queued sends. *)

\* Every event that the emit helpers build is an event.
LEMMA EvType ==
    ASSUME NEW kind \in EventKind, NEW i \in Nat, NEW n \in Nat, NEW info \in Info
    PROVE  /\ Ev(kind, i, n, info) \in Event
           /\ Ev(kind, i, n, info).kind = kind
BY DEF Ev, Event

\* A queued send is a queue of one task.
LEMMA SendType ==
    ASSUME NEW e \in Event
    PROVE  /\ Send(e) \in Seq(Task) /\ Len(Send(e)) = 1
           /\ Send(e)[1].op = "send" /\ Send(e)[1].ev = e
BY DEF Send, Task

\* A queued UI-event write is a queue of one task.
LEMMA RecordType ==
    ASSUME NEW e \in Event
    PROVE  /\ Record(e) \in Seq(Task) /\ Len(Record(e)) = 1
           /\ Record(e)[1].op = "record" /\ Record(e)[1].ev = e
BY DEF Record, Task

\* Sending and recording one event is a queue of two tasks.
LEMMA EmitType ==
    ASSUME NEW e \in Event
    PROVE  /\ Emit(e) \in Seq(Task) /\ Len(Emit(e)) = 2
           /\ Emit(e)[1].op = "send" /\ Emit(e)[1].ev = e
           /\ Emit(e)[2].op = "record" /\ Emit(e)[2].ev = e
BY DEF Emit, Send, Record, Task

\* Queues made of calm queues are calm.
LEMMA CalmConcat ==
    ASSUME NEW log, NEW s, NEW t, Calm(s, log), Calm(t, log)
    PROVE  Calm(s \o t, log)
<1>1. /\ s \o t \in Seq(Task)
      /\ Len(s \o t) = Len(s) + Len(t)
      /\ \A k \in 1 .. Len(s) + Len(t) :
            (s \o t)[k] = IF k <= Len(s) THEN s[k] ELSE t[k - Len(s)]
  BY ConcatProperties DEF Calm
<1>2. ASSUME NEW k \in 1 .. Len(s) + Len(t) PROVE CalmTask((s \o t)[k], log)
  <2>1. CASE k <= Len(s)
    BY <1>1, <2>1 DEF Calm
  <2>2. CASE k > Len(s)
    <3>1. k - Len(s) \in 1 .. Len(t)
      BY <2>2 DEF Calm
    <3> QED
      BY <1>1, <2>2, <3>1 DEF Calm
  <2> QED
    BY <2>1, <2>2 DEF Calm
<1> QED
  BY <1>1, <1>2 DEF Calm

\* Nothing queued announces nothing.
LEMMA CalmEmpty == ASSUME NEW log PROVE Calm(<<>>, log)
BY DEF Calm

\* A single event that neither ends the turn nor announces a message.
LEMMA CalmEvent ==
    ASSUME NEW log, NEW e \in Event, e.kind \notin Terminal, Backed(e, log)
    PROVE  Calm(Send(e), log) /\ Calm(Emit(e), log)
<1>1. ASSUME NEW t, t.ev = e PROVE CalmTask(t, log)
  BY <1>1 DEF CalmTask
<1>2. \A k \in DOMAIN Send(e) : Send(e)[k].ev = e
  BY SendType
<1>3. \A k \in DOMAIN Emit(e) : Emit(e)[k].ev = e
  <2>1. DOMAIN Emit(e) = {1, 2}
    BY EmitType
  <2> QED
    BY <2>1, EmitType
<1> QED
  BY <1>1, <1>2, <1>3, SendType, EmitType DEF Calm

\* Writing a UI event announces nothing on the channel.
LEMMA CalmRecord ==
    ASSUME NEW log, NEW e \in Event
    PROVE  Calm(Record(e), log)
<1>1. Record(e) \in Seq(Task) /\ \A k \in DOMAIN Record(e) : Record(e)[k].op = "record"
  BY RecordType
<1> QED
  BY <1>1 DEF Calm, CalmTask

\* Every event kind but message_done and the terminal ones is calm.
LEMMA CalmKind ==
    ASSUME NEW log, NEW kind \in EventKind, kind \notin Terminal, kind # "message_done",
           NEW i \in Nat, NEW n \in Nat, NEW info \in Info
    PROVE  Calm(Send(Ev(kind, i, n, info)), log) /\ Calm(Emit(Ev(kind, i, n, info)), log)
<1> DEFINE e == Ev(kind, i, n, info)
<1>1. e \in Event /\ e.kind = kind
  BY EvType
<1>2. Backed(e, log)
  BY <1>1 DEF Backed
<1> HIDE DEF e
<1>3. Calm(Send(e), log) /\ Calm(Emit(e), log)
  BY <1>1, <1>2, CalmEvent
<1> QED
  BY <1>3 DEF e

\* A status announces neither a message nor an end (emitStatus).
LEMMA CalmStatus ==
    ASSUME NEW log, NEW i \in Nat
    PROVE  Calm(Status(i), log)
<1>1. "status" \in EventKind /\ "" \in Info /\ "status" \notin Terminal
  BY DEF EventKind, Info, TurnState, Terminal
<1> QED
  BY <1>1, CalmKind DEF Status

\* Nor does a state transition, even one to a terminal state.
LEMMA CalmTransition ==
    ASSUME NEW log, NEW i \in Nat, NEW from, NEW to \in TurnState
    PROVE  Calm(Transition(from, to, i), log)
<1>1. "state_transition" \in EventKind /\ to \in Info /\ "state_transition" \notin Terminal
  BY DEF EventKind, Info, Terminal
<1> QED
  BY <1>1, CalmKind, CalmEmpty DEF Transition

\* Nor do the two model_wait events, whatever the outcome.
LEMMA CalmWait ==
    ASSUME NEW log, NEW i \in Nat, NEW n \in Nat, NEW outcome \in Outcome
    PROVE  Calm(WaitStarted(i, n), log) /\ Calm(WaitFinished(i, n, outcome), log)
<1>1. /\ "model_wait_started" \in EventKind \ Terminal
      /\ "model_wait_finished" \in EventKind \ Terminal
      /\ outcome \in Info /\ "" \in Info
  BY DEF EventKind, Info, TurnState, Terminal
<1>2. Calm(WaitStarted(i, n), log)
  BY <1>1, CalmKind DEF WaitStarted
<1>3. Calm(WaitFinished(i, n, outcome), log)
  BY <1>1, CalmKind DEF WaitFinished
<1> QED
  BY <1>2, <1>3

\* Nor does a retry notice.
LEMMA CalmRetry ==
    ASSUME NEW log, NEW i \in Nat, NEW n \in Nat
    PROVE  Calm(Retry(i, n), log)
<1>1. "retry" \in EventKind \ Terminal /\ "" \in Info
  BY DEF EventKind, Info, TurnState, Terminal
<1> QED
  BY <1>1, CalmKind DEF Retry

\* The events of the calls and of their results, in the order of the calls.
LEMMA CalmCalls ==
    ASSUME NEW log, NEW i \in Nat, NEW n \in Nat
    PROVE  Calm(CallStarts(i, n), log) /\ Calm(CallResults(i, n), log)
<1>1. ASSUME NEW k \in 1 .. 4 * n
      PROVE  /\ CallStarts(i, n)[k] \in Task /\ CalmTask(CallStarts(i, n)[k], log)
             /\ CallResults(i, n)[k] \in Task /\ CalmTask(CallResults(i, n)[k], log)
  <2> DEFINE call == (k + 3) \div 4
  <2>1. call \in Nat
    OBVIOUS
  <2>2. /\ "status" \in EventKind \ Terminal
        /\ "tool_call_start" \in EventKind \ Terminal
        /\ "tool_result" \in EventKind \ Terminal
        /\ "" \in Info
    BY DEF EventKind, Info, TurnState, Terminal
  <2>3. /\ Ev("status", i, 0, "") \in Event
        /\ Ev("tool_call_start", i, call, "") \in Event
        /\ Ev("tool_result", i, call, "") \in Event
        /\ Ev("status", i, 0, "").kind = "status"
        /\ Ev("tool_call_start", i, call, "").kind = "tool_call_start"
        /\ Ev("tool_result", i, call, "").kind = "tool_result"
    BY <2>1, <2>2, EvType
  <2> QED
    BY <2>2, <2>3 DEF CallStarts, CallResults, Task, CalmTask, Backed
<1>2. /\ CallStarts(i, n) = [k \in 1 .. 4 * n |-> CallStarts(i, n)[k]]
      /\ CallResults(i, n) = [k \in 1 .. 4 * n |-> CallResults(i, n)[k]]
  BY DEF CallStarts, CallResults
<1>3. 4 * n \in Nat
  OBVIOUS
<1>4. /\ CallStarts(i, n) \in [1 .. 4 * n -> Task]
      /\ CallResults(i, n) \in [1 .. 4 * n -> Task]
  BY <1>1, <1>2
<1>5. CallStarts(i, n) \in Seq(Task) /\ CallResults(i, n) \in Seq(Task)
  BY <1>3, <1>4, SeqDef
<1> QED
  BY <1>1, <1>4, <1>5 DEF Calm

\* A terminal event after calm sends closes the queue.
LEMMA ClosingConcat ==
    ASSUME NEW log, NEW s, NEW t, NEW kind, Calm(s, log), Closing(t, kind, log)
    PROVE  Closing(s \o t, kind, log)
<1>1. /\ s \o t \in Seq(Task)
      /\ Len(s \o t) = Len(s) + Len(t)
      /\ \A k \in 1 .. Len(s) + Len(t) :
            (s \o t)[k] = IF k <= Len(s) THEN s[k] ELSE t[k - Len(s)]
  BY ConcatProperties DEF Calm, Closing
<1>2. PICK k \in 1 .. Len(t) : ClosesAt(t, k, kind, log)
  BY DEF Closing
<1> DEFINE q == Len(s) + k
<1>3. Len(s) \in Nat /\ Len(t) \in Nat /\ q \in 1 .. Len(s) + Len(t)
  BY DEF Calm, Closing
<1>4. (s \o t)[q] = t[k]
  BY <1>1, <1>3
<1>5. ASSUME NEW j \in 1 .. q - 1 PROVE CalmTask((s \o t)[j], log)
  <2>1. CASE j <= Len(s)
    BY <1>1, <1>3, <2>1 DEF Calm
  <2>2. CASE j > Len(s)
    <3>1. j - Len(s) \in 1 .. k - 1 /\ (s \o t)[j] = t[j - Len(s)]
      BY <1>1, <1>3, <2>2
    <3> QED
      BY <1>2, <3>1 DEF ClosesAt
  <2> QED
    BY <1>3, <2>1, <2>2
<1>6. ASSUME NEW j \in q + 1 .. Len(s \o t) PROVE (s \o t)[j].op = "record"
  <2>1. j - Len(s) \in k + 1 .. Len(t) /\ (s \o t)[j] = t[j - Len(s)]
    BY <1>1, <1>3
  <2> QED
    BY <1>2, <2>1 DEF ClosesAt
<1>7. ClosesAt(s \o t, q, kind, log)
  BY <1>2, <1>4, <1>5, <1>6 DEF ClosesAt
<1> QED
  BY <1>1, <1>3, <1>7 DEF Closing

\* Emitting a terminal event alone closes the queue.
LEMMA ClosingEvent ==
    ASSUME NEW log, NEW e \in Event
    PROVE  Closing(Send(e), e.kind, log) /\ Closing(Emit(e), e.kind, log)
<1>1. ClosesAt(Send(e), 1, e.kind, log)
  BY SendType DEF ClosesAt
<1>2. ClosesAt(Emit(e), 1, e.kind, log)
  <2>1. \A j \in 1 + 1 .. Len(Emit(e)) : j = 2
    <3>1. Len(Emit(e)) = 2
      BY EmitType
    <3> QED
      BY <3>1
  <2>2. \A j \in 1 .. 1 - 1 : FALSE
    OBVIOUS
  <2> QED
    BY <2>1, <2>2, EmitType DEF ClosesAt
<1>3. 1 \in 1 .. Len(Send(e)) /\ 1 \in 1 .. Len(Emit(e))
  BY SendType, EmitType
<1> QED
  BY <1>1, <1>2, <1>3, SendType, EmitType DEF Closing

\* What is left of a queue when its head has been performed.
LEMMA CalmTail ==
    ASSUME NEW log, NEW s, Calm(s, log), s # <<>>
    PROVE  /\ Head(s) \in Task /\ CalmTask(Head(s), log)
           /\ Calm(Tail(s), log)
<1>1. /\ Len(s) \in Nat /\ Len(s) > 0 /\ Head(s) = s[1]
      /\ Tail(s) \in Seq(Task) /\ Len(Tail(s)) = Len(s) - 1
      /\ \A k \in 1 .. Len(Tail(s)) : Tail(s)[k] = s[k + 1]
  BY DEF Calm
<1>2. \A k \in 1 .. Len(Tail(s)) : k + 1 \in 1 .. Len(s)
  BY <1>1
<1> QED
  BY <1>1, <1>2 DEF Calm

\* A queue of UI-event writes stays one when its head is performed.
LEMMA RecordsTail ==
    ASSUME NEW s, OnlyRecords(s), s # <<>>
    PROVE  /\ Head(s) \in Task /\ Head(s).op = "record"
           /\ OnlyRecords(Tail(s))
<1>1. /\ Len(s) \in Nat /\ Len(s) > 0 /\ Head(s) = s[1]
      /\ Tail(s) \in Seq(Task) /\ Len(Tail(s)) = Len(s) - 1
      /\ \A k \in 1 .. Len(Tail(s)) : Tail(s)[k] = s[k + 1]
  BY DEF OnlyRecords
<1>2. \A k \in 1 .. Len(Tail(s)) : k + 1 \in 1 .. Len(s)
  BY <1>1
<1> QED
  BY <1>1, <1>2 DEF OnlyRecords

\* A closing queue stays one until its terminal event is sent, and then holds writes only.
LEMMA ClosingTail ==
    ASSUME NEW log, NEW s, NEW kind, Closing(s, kind, log)
    PROVE  /\ s # <<>> /\ Head(s) \in Task
           /\ \/ CalmTask(Head(s), log) /\ Closing(Tail(s), kind, log)
              \/ Head(s).op = "send" /\ Head(s).ev.kind = kind /\ OnlyRecords(Tail(s))
<1>1. PICK k \in 1 .. Len(s) : ClosesAt(s, k, kind, log)
  BY DEF Closing
<1>2. /\ s # <<>> /\ Len(s) \in Nat /\ Len(s) > 0 /\ Head(s) = s[1] /\ Head(s) \in Task
      /\ Tail(s) \in Seq(Task) /\ Len(Tail(s)) = Len(s) - 1
      /\ \A j \in 1 .. Len(Tail(s)) : Tail(s)[j] = s[j + 1]
  BY DEF Closing
<1>3. CASE k = 1
  <2>1. \A j \in 1 .. Len(Tail(s)) : Tail(s)[j].op = "record"
    BY <1>1, <1>2, <1>3 DEF ClosesAt
  <2> QED
    BY <1>1, <1>2, <1>3, <2>1 DEF ClosesAt, OnlyRecords
<1>4. CASE k > 1
  <2>1. ClosesAt(Tail(s), k - 1, kind, log)
    <3>1. Tail(s)[k - 1] = s[k]
      BY <1>2, <1>4
    <3>2. \A j \in 1 .. k - 2 : Tail(s)[j] = s[j + 1] /\ j + 1 \in 1 .. k - 1
      BY <1>2, <1>4
    <3>3. \A j \in k .. Len(Tail(s)) : Tail(s)[j] = s[j + 1] /\ j + 1 \in k + 1 .. Len(s)
      BY <1>2, <1>4
    <3>4. (k - 1) + 1 = k /\ (k - 1) - 1 = k - 2
      BY <1>4
    <3> QED
      BY <1>1, <3>1, <3>2, <3>3, <3>4 DEF ClosesAt
  <2>2. k - 1 \in 1 .. Len(Tail(s)) /\ 1 \in 1 .. k - 1
    BY <1>2, <1>4
  <2> QED
    BY <1>1, <1>2, <2>1, <2>2 DEF ClosesAt, Closing
<1> QED
  BY <1>3, <1>4
-----------------------------------------------------------------------------
(* What a step does to the announcements. *)

\* Sending an event that is not terminal leaves the channel quiet.
LEMMA QuietAppend ==
    ASSUME NEW s \in Seq(Event), NEW e \in Event, Quiet(s), e.kind \notin Terminal
    PROVE  Quiet(Append(s, e))
BY DEF Quiet

\* Sending the terminal event on a quiet channel makes it the last one.
LEMMA EndsAppend ==
    ASSUME NEW s \in Seq(Event), NEW e \in Event, Quiet(s)
    PROVE  EndsWith(Append(s, e), e.kind)
BY DEF Quiet, EndsWith

\* The conversation only grows, so what was announced stays backed.
LogKept == \A k \in DOMAIN msgs : k \in DOMAIN msgs' /\ msgs'[k] = msgs[k]

\* Appending a message takes back no announcement of an earlier one.
LEMMA LogGrows ==
    ASSUME TypeOK, NEW m \in Message, msgs' = Append(msgs, m)
    PROVE  /\ LogKept
           /\ Len(msgs') = Len(msgs) + 1
           /\ msgs'[Len(msgs')] = m
           /\ \A k \in 1 .. Len(msgs) : msgs'[k] = msgs[k]
           /\ msgs' \in Seq(Message)
BY DEF TypeOK, LogKept

\* A step that queues calm sends and does not end the turn keeps Announced.
LEMMA AnnouncedGoesOn ==
    ASSUME Announced, ~Ended, ~Ended', UNCHANGED sent, LogKept, Calm(todo', msgs')
    PROVE  Announced'
<1>1. \A k \in DOMAIN sent' : Backed(sent'[k], msgs')
  BY DEF Announced, Backed, LogKept
<1> QED
  BY <1>1 DEF Announced, Ended, Quiet

\* A step that ends the turn with a closing queue keeps Announced.
LEMMA AnnouncedReturns ==
    ASSUME Announced, ~Ended, pc' = "returned", UNCHANGED sent, LogKept,
           Closing(todo', FinalKind', msgs')
    PROVE  Announced'
<1>1. \A k \in DOMAIN sent' : Backed(sent'[k], msgs')
  BY DEF Announced, Backed, LogKept
<1> QED
  BY <1>1 DEF Announced, Ended, Quiet

\* emitError closes the queue, after calm sends of the exit itself.
LEMMA FailQueue ==
    ASSUME TypeOK, NEW pre, NEW cause \in Info, Calm(pre, msgs), Fail(pre, iter, cause),
           UNCHANGED msgs
    PROVE  Closing(todo', FinalKind', msgs') /\ todo' \in Seq(Task)
<1> DEFINE move == Transition(state, "turn_failed", iter)
           end == Emit(Ev("error", iter, 0, cause))
<1>1. /\ "turn_failed" \in TurnState /\ "error" \in EventKind /\ iter \in Nat
  BY DEF TurnState, EventKind, Terminal, TypeOK
<1>2. Calm(move, msgs)
  BY <1>1, CalmTransition
<1>3. Closing(end, "error", msgs)
  BY <1>1, EvType, ClosingEvent
<1>4. todo' = (pre \o move) \o end
  BY DEF Fail
<1>5. Calm(pre \o move, msgs)
  BY <1>2, CalmConcat
<1>6. FinalKind' = "error"
  BY DEF Fail, FinalKind
<1> QED
  BY <1>3, <1>4, <1>5, <1>6, ClosingConcat DEF Closing

\* A step between two places where the model speaks next keeps Shape.
LEMMA ShapeGoesOn ==
    ASSUME Shape, UNCHANGED msgs, ~Ended, pc \notin {"tools", "results"},
           ~Ended', pc' \notin {"tools", "results"}
    PROVE  Shape'
BY DEF Shape, ModelSpeaksNext, Answered, Ended

\* A failing exit keeps Shape: the log is what it was.
LEMMA ShapeFails ==
    ASSUME Shape, UNCHANGED msgs, ~Ended, pc' = "returned", state' = "turn_failed"
    PROVE  Shape'
<1>1. ModelSpeaksNext \/ Calls
  BY DEF Shape, Calls, Msg
<1> QED
  BY <1>1 DEF Shape, ModelSpeaksNext, Calls, Answered, Ended

-----------------------------------------------------------------------------
(* Every step preserves the invariant. *)

\* The counters of the turn stay natural numbers.
LEMMA Numbers ==
    ASSUME TypeOK
    PROVE  /\ iter \in Nat /\ attempt \in Nat /\ partial \in Nat /\ chunks \in Nat
           /\ iter + 1 \in Nat /\ attempt + 1 \in Nat
           /\ partial + 1 \in Nat /\ chunks + 1 \in Nat
           /\ NoMsg \in 0 .. NoMsg /\ agentMsg \in Nat
<1>1. iter \in Nat /\ attempt \in Nat /\ partial \in Nat /\ chunks \in Nat
  BY DEF TypeOK
<1>2. MaxCalls \in Nat /\ NoMsg \in Nat
  BY LimitAssumption DEF NoMsg
<1>3. agentMsg \in 0 .. NoMsg
  BY DEF TypeOK
<1> QED
  BY <1>1, <1>2, <1>3

\* The head of a nonempty queue is a task.
LEMMA HeadTask ==
    ASSUME NEW s \in Seq(Task), s # <<>>
    PROVE  Head(s) \in Task /\ Tail(s) \in Seq(Task) /\ Head(s).ev \in Event
<1>1. Head(s) \in Task /\ Tail(s) \in Seq(Task)
  OBVIOUS
<1> QED
  BY <1>1 DEF Task

\* A step that leaves the turn and its channel alone keeps Announced and Shape.
LEMMA EnvironmentKeeps ==
    ASSUME Announced, Shape, UNCHANGED <<turnVars, todo, sent, msgs>>
    PROVE  Announced' /\ Shape'
BY DEF Announced, Ended, Quiet, EndsWith, FinalKind, turnVars,
       Shape, ModelSpeaksNext, Calls, Answered

\* SendEvent preserves the inductive invariant.
LEMMA SendEventInv == TurnInv /\ SendEvent => TurnInv'
<1> SUFFICES ASSUME TurnInv, SendEvent PROVE TurnInv'
  OBVIOUS
<1> DEFINE e == Head(todo).ev
<1>0. todo \in Seq(Task) /\ sent \in Seq(Event)
  BY DEF TurnInv, TypeOK
<1>1. /\ todo \in Seq(Task) /\ todo # <<>> /\ Head(todo) \in Task /\ Tail(todo) \in Seq(Task)
      /\ Head(todo).op = "send" /\ e \in Event
      /\ sent \in Seq(Event) /\ sent' = Append(sent, e) /\ todo' = Tail(todo)
      /\ UNCHANGED <<turnVars, genVars, msgs>>
  BY <1>0, HeadTask DEF SendEvent
<1>2. TypeOK'
  BY <1>1 DEF TurnInv, TypeOK, SendEvent, turnVars, genVars, readVars, ChoosesDetached
<1>3. Announced'
  <2>1. Backed(e, msgs) => \A k \in DOMAIN sent' : Backed(sent'[k], msgs)
    BY <1>1 DEF TurnInv, Announced
  <2>2. CASE ~Ended
    <3>1. CalmTask(Head(todo), msgs) /\ Calm(Tail(todo), msgs) /\ Quiet(sent)
      BY <1>1, <2>2, CalmTail DEF TurnInv, Announced
    <3>2. Backed(e, msgs) /\ Quiet(sent')
      BY <1>1, <3>1, QuietAppend DEF CalmTask
    <3> QED
      BY <1>1, <2>1, <2>2, <3>1, <3>2 DEF Announced, Ended, turnVars
  <2>3. CASE pc = "returned" /\ Closing(todo, FinalKind, msgs) /\ Quiet(sent)
    <3>0. FinalKind' = FinalKind /\ pc' = pc /\ FinalKind \in Terminal
      BY <1>1 DEF FinalKind, turnVars, Terminal
    <3>1. CASE CalmTask(Head(todo), msgs) /\ Closing(Tail(todo), FinalKind, msgs)
      <4>1. Backed(e, msgs) /\ Quiet(sent')
        BY <1>1, <2>3, <3>1, QuietAppend DEF CalmTask
      <4> QED
        BY <1>1, <2>1, <2>3, <3>0, <3>1, <4>1 DEF Announced, Ended
    <3>2. CASE e.kind = FinalKind /\ OnlyRecords(Tail(todo))
      <4>1. Backed(e, msgs)
        BY <3>2 DEF Backed, FinalKind
      <4>2. EndsWith(sent', FinalKind)
        BY <1>1, <2>3, <3>2, EndsAppend
      <4> QED
        BY <1>1, <2>1, <2>3, <3>0, <3>2, <4>1, <4>2 DEF Announced, Ended
    <3> QED
      BY <2>3, <3>1, <3>2, ClosingTail
  <2>4. CASE pc = "returned" /\ OnlyRecords(todo)
    BY <1>1, <2>4, RecordsTail
  <2>5. pc # "closed"
    BY <1>1 DEF TurnInv, Announced
  <2> QED
    BY <2>2, <2>3, <2>4, <2>5 DEF TurnInv, Announced, Ended
<1>4. Shape'
  BY <1>1 DEF TurnInv, turnVars, Shape, ModelSpeaksNext, Calls, Answered, Ended
<1>5. Response'
  BY <1>1 DEF TurnInv, turnVars, genVars, Response, StreamDrained
<1> QED
  BY <1>2, <1>3, <1>4, <1>5 DEF TurnInv

\* RecordUIEvent preserves the inductive invariant.
LEMMA RecordUIEventInv == TurnInv /\ RecordUIEvent => TurnInv'
<1> SUFFICES ASSUME TurnInv, RecordUIEvent PROVE TurnInv'
  OBVIOUS
<1>0. todo \in Seq(Task)
  BY DEF TurnInv, TypeOK
<1>1. /\ todo \in Seq(Task) /\ todo # <<>> /\ Head(todo) \in Task /\ Tail(todo) \in Seq(Task)
      /\ Head(todo).op = "record" /\ Head(todo).ev \in Event
      /\ todo' = Tail(todo)
      /\ UNCHANGED <<turnVars, genVars, msgs, sent>>
  BY <1>0, HeadTask DEF RecordUIEvent
<1>2. TypeOK'
  <2>1. uilog' \in Seq(Event)
    <3>1. uilog \in Seq(Event)
      BY DEF TurnInv, TypeOK
    <3>2. uilog' = Append(uilog, Head(todo).ev) \/ uilog' = uilog
      BY DEF RecordUIEvent
    <3>3. Append(uilog, Head(todo).ev) \in Seq(Event)
      BY <1>1, <3>1
    <3> QED
      BY <3>1, <3>2, <3>3
  <2> QED
    BY <1>1, <2>1 DEF TurnInv, TypeOK, RecordUIEvent, turnVars, genVars, readVars
<1>3. Announced'
  <2>1. FinalKind' = FinalKind /\ pc' = pc
    BY <1>1 DEF FinalKind, turnVars
  <2>2. ~Ended => Calm(Tail(todo), msgs)
    BY <1>1, CalmTail DEF TurnInv, Announced
  <2>3. Closing(todo, FinalKind, msgs) => Closing(Tail(todo), FinalKind, msgs)
    BY <1>1, ClosingTail
  <2>4. OnlyRecords(todo) => OnlyRecords(Tail(todo))
    BY <1>1, RecordsTail
  <2>5. pc # "closed"
    BY <1>1 DEF TurnInv, Announced
  <2> QED
    BY <1>1, <2>1, <2>2, <2>3, <2>4, <2>5 DEF TurnInv, Announced, Ended, Quiet, EndsWith
<1>4. Shape'
  BY <1>1 DEF TurnInv, turnVars, Shape, ModelSpeaksNext, Calls, Answered, Ended
<1>5. Response'
  BY <1>1 DEF TurnInv, turnVars, genVars, Response, StreamDrained
<1> QED
  BY <1>2, <1>3, <1>4, <1>5 DEF TurnInv

\* StartTurn preserves the inductive invariant.
LEMMA StartTurnInv == TurnInv /\ StartTurn => TurnInv'
<1> SUFFICES ASSUME TurnInv, StartTurn PROVE TurnInv'
  OBVIOUS
<1>1. Calm(todo', msgs')
  <2> DEFINE e == Ev("turn_started", 0, 0, "")
  <2>1. "turn_started" \in EventKind \ Terminal /\ "turn_started" \in TurnState /\ "" \in Info
    BY DEF EventKind, Terminal, TurnState, Info
  <2>2. Calm(Send(e), msgs)
    BY <2>1, CalmKind
  <2>3. Calm(Transition(state, "turn_started", 0), msgs) /\ Calm(Status(0), msgs)
    BY <2>1, CalmTransition, CalmStatus
  <2> QED
    BY <2>2, <2>3, CalmConcat DEF StartTurn
<1>2. TypeOK'
  BY <1>1 DEF TurnInv, TypeOK, StartTurn, genVars, readVars, PC, TurnState, Calm
<1>3. Announced'
  BY <1>1, AnnouncedGoesOn DEF TurnInv, StartTurn, At, Ended, LogKept
<1>4. Shape'
  BY ShapeGoesOn DEF TurnInv, StartTurn, At, Ended
<1>5. Response'
  BY DEF TurnInv, StartTurn, At, genVars, Response, StreamDrained
<1> QED
  BY <1>2, <1>3, <1>4, <1>5 DEF TurnInv

\* NextIteration preserves the inductive invariant.
LEMMA NextIterationInv == TurnInv /\ NextIteration => TurnInv'
<1> SUFFICES ASSUME TurnInv, NextIteration PROVE TurnInv'
  OBVIOUS
<1>0. iter' \in Nat /\ partial' \in Nat /\ msgId' \in BOOLEAN /\ pending' \in BOOLEAN
  BY Numbers DEF TurnInv, NextIteration
<1>1. CASE iter' > MaxIterations /\ Fail(<<>>, iter', "max_iterations")
  <2>1. Closing(todo', FinalKind', msgs') /\ todo' \in Seq(Task)
    <3> DEFINE move == Transition(state, "turn_failed", iter')
               end == Emit(Ev("error", iter', 0, "max_iterations"))
    <3>1. /\ "turn_failed" \in TurnState /\ "error" \in EventKind
          /\ "max_iterations" \in Info
      BY DEF TurnState, EventKind, Terminal, Info, Cause
    <3>2. Calm(move, msgs) /\ Calm(<<>>, msgs)
      BY <1>0, <3>1, CalmTransition, CalmEmpty
    <3>3. Closing(end, "error", msgs)
      BY <1>0, <3>1, EvType, ClosingEvent
    <3>4. todo' = (<<>> \o move) \o end /\ UNCHANGED msgs /\ FinalKind' = "error"
      BY <1>1 DEF Fail, NextIteration, FinalKind
    <3>5. Calm(<<>> \o move, msgs)
      BY <3>2, CalmConcat
    <3> QED
      BY <3>3, <3>4, <3>5, ClosingConcat DEF Closing
  <2>2. TypeOK'
    BY <1>0, <1>1, <2>1
    DEF TurnInv, TypeOK, NextIteration, Fail, genVars, readVars, PC, TurnState
  <2>3. Announced'
    BY <1>1, <2>1, AnnouncedReturns DEF TurnInv, NextIteration, Fail, At, Ended, LogKept
  <2>4. Shape'
    BY <1>1, ShapeFails DEF TurnInv, NextIteration, Fail, At, Ended
  <2>5. Response'
    BY <1>1 DEF TurnInv, NextIteration, Fail, At, genVars, Response, StreamDrained
  <2> QED
    BY <2>2, <2>3, <2>4, <2>5 DEF TurnInv
<1>2. CASE pc' = (IF cancelled THEN "abort" ELSE "history") /\ UNCHANGED <<state, todo>>
  <2>1. Calm(todo', msgs')
    BY <1>2, CalmEmpty DEF NextIteration, At
  <2>2. TypeOK'
    BY <1>0, <1>2 DEF TurnInv, TypeOK, NextIteration, genVars, readVars, PC
  <2>3. Announced'
    BY <1>2, <2>1, AnnouncedGoesOn DEF TurnInv, NextIteration, At, Ended, LogKept
  <2>4. Shape'
    BY <1>2, ShapeGoesOn DEF TurnInv, NextIteration, At, Ended
  <2>5. Response'
    BY <1>2 DEF TurnInv, NextIteration, At, genVars, Response, StreamDrained
  <2> QED
    BY <2>2, <2>3, <2>4, <2>5 DEF TurnInv
<1> QED
  BY <1>1, <1>2 DEF NextIteration

\* BuildHistory preserves the inductive invariant.
LEMMA BuildHistoryInv == TurnInv /\ BuildHistory => TurnInv'
<1> SUFFICES ASSUME TurnInv, BuildHistory PROVE TurnInv'
  OBVIOUS
<1>1. ASSUME NEW r \in StoreResult, r # "ok", Fail(<<>>, iter, r), UNCHANGED <<attempt, agentMsg>>
      PROVE  TurnInv'
  <2>1. Closing(todo', FinalKind', msgs') /\ todo' \in Seq(Task)
    <3>1. r \in Info
      BY <1>1 DEF StoreResult, Cause, Info
    <3> QED
      BY <1>1, <3>1, FailQueue, CalmEmpty DEF TurnInv, BuildHistory
  <2>2. TypeOK'
    BY <1>1, <2>1 DEF TurnInv, TypeOK, BuildHistory, Fail, genVars, readVars, PC, TurnState
  <2>3. Announced'
    BY <1>1, <2>1, AnnouncedReturns DEF TurnInv, BuildHistory, Fail, At, Ended, LogKept
  <2>4. Shape'
    BY <1>1, ShapeFails DEF TurnInv, BuildHistory, Fail, At, Ended
  <2>5. Response'
    BY <1>1 DEF TurnInv, BuildHistory, Fail, At, genVars, Response, StreamDrained
  <2> QED
    BY <2>2, <2>3, <2>4, <2>5 DEF TurnInv
<1>2. CASE /\ pc' = "attempt" /\ attempt' = 0 /\ agentMsg' = NoMsg
           /\ state' = "history_ready" /\ todo' = Transition(state, "history_ready", iter)
  <2>1. Calm(todo', msgs')
    BY <1>2, CalmTransition DEF TurnInv, TypeOK, BuildHistory, TurnState
  <2>2. TypeOK'
    <3>1. agentMsg' \in 0 .. NoMsg
      BY <1>2, Numbers DEF TurnInv
    <3> QED
      BY <1>2, <2>1, <3>1
      DEF TurnInv, TypeOK, BuildHistory, genVars, readVars, PC, TurnState, Calm
  <2>3. Announced'
    BY <1>2, <2>1, AnnouncedGoesOn DEF TurnInv, BuildHistory, At, Ended, LogKept
  <2>4. Shape'
    BY <1>2, ShapeGoesOn DEF TurnInv, BuildHistory, At, Ended
  <2>5. Response'
    BY <1>2 DEF TurnInv, BuildHistory, At, genVars, Response, StreamDrained
  <2> QED
    BY <2>2, <2>3, <2>4, <2>5 DEF TurnInv
<1> QED
  BY <1>1, <1>2 DEF BuildHistory

\* StartAttempt preserves the inductive invariant.
LEMMA StartAttemptInv == TurnInv /\ StartAttempt => TurnInv'
<1> SUFFICES ASSUME TurnInv, StartAttempt PROVE TurnInv'
  OBVIOUS
<1>1. Calm(todo', msgs')
  <2>1. iter \in Nat /\ attempt + 1 \in Nat /\ "model_waiting" \in TurnState
    BY Numbers DEF TurnInv, TurnState
  <2>2. /\ Calm(Transition(state, "model_waiting", iter), msgs)
        /\ Calm(WaitStarted(iter, attempt + 1), msgs)
        /\ Calm(Status(iter), msgs)
    BY <2>1, CalmTransition, CalmWait, CalmStatus DEF Outcome
  <2> QED
    BY <2>2, CalmConcat DEF StartAttempt
<1>2. TypeOK'
  BY <1>1 DEF TurnInv, TypeOK, StartAttempt, genVars, readVars, PC, TurnState, Calm
<1>3. Announced'
  BY <1>1, AnnouncedGoesOn DEF TurnInv, StartAttempt, At, Ended, LogKept
<1>4. Shape'
  BY ShapeGoesOn DEF TurnInv, StartAttempt, At, Ended
<1>5. Response'
  BY DEF TurnInv, StartAttempt, At, genVars, Response, StreamDrained
<1> QED
  BY <1>2, <1>3, <1>4, <1>5 DEF TurnInv

\* CallModel preserves the inductive invariant.
LEMMA CallModelInv == TurnInv /\ CallModel => TurnInv'
<1> SUFFICES ASSUME TurnInv, CallModel PROVE TurnInv'
  OBVIOUS
<1>1. Calm(todo', msgs')
  BY CalmEmpty DEF CallModel, At, emitVars
<1>2. TypeOK'
  BY DEF TurnInv, TypeOK, CallModel, emitVars, readVars, PC
<1>3. Announced'
  BY <1>1, AnnouncedGoesOn DEF TurnInv, CallModel, At, emitVars, Ended, LogKept
<1>4. Shape'
  BY ShapeGoesOn DEF TurnInv, CallModel, At, Ended
<1>5. Response'
  BY DEF CallModel, Response, StreamDrained
<1> QED
  BY <1>2, <1>3, <1>4, <1>5 DEF TurnInv

\* What the head of the stream says of the rest.
LEMMA StreamHead ==
    ASSUME TypeOK, Response, stream # <<>>, stream' = Tail(stream), UNCHANGED gen
    PROVE  /\ Head(stream) \in StreamItem /\ stream' \in Seq(StreamItem)
           /\ Head(stream).n \in 0 .. MaxCalls /\ Head(stream).info \in Info
           /\ \A k \in DOMAIN stream' : k < Len(stream') => IsChunk(stream'[k])
           /\ gen' \in {"running", "sending"} => \A k \in DOMAIN stream' : IsChunk(stream'[k])
           /\ ~IsChunk(Head(stream)) => gen \in {"idle", "closed"} /\ stream' = <<>>
<1>1. stream \in Seq(StreamItem) /\ gen \in {"idle", "running", "sending", "closed"}
  BY DEF TypeOK
<1>2. /\ Len(stream) \in Nat /\ Len(stream) > 0 /\ Head(stream) = stream[1]
      /\ Head(stream) \in StreamItem
      /\ stream' \in Seq(StreamItem) /\ Len(stream') = Len(stream) - 1
      /\ \A k \in 1 .. Len(stream') : stream'[k] = stream[k + 1] /\ k + 1 \in 1 .. Len(stream)
  BY <1>1
<1>3. \A k \in DOMAIN stream' : k < Len(stream') => IsChunk(stream'[k])
  <2> SUFFICES ASSUME NEW k \in 1 .. Len(stream'), k < Len(stream') PROVE IsChunk(stream'[k])
    BY <1>2
  <2>1. k + 1 \in 1 .. Len(stream) /\ k + 1 < Len(stream)
    BY <1>2
  <2> QED
    BY <1>1, <1>2, <2>1 DEF Response
<1>4. gen' \in {"running", "sending"} => \A k \in DOMAIN stream' : IsChunk(stream'[k])
  BY <1>1, <1>2 DEF Response
<1>5. ASSUME ~IsChunk(Head(stream)) PROVE gen \in {"idle", "closed"} /\ stream' = <<>>
  <2>1. 1 \in DOMAIN stream
    BY <1>1, <1>2
  <2>2. ~(1 < Len(stream)) /\ gen \notin {"running", "sending"}
    BY <1>2, <1>5, <2>1 DEF Response
  <2>3. Len(stream') = 0
    BY <1>2, <2>2
  <2> QED
    BY <1>1, <1>2, <2>2, <2>3
<1>6. Head(stream).n \in 0 .. MaxCalls /\ Head(stream).info \in Info
  BY <1>2 DEF StreamItem
<1> QED
  BY <1>2, <1>3, <1>4, <1>5, <1>6

\* recordFirstToken queues a transition at most.
LEMMA CalmFirstToken ==
    ASSUME TypeOK, NEW log
    PROVE  Calm(FirstToken, log)
<1>1. iter \in Nat /\ "model_streaming" \in TurnState
  BY Numbers DEF TurnState
<1> QED
  BY <1>1, CalmTransition, CalmEmpty DEF FirstToken

\* ReceiveDelta preserves the inductive invariant.
LEMMA ReceiveDeltaInv == TurnInv /\ ReceiveDelta => TurnInv'
<1> SUFFICES ASSUME TurnInv, ReceiveDelta PROVE TurnInv'
  OBVIOUS
<1> DEFINE kind == Head(stream).kind
           delta == FirstToken \o Send(Ev("delta", iter, attempt + 1, kind))
           thought == delta \o Record(Ev("thought", iter, attempt + 1, ""))
<1>1. Calm(todo', msgs')
  <2>1. /\ iter \in Nat /\ attempt + 1 \in Nat /\ kind \in Info /\ "" \in Info
        /\ "delta" \in EventKind \ Terminal /\ "thought" \in EventKind
    BY Numbers DEF TurnInv, ReceiveDelta, Info, TurnState, EventKind, Terminal
  <2>2. Calm(FirstToken, msgs) /\ Calm(Status(iter), msgs)
    BY <2>1, CalmFirstToken, CalmStatus DEF TurnInv
  <2>3. Calm(Send(Ev("delta", iter, attempt + 1, kind)), msgs)
    BY <2>1, CalmKind
  <2>4. Calm(delta, msgs)
    BY <2>2, <2>3, CalmConcat
  <2>5. Calm(Record(Ev("thought", iter, attempt + 1, "")), msgs)
    BY <2>1, EvType, CalmRecord
  <2>6. Calm(thought, msgs) /\ Calm(thought \o Status(iter), msgs)
    BY <2>2, <2>4, <2>5, CalmConcat
  <2>7. todo' \in {delta, thought, thought \o Status(iter)} /\ UNCHANGED msgs
    BY DEF ReceiveDelta
  <2> QED
    BY <2>4, <2>6, <2>7
<1>2. stream' \in Seq(StreamItem) /\ partial' \in Nat
  BY StreamHead, Numbers DEF TurnInv, ReceiveDelta
<1>3. TypeOK'
  BY <1>1, <1>2 DEF TurnInv, TypeOK, ReceiveDelta, readVars, TurnState, Calm
<1>4. Announced'
  BY <1>1, AnnouncedGoesOn DEF TurnInv, ReceiveDelta, At, Ended, LogKept
<1>5. Shape'
  BY ShapeGoesOn DEF TurnInv, ReceiveDelta, At, Ended
<1>6. Response'
  BY StreamHead DEF TurnInv, ReceiveDelta, At, Response, StreamDrained
<1> QED
  BY <1>3, <1>4, <1>5, <1>6 DEF TurnInv

\* ReceiveMessage preserves the inductive invariant.
LEMMA ReceiveMessageInv == TurnInv /\ ReceiveMessage => TurnInv'
<1> SUFFICES ASSUME TurnInv, ReceiveMessage PROVE TurnInv'
  OBVIOUS
<1>1. Calm(todo', msgs')
  BY CalmFirstToken DEF TurnInv, ReceiveMessage
<1>2. stream' \in Seq(StreamItem) /\ agentMsg' \in 0 .. NoMsg
  <2>1. stream' \in Seq(StreamItem) /\ agentMsg' \in 0 .. MaxCalls
    BY StreamHead DEF TurnInv, ReceiveMessage
  <2> QED
    BY <2>1, LimitAssumption DEF NoMsg
<1>3. TypeOK'
  BY <1>1, <1>2 DEF TurnInv, TypeOK, ReceiveMessage, readVars, TurnState, Calm
<1>4. Announced'
  BY <1>1, AnnouncedGoesOn DEF TurnInv, ReceiveMessage, At, Ended, LogKept
<1>5. Shape'
  BY ShapeGoesOn DEF TurnInv, ReceiveMessage, At, Ended
<1>6. Response'
  BY StreamHead DEF TurnInv, ReceiveMessage, At, Response, StreamDrained
<1> QED
  BY <1>3, <1>4, <1>5, <1>6 DEF TurnInv

\* ReceiveError preserves the inductive invariant.
LEMMA ReceiveErrorInv == TurnInv /\ ReceiveError => TurnInv'
<1> SUFFICES ASSUME TurnInv, ReceiveError PROVE TurnInv'
  OBVIOUS
<1> DEFINE n == attempt + 1
<1>1. /\ stream' = <<>> /\ gen \in {"idle", "closed"} /\ stream' \in Seq(StreamItem)
      /\ Head(stream).info \in Info
  BY StreamHead DEF TurnInv, ReceiveError, IsChunk
<1>2. iter \in Nat /\ n \in Nat
  BY Numbers DEF TurnInv
<1>3. \A outcome \in Outcome : Calm(WaitFinished(iter, n, outcome), msgs)
  BY <1>2, CalmWait
<1>4. CASE cancelled /\ pc' = "abort" /\ todo' = WaitFinished(iter, n, "aborted")
           /\ UNCHANGED <<state, ticks>>
  <2>1. Calm(todo', msgs')
    BY <1>3, <1>4 DEF Outcome, ReceiveError
  <2>2. TypeOK'
    BY <1>1, <1>4, <2>1 DEF TurnInv, TypeOK, ReceiveError, readVars, PC, Calm
  <2>3. Announced'
    BY <1>4, <2>1, AnnouncedGoesOn DEF TurnInv, ReceiveError, At, Ended, LogKept
  <2>4. Shape'
    BY <1>4, ShapeGoesOn DEF TurnInv, ReceiveError, At, Ended
  <2>5. Response'
    BY <1>1, <1>4 DEF ReceiveError, Response, StreamDrained
  <2> QED
    BY <2>2, <2>3, <2>4, <2>5 DEF TurnInv
<1>5. CASE /\ pc' = "retry" /\ ticks' = RetryTicks /\ state' = "retry_waiting"
           /\ todo' = WaitFinished(iter, n, "retry")
                         \o Transition(state, "retry_waiting", iter)
                         \o Status(iter) \o Retry(iter, n)
  <2>1. Calm(todo', msgs')
    <3>1. /\ Calm(WaitFinished(iter, n, "retry"), msgs)
          /\ Calm(Transition(state, "retry_waiting", iter), msgs)
          /\ Calm(Status(iter), msgs) /\ Calm(Retry(iter, n), msgs)
      BY <1>2, <1>3, CalmTransition, CalmStatus, CalmRetry DEF Outcome, TurnState
    <3> QED
      BY <1>5, <3>1, CalmConcat DEF ReceiveError
  <2>2. ticks' \in Nat /\ ticks' > 0
    BY <1>5, LimitAssumption
  <2>3. TypeOK'
    BY <1>1, <1>5, <2>1, <2>2 DEF TurnInv, TypeOK, ReceiveError, readVars, PC, TurnState, Calm
  <2>4. Announced'
    BY <1>5, <2>1, AnnouncedGoesOn DEF TurnInv, ReceiveError, At, Ended, LogKept
  <2>5. Shape'
    BY <1>5, ShapeGoesOn DEF TurnInv, ReceiveError, At, Ended
  <2>6. Response'
    BY <1>1, <1>5, <2>2 DEF ReceiveError, Response, StreamDrained
  <2> QED
    BY <2>3, <2>4, <2>5, <2>6 DEF TurnInv
<1>6. CASE Fail(WaitFinished(iter, n, "error"), iter, Head(stream).info) /\ UNCHANGED ticks
  <2>1. Closing(todo', FinalKind', msgs') /\ todo' \in Seq(Task)
    BY <1>1, <1>3, <1>6, FailQueue DEF TurnInv, ReceiveError, Outcome
  <2>2. TypeOK'
    BY <1>1, <1>6, <2>1 DEF TurnInv, TypeOK, ReceiveError, Fail, readVars, PC, TurnState
  <2>3. Announced'
    BY <1>6, <2>1, AnnouncedReturns DEF TurnInv, ReceiveError, Fail, At, Ended, LogKept
  <2>4. Shape'
    BY <1>6, ShapeFails DEF TurnInv, ReceiveError, Fail, At, Ended
  <2>5. Response'
    BY <1>1, <1>6 DEF ReceiveError, Fail, Response, StreamDrained
  <2> QED
    BY <2>2, <2>3, <2>4, <2>5 DEF TurnInv
<1> QED
  BY <1>4, <1>5, <1>6 DEF ReceiveError

\* StreamEnds preserves the inductive invariant.
LEMMA StreamEndsInv == TurnInv /\ StreamEnds => TurnInv'
<1> SUFFICES ASSUME TurnInv, StreamEnds PROVE TurnInv'
  OBVIOUS
<1>1. Calm(todo', msgs')
  <2>1. /\ Calm(WaitFinished(iter, attempt + 1, "error"), msgs)
        /\ Calm(WaitFinished(iter, attempt + 1, "success"), msgs)
    BY Numbers, CalmWait DEF TurnInv, Outcome
  <2> QED
    BY <2>1 DEF StreamEnds
<1>2. TypeOK'
  BY <1>1 DEF TurnInv, TypeOK, StreamEnds, genVars, readVars, PC, Calm
<1>3. Announced'
  BY <1>1, AnnouncedGoesOn DEF TurnInv, StreamEnds, At, Ended, LogKept
<1>4. Shape'
  BY ShapeGoesOn DEF TurnInv, StreamEnds, At, Ended
<1>5. Response'
  BY DEF TurnInv, StreamEnds, genVars, Response, StreamDrained
<1> QED
  BY <1>2, <1>3, <1>4, <1>5 DEF TurnInv

\* NoResponse preserves the inductive invariant.
LEMMA NoResponseInv == TurnInv /\ NoResponse => TurnInv'
<1> SUFFICES ASSUME TurnInv, NoResponse PROVE TurnInv'
  OBVIOUS
<1>1. CASE pc' = "abort" /\ UNCHANGED <<state, todo>>
  <2>1. Calm(todo', msgs')
    BY <1>1, CalmEmpty DEF NoResponse, At
  <2>2. TypeOK'
    BY <1>1 DEF TurnInv, TypeOK, NoResponse, genVars, readVars, PC
  <2>3. Announced'
    BY <1>1, <2>1, AnnouncedGoesOn DEF TurnInv, NoResponse, At, Ended, LogKept
  <2>4. Shape'
    BY <1>1, ShapeGoesOn DEF TurnInv, NoResponse, At, Ended
  <2>5. Response'
    BY <1>1 DEF TurnInv, NoResponse, At, genVars, Response, StreamDrained
  <2> QED
    BY <2>2, <2>3, <2>4, <2>5 DEF TurnInv
<1>2. CASE Fail(<<>>, iter, "no_response")
  <2>1. Closing(todo', FinalKind', msgs') /\ todo' \in Seq(Task)
    BY <1>2, FailQueue, CalmEmpty DEF TurnInv, NoResponse, Info, Cause
  <2>2. TypeOK'
    BY <1>2, <2>1 DEF TurnInv, TypeOK, NoResponse, Fail, genVars, readVars, PC, TurnState
  <2>3. Announced'
    BY <1>2, <2>1, AnnouncedReturns DEF TurnInv, NoResponse, Fail, At, Ended, LogKept
  <2>4. Shape'
    BY <1>2, ShapeFails DEF TurnInv, NoResponse, Fail, At, Ended
  <2>5. Response'
    BY <1>2 DEF TurnInv, NoResponse, Fail, At, genVars, Response, StreamDrained
  <2> QED
    BY <2>2, <2>3, <2>4, <2>5 DEF TurnInv
<1> QED
  BY <1>1, <1>2 DEF NoResponse

\* RetryTick preserves the inductive invariant.
LEMMA RetryTickInv == TurnInv /\ RetryTick => TurnInv'
<1> SUFFICES ASSUME TurnInv, RetryTick PROVE TurnInv'
  OBVIOUS
<1>1. Calm(Retry(iter, attempt + 1), msgs) /\ Calm(<<>>, msgs)
  BY Numbers, CalmRetry, CalmEmpty DEF TurnInv
<1>2. Calm(todo', msgs')
  BY <1>1 DEF RetryTick, At
<1>3. ticks' \in Nat /\ attempt' \in Nat
  <2>1. ticks \in Nat /\ ticks > 0
    BY DEF TurnInv, TypeOK, Response, RetryTick, At
  <2>2. ticks' \in {ticks, ticks - 1} /\ attempt' \in {attempt, attempt + 1}
    BY DEF RetryTick
  <2> QED
    BY <2>1, <2>2, Numbers DEF TurnInv
<1>4. pc' \in {"abort", "retry", "attempt"} /\ (pc' = "retry" => ticks' > 0)
  <2>1. \/ pc' = "abort"
        \/ ticks' > 0 /\ pc' = pc
        \/ pc' = "attempt"
    BY DEF RetryTick
  <2> QED
    BY <2>1 DEF RetryTick, At
<1>5. TypeOK'
  BY <1>2, <1>3, <1>4 DEF TurnInv, TypeOK, RetryTick, genVars, readVars, PC, Calm
<1>6. Announced'
  BY <1>2, <1>4, AnnouncedGoesOn DEF TurnInv, RetryTick, At, Ended, LogKept
<1>7. Shape'
  BY <1>4, ShapeGoesOn DEF TurnInv, RetryTick, At, Ended
<1>8. Response'
  BY <1>4 DEF TurnInv, RetryTick, At, genVars, Response, StreamDrained
<1> QED
  BY <1>5, <1>6, <1>7, <1>8 DEF TurnInv

-----------------------------------------------------------------------------
(* The steps that add a message to the conversation. *)

\* Appending a message that answers the calls of the last one, if it has any, leaves
\* every earlier message answered.
LEMMA AnsweredGrows ==
    ASSUME TypeOK, Shape, NEW m \in Message, msgs' = Append(msgs, m),
           \/ ModelSpeaksNext
           \/ m.by = "tool" /\ m.calls = Last(msgs).calls
    PROVE  /\ Last(msgs') = m
           /\ Len(msgs') > 0
           /\ \A k \in DOMAIN msgs' : k < Len(msgs') => Answered(k)'
<1>1. msgs \in Seq(Message) /\ Len(msgs) > 0 /\ Len(msgs) \in Nat
  BY DEF TypeOK, Shape
<1>2. /\ msgs' \in Seq(Message) /\ Len(msgs') = Len(msgs) + 1
      /\ msgs'[Len(msgs')] = m
      /\ \A k \in 1 .. Len(msgs) : msgs'[k] = msgs[k]
  BY LogGrows
<1>3. ASSUME NEW k \in 1 .. Len(msgs') - 1 PROVE Answered(k)'
  <2>1. CASE k < Len(msgs)
    <3>1. k \in 1 .. Len(msgs) /\ k + 1 \in 1 .. Len(msgs)
      BY <1>1, <1>2, <2>1
    <3>2. msgs'[k] = msgs[k] /\ msgs'[k + 1] = msgs[k + 1]
      BY <1>2, <3>1
    <3>3. Answered(k)
      BY <1>1, <2>1, <3>1 DEF Shape
    <3> QED
      BY <1>1, <1>2, <2>1, <3>2, <3>3 DEF Answered
  <2>2. CASE k = Len(msgs)
    <3>1. msgs'[k] = Last(msgs) /\ msgs'[k + 1] = m /\ k < Len(msgs')
      BY <1>1, <1>2, <2>2 DEF Last
    <3> QED
      BY <3>1 DEF Answered, ModelSpeaksNext
  <2> QED
    BY <1>1, <1>2, <2>1, <2>2
<1> QED
  BY <1>1, <1>2, <1>3 DEF Last

\* PersistMessage preserves the inductive invariant.
LEMMA PersistMessageInv == TurnInv /\ PersistMessage => TurnInv'
<1> SUFFICES ASSUME TurnInv, PersistMessage PROVE TurnInv'
  OBVIOUS
<1> USE DEF TurnInv
<1>1. ASSUME NEW r \in StoreResult, r # "ok", Fail(<<>>, iter, r),
             UNCHANGED <<msgId, partial, pending, open, msgs>>
      PROVE  TurnInv'
  <2>1. Closing(todo', FinalKind', msgs') /\ todo' \in Seq(Task)
    <3>1. r \in Info
      BY <1>1 DEF StoreResult, Cause, Info
    <3> QED
      BY <1>1, <3>1, FailQueue, CalmEmpty
  <2>2. TypeOK'
    BY <1>1, <2>1 DEF TypeOK, PersistMessage, Fail, genVars, readVars, PC, TurnState
  <2>3. Announced'
    BY <1>1, <2>1, AnnouncedReturns DEF PersistMessage, Fail, At, Ended, LogKept
  <2>4. Shape'
    BY <1>1, ShapeFails DEF PersistMessage, Fail, At, Ended
  <2>5. Response'
    BY <1>1 DEF PersistMessage, Fail, At, genVars, Response, StreamDrained
  <2> QED
    BY <2>2, <2>3, <2>4, <2>5
<1> DEFINE m == Msg("agent", iter, agentMsg, 0)
           done == Ev("message_done", iter, agentMsg, "")
           announced == Transition(state, "message_persisted", iter) \o Send(done)
<1>2. CASE /\ msgs' = Append(msgs, m)
           /\ msgId' = TRUE /\ partial' = 0 /\ pending' = FALSE
           /\ \/ /\ agentMsg = 0 /\ pc' = "returned" /\ state' = "turn_completed"
                 /\ todo' = announced \o Status(iter) \o Status(iter)
                       \o Transition("message_persisted", "turn_completed", iter)
                       \o Send(Ev("turn_complete", iter, 0, ""))
                 /\ UNCHANGED open
              \/ /\ agentMsg > 0 /\ pc' = "tools" /\ state' = "tool_executing"
                 /\ open' = 1 .. agentMsg
                 /\ todo' = announced
                       \o Transition("message_persisted", "tool_dispatching", iter)
                       \o Status(iter) \o CallStarts(iter, agentMsg)
                       \o Transition("tool_dispatching", "tool_executing", iter)
  <2>1. agentMsg \in 0 .. MaxCalls /\ iter \in Nat /\ agentMsg \in Nat
    <3>1. agentMsg \in 0 .. NoMsg /\ agentMsg # NoMsg /\ MaxCalls \in Nat
      BY LimitAssumption DEF TypeOK, Response, PersistMessage, At
    <3> QED
      BY <3>1, Numbers DEF NoMsg
  <2>2. m \in Message /\ m.by = "agent" /\ m.calls = agentMsg
    BY <2>1 DEF Msg, Message
  <2>3. ModelSpeaksNext
    BY DEF Shape, Ended, PersistMessage, At
  <2>4. /\ LogKept /\ msgs' \in Seq(Message) /\ Last(msgs') = m /\ Len(msgs') > 0
        /\ \A k \in DOMAIN msgs' : k < Len(msgs') => Answered(k)'
    BY <1>2, <2>2, <2>3, LogGrows, AnsweredGrows
  <2>5. Calm(announced, msgs')
    <3>1. /\ "message_done" \in EventKind /\ "message_done" \notin Terminal /\ "" \in Info
          /\ "message_persisted" \in TurnState
      BY DEF EventKind, Terminal, Info, TurnState
    <3>2. done \in Event /\ done.kind \notin Terminal /\ done.iter = iter /\ done.n = agentMsg
      BY <2>1, <3>1, EvType DEF Ev
    <3>3. Backed(done, msgs')
      <4>1. Len(msgs') \in DOMAIN msgs' /\ msgs'[Len(msgs')] = m
        BY <2>4 DEF Last
      <4> QED
        BY <3>2, <4>1 DEF Backed
    <3>4. Calm(Send(done), msgs')
      BY <3>2, <3>3, CalmEvent
    <3>5. Calm(Transition(state, "message_persisted", iter), msgs')
      BY <2>1, <3>1, CalmTransition
    <3> QED
      BY <3>4, <3>5, CalmConcat
  <2>6. /\ Calm(Status(iter), msgs')
        /\ Calm(Transition("message_persisted", "turn_completed", iter), msgs')
        /\ Calm(Transition("message_persisted", "tool_dispatching", iter), msgs')
        /\ Calm(Transition("tool_dispatching", "tool_executing", iter), msgs')
        /\ Calm(CallStarts(iter, agentMsg), msgs')
    BY <2>1, CalmStatus, CalmTransition, CalmCalls DEF TurnState
  <2>7. CASE /\ agentMsg = 0 /\ pc' = "returned" /\ state' = "turn_completed"
             /\ todo' = announced \o Status(iter) \o Status(iter)
                   \o Transition("message_persisted", "turn_completed", iter)
                   \o Send(Ev("turn_complete", iter, 0, ""))
             /\ UNCHANGED open
    <3>1. Closing(todo', FinalKind', msgs')
      <4> DEFINE before == announced \o Status(iter) \o Status(iter)
                              \o Transition("message_persisted", "turn_completed", iter)
      <4>1. Calm(before, msgs')
        BY <2>5, <2>6, CalmConcat
      <4>2. Closing(Send(Ev("turn_complete", iter, 0, "")), "turn_complete", msgs')
        <5>1. "turn_complete" \in EventKind /\ "" \in Info
          BY DEF EventKind, Terminal, Info, TurnState
        <5> QED
          BY <2>1, <5>1, EvType, ClosingEvent
      <4>3. FinalKind' = "turn_complete"
        BY <2>7 DEF FinalKind
      <4>4. todo' = before \o Send(Ev("turn_complete", iter, 0, ""))
        BY <2>7
      <4> HIDE DEF before
      <4> QED
        BY <4>1, <4>2, <4>3, <4>4, ClosingConcat
    <3>2. TypeOK'
      BY <1>2, <2>4, <2>7, <3>1
      DEF TypeOK, PersistMessage, genVars, readVars, PC, TurnState, Closing
    <3>3. Announced'
      BY <2>4, <2>7, <3>1, AnnouncedReturns DEF PersistMessage, At, Ended
    <3>4. Shape'
      BY <2>2, <2>4, <2>7 DEF Shape, Ended
    <3>5. Response'
      BY <2>7 DEF PersistMessage, At, genVars, Response, StreamDrained
    <3> QED
      BY <3>2, <3>3, <3>4, <3>5
  <2>8. CASE /\ agentMsg > 0 /\ pc' = "tools" /\ state' = "tool_executing"
             /\ open' = 1 .. agentMsg
             /\ todo' = announced
                   \o Transition("message_persisted", "tool_dispatching", iter)
                   \o Status(iter) \o CallStarts(iter, agentMsg)
                   \o Transition("tool_dispatching", "tool_executing", iter)
    <3>1. Calm(todo', msgs')
      BY <2>5, <2>6, <2>8, CalmConcat
    <3>2. open' \subseteq 1 .. MaxCalls /\ agentMsg \in 1 .. MaxCalls
      <4>0. agentMsg > 0 /\ MaxCalls \in Nat
        BY <2>8, LimitAssumption
      <4>1. MaxCalls \in Nat /\ agentMsg \in 1 .. MaxCalls
        BY <2>1, <4>0
      <4>2. 1 .. agentMsg \subseteq 1 .. MaxCalls
        BY <4>1
      <4> QED
        BY <2>8, <4>1, <4>2
    <3>3. TypeOK'
      BY <1>2, <2>4, <2>8, <3>1, <3>2
      DEF TypeOK, PersistMessage, genVars, readVars, PC, TurnState, Calm
    <3>4. Announced'
      BY <2>4, <2>8, <3>1, AnnouncedGoesOn DEF PersistMessage, At, Ended
    <3>5. Shape'
      BY <2>4, <2>8, <3>2 DEF Shape, Ended, PersistMessage
    <3>6. Response'
      BY <2>8 DEF PersistMessage, At, genVars, Response, StreamDrained
    <3> QED
      BY <3>3, <3>4, <3>5, <3>6
  <2> QED
    BY <1>2, <2>7, <2>8
<1> QED
  BY <1>1, <1>2 DEF PersistMessage

\* PersistResults preserves the inductive invariant.
LEMMA PersistResultsInv == TurnInv /\ PersistResults => TurnInv'
<1> SUFFICES ASSUME TurnInv, PersistResults PROVE TurnInv'
  OBVIOUS
<1> USE DEF TurnInv
<1>1. ASSUME NEW r \in StoreResult, r # "ok", Fail(<<>>, iter, r), UNCHANGED msgs
      PROVE  TurnInv'
  <2>1. Closing(todo', FinalKind', msgs') /\ todo' \in Seq(Task)
    <3>1. r \in Info
      BY <1>1 DEF StoreResult, Cause, Info
    <3> QED
      BY <1>1, <3>1, FailQueue, CalmEmpty
  <2>2. TypeOK'
    BY <1>1, <2>1 DEF TypeOK, PersistResults, Fail, genVars, readVars, PC, TurnState
  <2>3. Announced'
    BY <1>1, <2>1, AnnouncedReturns DEF PersistResults, Fail, At, Ended, LogKept
  <2>4. Shape'
    BY <1>1, ShapeFails DEF PersistResults, Fail, At, Ended
  <2>5. Response'
    BY <1>1 DEF PersistResults, Fail, At, genVars, Response, StreamDrained
  <2> QED
    BY <2>2, <2>3, <2>4, <2>5
<1> DEFINE m == Msg("tool", iter, agentMsg, 0)
<1>2. CASE /\ msgs' = Append(msgs, m) /\ pc' = "top" /\ state' = "history_ready"
           /\ todo' = Status(iter) \o Transition(state, "history_ready", iter)
  <2>1. m \in Message /\ m.by = "tool" /\ m.calls = agentMsg /\ iter \in Nat
    BY Numbers DEF Msg, Message
  <2>2. Last(msgs).calls = agentMsg
    BY DEF Shape, PersistResults, At, Msg
  <2>3. /\ LogKept /\ msgs' \in Seq(Message) /\ Last(msgs') = m /\ Len(msgs') > 0
        /\ \A k \in DOMAIN msgs' : k < Len(msgs') => Answered(k)'
    BY <1>2, <2>1, <2>2, LogGrows, AnsweredGrows
  <2>4. Calm(todo', msgs')
    BY <1>2, <2>1, CalmStatus, CalmTransition, CalmConcat DEF TurnState
  <2>5. TypeOK'
    BY <1>2, <2>3, <2>4 DEF TypeOK, PersistResults, genVars, readVars, PC, TurnState, Calm
  <2>6. Announced'
    BY <1>2, <2>3, <2>4, AnnouncedGoesOn DEF PersistResults, At, Ended
  <2>7. Shape'
    BY <1>2, <2>1, <2>3 DEF Shape, ModelSpeaksNext, Ended
  <2>8. Response'
    BY <1>2 DEF PersistResults, At, genVars, Response, StreamDrained
  <2> QED
    BY <2>5, <2>6, <2>7, <2>8
<1> QED
  BY <1>1, <1>2 DEF PersistResults

\* Abort preserves the inductive invariant.
LEMMA AbortInv == TurnInv /\ Abort => TurnInv'
<1> SUFFICES ASSUME TurnInv, Abort PROVE TurnInv'
  OBVIOUS
<1> USE DEF TurnInv
<1> DEFINE m == Msg("partial", iter, 0, partial)
<1>0. iter \in Nat /\ m \in Message /\ m.by = "partial"
  BY Numbers DEF Msg, Message
<1>1. ModelSpeaksNext
  BY DEF Shape, Ended, Abort, At
<1>2. msgs' = Append(msgs, m) \/ msgs' = msgs
  BY DEF Abort
<1>3. LogKept /\ msgs' \in Seq(Message)
  <2>1. CASE msgs' = Append(msgs, m)
    BY <1>0, <2>1, LogGrows
  <2>2. CASE msgs' = msgs
    BY <2>2 DEF LogKept, TypeOK
  <2> QED
    BY <1>2, <2>1, <2>2
<1>4. Closing(todo', FinalKind', msgs')
  <2>1. Calm(Transition(state, "turn_aborted", iter), msgs')
    BY <1>0, CalmTransition DEF TurnState
  <2>2. Closing(Emit(Ev("turn_aborted", iter, 0, "")), "turn_aborted", msgs')
    <3>1. "turn_aborted" \in EventKind /\ "" \in Info
      BY DEF EventKind, Terminal, Info, TurnState
    <3> QED
      BY <1>0, <3>1, EvType, ClosingEvent
  <2>3. FinalKind' = "turn_aborted"
    BY DEF Abort, FinalKind
  <2> QED
    BY <2>1, <2>2, <2>3, ClosingConcat DEF Abort
<1>5. TypeOK'
  BY <1>3, <1>4 DEF TypeOK, Abort, genVars, readVars, PC, TurnState, Closing
<1>6. Announced'
  BY <1>3, <1>4, AnnouncedReturns DEF Abort, At, Ended
<1>7. Shape'
  <2>1. CASE msgs' = Append(msgs, m)
    <3>1. /\ Last(msgs') = m /\ Len(msgs') > 0
          /\ \A k \in DOMAIN msgs' : k < Len(msgs') => Answered(k)'
      BY <1>0, <1>1, <2>1, AnsweredGrows
    <3> QED
      BY <1>0, <3>1 DEF Shape, Ended, Abort
  <2>2. CASE msgs' = msgs
    BY <1>1, <2>2 DEF Shape, ModelSpeaksNext, Answered, Ended, Abort
  <2> QED
    BY <1>2, <2>1, <2>2
<1>8. Response'
  BY DEF Abort, At, genVars, Response, StreamDrained
<1> QED
  BY <1>5, <1>6, <1>7, <1>8

-----------------------------------------------------------------------------
(* The remaining steps: the tools, the end, the client and the reader. *)

\* ToolReturns preserves the inductive invariant.
LEMMA ToolReturnsInv == ASSUME NEW k PROVE TurnInv /\ ToolReturns(k) => TurnInv'
<1> SUFFICES ASSUME TurnInv, ToolReturns(k) PROVE TurnInv'
  OBVIOUS
<1>1. TypeOK'
  BY DEF TurnInv, TypeOK, ToolReturns, emitVars, genVars, readVars
<1>2. Announced'
  BY DEF TurnInv, Announced, ToolReturns, emitVars, Ended, Quiet, EndsWith, FinalKind
<1>3. Shape'
  BY DEF TurnInv, Shape, ToolReturns, ModelSpeaksNext, Calls, Answered, Ended
<1>4. Response'
  BY DEF TurnInv, ToolReturns, genVars, Response, StreamDrained
<1> QED
  BY <1>1, <1>2, <1>3, <1>4 DEF TurnInv

\* AllToolsReturned preserves the inductive invariant.
LEMMA AllToolsReturnedInv == TurnInv /\ AllToolsReturned => TurnInv'
<1> SUFFICES ASSUME TurnInv, AllToolsReturned PROVE TurnInv'
  OBVIOUS
<1>1. Calm(todo', msgs')
  BY Numbers, CalmCalls DEF TurnInv, AllToolsReturned
<1>2. TypeOK'
  BY <1>1 DEF TurnInv, TypeOK, AllToolsReturned, genVars, readVars, PC, Calm
<1>3. Announced'
  BY <1>1, AnnouncedGoesOn DEF TurnInv, AllToolsReturned, At, Ended, LogKept
<1>4. Shape'
  BY DEF TurnInv, Shape, AllToolsReturned, At, ModelSpeaksNext, Answered, Ended
<1>5. Response'
  BY DEF TurnInv, AllToolsReturned, At, genVars, Response, StreamDrained
<1> QED
  BY <1>2, <1>3, <1>4, <1>5 DEF TurnInv

\* CloseChannel preserves the inductive invariant.
LEMMA CloseChannelInv == TurnInv /\ CloseChannel => TurnInv'
<1> SUFFICES ASSUME TurnInv, CloseChannel PROVE TurnInv'
  OBVIOUS
<1>1. TypeOK'
  BY DEF TurnInv, TypeOK, CloseChannel, emitVars, genVars, readVars, PC
<1>2. Announced'
  <2>1. ~Closing(<<>>, FinalKind, msgs)
    BY ClosingTail
  <2>2. EndsWith(sent, FinalKind)
    BY <2>1 DEF TurnInv, Announced, CloseChannel, At
  <2> QED
    BY <2>2 DEF TurnInv, Announced, CloseChannel, At, emitVars, Ended, EndsWith, FinalKind
<1>3. Shape'
  BY DEF TurnInv, Shape, CloseChannel, At, ModelSpeaksNext, Calls, Answered, Ended
<1>4. Response'
  BY DEF TurnInv, CloseChannel, At, genVars, Response, StreamDrained
<1> QED
  BY <1>1, <1>2, <1>3, <1>4 DEF TurnInv

\* ClientStep preserves the inductive invariant.
LEMMA ClientStepInv == TurnInv /\ ClientStep => TurnInv'
<1> SUFFICES ASSUME TurnInv, ClientStep PROVE TurnInv'
  OBVIOUS
<1>1. Announced' /\ Shape'
  BY EnvironmentKeeps
  DEF TurnInv, ClientStep, GenerateChunk, GenerateMessage, GenerateError, GenerateNothing,
      PutStream, Offer, emitVars
<1> SUFFICES TypeOK' /\ Response'
  BY <1>1 DEF TurnInv
<1>2. ASSUME NEW item \in StreamItem, Offer(item), chunks' \in Nat, gen = "running"
      PROVE  TypeOK' /\ Response'
  <2>1. TypeOK'
    BY <1>2 DEF TurnInv, TypeOK, Offer, turnVars, emitVars, readVars
  <2>2. Response'
    BY <1>2 DEF TurnInv, Offer, turnVars, Response, StreamDrained
  <2> QED
    BY <2>1, <2>2
<1>3. ASSUME NEW kind \in {"text", "thought"}, GenerateChunk(kind) PROVE TypeOK' /\ Response'
  <2>1. Item(kind, 0, kind) \in StreamItem
    BY LimitAssumption DEF Item, StreamItem, Info
  <2>2. chunks' \in Nat
    BY <1>3, Numbers DEF GenerateChunk, TurnInv
  <2> QED
    BY <1>2, <1>3, <2>1, <2>2 DEF GenerateChunk
<1>4. ASSUME NEW n \in 0 .. MaxCalls, GenerateMessage(n) PROVE TypeOK' /\ Response'
  <2>1. Item("error", 0, "fatal") \in StreamItem /\ Item("done", n, "") \in StreamItem
    BY LimitAssumption DEF Item, StreamItem, Info, Cause, TurnState
  <2>2. chunks' \in Nat
    BY <1>4, Numbers DEF GenerateMessage, TurnInv
  <2> QED
    BY <1>2, <1>4, <2>1, <2>2 DEF GenerateMessage
<1>5. CASE GenerateError
  <2>1. ASSUME NEW f \in Cause PROVE Item("error", 0, f) \in StreamItem
    BY LimitAssumption DEF Item, StreamItem, Info
  <2>2. chunks' \in Nat
    BY <1>5, Numbers DEF GenerateError, TurnInv
  <2>3. "cancelled" \in Cause /\ ModelFaults \subseteq Cause
    BY EnvAssumption DEF Cause
  <2> QED
    BY <1>2, <1>5, <2>1, <2>2, <2>3 DEF GenerateError
<1>6. CASE GenerateNothing
  <2>1. TypeOK'
    BY <1>6 DEF GenerateNothing, TurnInv, TypeOK, turnVars, emitVars, readVars
  <2>2. Response'
    BY <1>6 DEF GenerateNothing, TurnInv, turnVars, Response, StreamDrained
  <2> QED
    BY <2>1, <2>2
<1>7. CASE PutStream
  <2>1. /\ stream \in Seq(StreamItem) /\ out \in StreamItem /\ stream' = Append(stream, out)
        /\ Len(stream) \in Nat
    BY <1>7 DEF PutStream, TurnInv, TypeOK
  <2>2. /\ stream' \in Seq(StreamItem) /\ Len(stream') = Len(stream) + 1
        /\ stream'[Len(stream) + 1] = out
        /\ \A k \in 1 .. Len(stream) : stream'[k] = stream[k]
    BY <2>1
  <2>3. TypeOK'
    BY <1>7, <2>2 DEF PutStream, TurnInv, TypeOK, turnVars, emitVars, readVars
  <2>4. \A k \in 1 .. Len(stream) : IsChunk(stream'[k])
    BY <1>7, <2>1, <2>2 DEF PutStream, TurnInv, Response
  <2>5. gen' \in {"running", "sending"} => IsChunk(out)
    BY <1>7, <2>1 DEF PutStream, StreamItem, IsChunk
  <2>6. \A k \in DOMAIN stream' : k < Len(stream') => IsChunk(stream'[k])
    BY <2>1, <2>2, <2>4
  <2>7. gen' \in {"running", "sending"} => \A k \in DOMAIN stream' : IsChunk(stream'[k])
    BY <2>1, <2>2, <2>4, <2>5
  <2>8. Response'
    BY <1>7, <2>6, <2>7 DEF PutStream, TurnInv, turnVars, Response, StreamDrained
  <2> QED
    BY <2>3, <2>8
<1> QED
  BY <1>3, <1>4, <1>5, <1>6, <1>7 DEF ClientStep

\* ReaderStep preserves the inductive invariant.
LEMMA ReaderStepInv == TurnInv /\ ReaderStep => TurnInv'
<1> SUFFICES ASSUME TurnInv, ReaderStep PROVE TurnInv'
  OBVIOUS
<1>1. Announced' /\ Shape'
  BY EnvironmentKeeps
  DEF TurnInv, ReaderStep, ReadEvent, WriteFails, ReadClosed, Disconnect, ReplyGivesUp,
      ParentCancels, emitVars
<1>2. UNCHANGED <<turnVars, genVars>>
  BY DEF ReaderStep, ReadEvent, WriteFails, ReadClosed, Disconnect, ReplyGivesUp, ParentCancels
<1>3. Response'
  BY <1>2 DEF TurnInv, turnVars, genVars, Response, StreamDrained
<1>4. ch \in Seq(Event) /\ (ch # <<>> => Tail(ch) \in Seq(Event))
  BY DEF TurnInv, TypeOK
<1>5. CASE ReadEvent
  <2>1. ch' \in Seq(Event) /\ heard' \in Terminal \cup {"none"}
    BY <1>4, <1>5 DEF ReadEvent, TurnInv, TypeOK
  <2>2. reading' \in BOOLEAN /\ cancelled' \in BOOLEAN
    BY <1>5 DEF ReadEvent, Leaves, TurnInv, TypeOK
  <2>3. TypeOK'
    BY <1>5, <2>1, <2>2 DEF ReadEvent, TurnInv, TypeOK, turnVars, genVars
  <2> QED
    BY <1>1, <1>3, <2>3 DEF TurnInv
<1>6. CASE WriteFails
  <2>1. TypeOK'
    BY <1>4, <1>6 DEF WriteFails, TurnInv, TypeOK, turnVars, genVars
  <2> QED
    BY <1>1, <1>3, <2>1 DEF TurnInv
<1>7. CASE ReadClosed \/ Disconnect \/ ReplyGivesUp \/ ParentCancels
  <2>1. TypeOK'
    BY <1>7
    DEF ReadClosed, Disconnect, ReplyGivesUp, ParentCancels, TurnInv, TypeOK,
        turnVars, emitVars, genVars, readVars
  <2> QED
    BY <1>1, <1>3, <2>1 DEF TurnInv
<1> QED
  BY <1>5, <1>6, <1>7 DEF ReaderStep

-----------------------------------------------------------------------------
(* The invariant holds of every behaviour, and what follows from it. *)

\* The invariant holds when HandleUserMessage has stored the prompt.
LEMMA InitInv == Init => TurnInv
<1> SUFFICES ASSUME Init PROVE TurnInv
  OBVIOUS
<1>1. Msg("user", 0, 0, 0) \in Message /\ Msg("user", 0, 0, 0).by = "user"
  BY DEF Msg, Message
<1>2. msgs \in Seq(Message) /\ Len(msgs) = 1 /\ Last(msgs) = Msg("user", 0, 0, 0)
  <2>1. \A m \in Message : <<m>> \in Seq(Message) /\ Len(<<m>>) = 1 /\ <<m>>[1] = m
    OBVIOUS
  <2>2. msgs = <<Msg("user", 0, 0, 0)>>
    BY DEF Init
  <2> QED
    BY <1>1, <2>1, <2>2 DEF Last
<1>3. Item("error", 0, "") \in StreamItem
  BY LimitAssumption DEF Item, StreamItem, Info, TurnState
<1>4. NoMsg \in 0 .. NoMsg
  BY LimitAssumption DEF NoMsg
<1>5. TypeOK
  <2>1. /\ pc \in PC /\ state \in TurnState
        /\ iter \in Nat /\ attempt \in Nat /\ ticks \in Nat /\ partial \in Nat /\ chunks \in Nat
    BY DEF Init, PC, TurnState
  <2>2. agentMsg \in 0 .. NoMsg /\ open \subseteq 1 .. MaxCalls
    BY <1>4 DEF Init
  <2>3. todo = <<>> /\ ch = <<>> /\ sent = <<>> /\ uilog = <<>> /\ stream = <<>>
    BY DEF Init
  <2>4. /\ todo \in Seq(Task) /\ ch \in Seq(Event) /\ sent \in Seq(Event)
        /\ uilog \in Seq(Event) /\ stream \in Seq(StreamItem)
    BY <2>3
  <2>5. /\ gen \in {"idle", "running", "sending", "closed"} /\ out \in StreamItem
        /\ reader \in {"reply", "child"} /\ heard \in Terminal \cup {"none"}
    BY <1>3, EnvAssumption DEF Init
  <2>6. /\ msgId \in BOOLEAN /\ pending \in BOOLEAN /\ detached \in BOOLEAN
        /\ reading \in BOOLEAN /\ lost \in BOOLEAN /\ cancelled \in BOOLEAN
    BY DEF Init
  <2> QED
    BY <1>2, <2>1, <2>2, <2>4, <2>5, <2>6 DEF TypeOK
<1>6. pc = "start" /\ todo = <<>> /\ sent = <<>> /\ stream = <<>> /\ gen = "idle"
  BY DEF Init
<1>7. ~\E k \in DOMAIN <<>> : TRUE
  OBVIOUS
<1>8. Announced
  BY <1>6, <1>7, CalmEmpty DEF Announced, Ended, Quiet
<1>9. Shape
  BY <1>1, <1>2, <1>6 DEF Shape, ModelSpeaksNext, Ended
<1>10. Response
  BY <1>6, <1>7 DEF Response, StreamDrained
<1> QED
  BY <1>5, <1>8, <1>9, <1>10 DEF TurnInv

\* A stuttering step preserves the inductive invariant.
LEMMA StutterInv == TurnInv /\ UNCHANGED vars => TurnInv'
<1> SUFFICES ASSUME TurnInv, UNCHANGED vars PROVE TurnInv'
  OBVIOUS
<1>1. TypeOK'
  BY DEF TurnInv, TypeOK, vars, turnVars, emitVars, genVars, readVars
<1>2. Announced' /\ Shape'
  BY EnvironmentKeeps DEF TurnInv, vars, emitVars
<1>3. Response'
  BY DEF TurnInv, Response, StreamDrained, vars, turnVars, genVars
<1> QED
  BY <1>1, <1>2, <1>3 DEF TurnInv

\* Every step preserves the inductive invariant: one lemma per action above.
LEMMA NextInv == TurnInv /\ [Next]_vars => TurnInv'
<1>1. TurnInv /\ TurnStep => TurnInv'
  BY SendEventInv, RecordUIEventInv, StartTurnInv, NextIterationInv, BuildHistoryInv,
     StartAttemptInv, CallModelInv, ReceiveDeltaInv, ReceiveMessageInv, ReceiveErrorInv,
     StreamEndsInv, NoResponseInv, RetryTickInv, PersistMessageInv, AllToolsReturnedInv,
     PersistResultsInv, AbortInv, CloseChannelInv DEF TurnStep
<1>2. TurnInv /\ (\E k \in 1 .. MaxCalls : ToolReturns(k)) => TurnInv'
  BY ToolReturnsInv
<1> QED
  BY <1>1, <1>2, ClientStepInv, ReaderStepInv, StutterInv DEF Next

\* Every state of a turn satisfies the inductive invariant, for any capacity, any limits
\* and any behaviour of the model, the store, the tools and the reader.
THEOREM Invariance == Spec => []TurnInv
<1>1. Init => TurnInv
  BY InitInv
<1>2. TurnInv /\ [Next]_vars => TurnInv'
  BY NextInv
<1> QED
  BY <1>1, <1>2, PTL DEF Spec

\* Every variable of the turn keeps its type; in particular the retry countdown of
\* runLoop never passes zero and no call index exceeds the calls of a response.
THEOREM TypeCorrect == Spec => []TypeOK
<1>1. TurnInv => TypeOK
  BY DEF TurnInv
<1> QED
  BY <1>1, Invariance, PTL

\* A turn announces its end once, as its last event, and always before it closes its
\* channel, whatever exit of runLoop it takes.
THEOREM EndIsAnnounced == Spec => []TerminalIsLast
<1>1. TurnInv => TerminalIsLast
  <2> SUFFICES ASSUME TurnInv PROVE TerminalIsLast
    OBVIOUS
  <2>0. sent \in Seq(Event) /\ Len(sent) \in Nat /\ FinalKind \in Terminal
    BY DEF TurnInv, TypeOK, FinalKind, Terminal
  <2>1. Quiet(sent) \/ EndsWith(sent, FinalKind)
    BY DEF TurnInv, Announced, Ended
  <2>2. \A k \in DOMAIN sent : sent[k].kind \in Terminal => k = Len(sent)
    <3>1. CASE Quiet(sent)
      BY <3>1 DEF Quiet
    <3>2. CASE EndsWith(sent, FinalKind)
      <4> SUFFICES ASSUME NEW k \in 1 .. Len(sent), k # Len(sent)
                   PROVE  sent[k].kind \notin Terminal
        BY <2>0
      <4>1. k \in 1 .. Len(sent) - 1
        BY <2>0
      <4> QED
        BY <3>2, <4>1 DEF EndsWith
    <3> QED
      BY <2>1, <3>1, <3>2
  <2>3. pc = "closed" => \E kind \in Terminal : Sent(kind)
    <3> SUFFICES ASSUME pc = "closed" PROVE Sent(FinalKind)
      BY <2>0
    <3>1. Len(sent) > 0 /\ sent[Len(sent)].kind = FinalKind
      BY DEF TurnInv, Announced, EndsWith
    <3>2. Len(sent) \in DOMAIN sent
      BY <2>0, <3>1
    <3> QED
      BY <3>1, <3>2 DEF Sent
  <2> QED
    BY <2>2, <2>3 DEF TerminalIsLast
<1> QED
  BY <1>1, Invariance, PTL

\* A message is announced as done only when it is in the store.
THEOREM DoneMessagesAreStored == Spec => []DoneIsStored
<1>1. TurnInv => DoneIsStored
  BY DEF TurnInv, Announced, Backed, DoneIsStored
<1> QED
  BY <1>1, Invariance, PTL

\* The model is never called on a conversation with an unanswered function call.
THEOREM CallsAreAnswered == Spec => []CallsAnswered
<1>1. TurnInv => CallsAnswered
  <2> SUFFICES ASSUME TurnInv, pc \in {"call", "stream"}, NEW m \in DOMAIN msgs
               PROVE  Answered(m)
    BY DEF CallsAnswered
  <2>1. msgs \in Seq(Message) /\ Len(msgs) \in Nat /\ m \in 1 .. Len(msgs)
    BY DEF TurnInv, TypeOK
  <2>2. CASE m < Len(msgs)
    BY <2>2 DEF TurnInv, Shape
  <2>3. CASE m = Len(msgs)
    <3>1. Last(msgs).by \in {"user", "tool"} /\ Last(msgs) = msgs[m]
      BY <2>3 DEF TurnInv, Shape, Ended, ModelSpeaksNext, Last
    <3> QED
      BY <3>1 DEF Answered
  <2> QED
    BY <2>1, <2>2, <2>3
<1> QED
  BY <1>1, Invariance, PTL

\* Outside the loop that reads it, the model stream is empty and its goroutine gone.
THEOREM StreamIsDrained == Spec => []StreamDrained
<1>1. TurnInv => StreamDrained
  BY DEF TurnInv, Response
<1> QED
  BY <1>1, Invariance, PTL

\* A cancelled turn adds nothing to the conversation but the partial text of Abort.
THEOREM CancelStopsStores == Spec => OnlyPartialAfterCancel
<1>1. TurnInv /\ [Next]_vars => [cancelled /\ msgs' # msgs => Last(msgs').by = "partial"]_vars
  <2> SUFFICES ASSUME TurnInv, Next, cancelled, msgs' # msgs
               PROVE  Last(msgs').by = "partial"
    BY DEF vars
  <2>1. PersistMessage \/ PersistResults \/ Abort
    BY DEF Next, TurnStep, SendEvent, RecordUIEvent, StartTurn, NextIteration, BuildHistory,
           StartAttempt, CallModel, ReceiveDelta, ReceiveMessage, ReceiveError, StreamEnds,
           NoResponse, RetryTick, AllToolsReturned, CloseChannel, ToolReturns,
           ClientStep, GenerateChunk, GenerateMessage, GenerateError, GenerateNothing,
           PutStream, Offer,
           ReaderStep, ReadEvent, WriteFails, ReadClosed, Disconnect, ReplyGivesUp,
           ParentCancels
  <2>2. "ok" \notin StoreResult
    BY DEF StoreResult
  <2>3. Abort
    BY <2>1, <2>2 DEF PersistMessage, PersistResults
  <2>4. msgs' = Append(msgs, Msg("partial", iter, 0, partial))
    BY <2>3 DEF Abort
  <2>5. msgs \in Seq(Message) /\ Msg("partial", iter, 0, partial) \in Message
    BY Numbers DEF TurnInv, TypeOK, Msg, Message
  <2>6. Last(msgs') = Msg("partial", iter, 0, partial)
    BY <2>4, <2>5 DEF Last
  <2> QED
    BY <2>6 DEF Msg
<1> QED
  BY <1>1, Invariance, PTL DEF Spec, OnlyPartialAfterCancel

-----------------------------------------------------------------------------
(* Turn implements TurnContract. *)

\* While no terminal event has been sent, the reader sees a running turn.
LEMMA QuietOutcome == Quiet(sent) => TurnOutcome = "running"
BY DEF Quiet, TurnOutcome, Sent, Terminal

\* A send that is not the end of the turn leaves the outcome as it was; the send of the
\* end, after quiet sends, is the outcome.
LEMMA SentOutcome ==
    ASSUME NEW e \in Event, sent \in Seq(Event), sent' = Append(sent, e)
    PROVE  /\ e.kind \notin Terminal => TurnOutcome' = TurnOutcome
           /\ Quiet(sent) /\ e.kind = "turn_complete" => TurnOutcome' = "completed"
           /\ Quiet(sent) /\ e.kind = "turn_aborted" => TurnOutcome' = "aborted"
           /\ Quiet(sent) /\ e.kind = "error" => TurnOutcome' = "failed"
<1>1. ASSUME NEW kind PROVE Sent(kind)' <=> Sent(kind) \/ e.kind = kind
  <2>1. /\ Len(sent) \in Nat /\ sent' \in Seq(Event) /\ Len(sent') = Len(sent) + 1
        /\ sent'[Len(sent) + 1] = e
        /\ \A k \in 1 .. Len(sent) : sent'[k] = sent[k]
    OBVIOUS
  <2>2. Sent(kind) \/ e.kind = kind => Sent(kind)'
    BY <2>1 DEF Sent
  <2>3. ASSUME NEW k \in 1 .. Len(sent'), sent'[k].kind = kind
        PROVE  Sent(kind) \/ e.kind = kind
    <3>1. k \in 1 .. Len(sent) \/ k = Len(sent) + 1
      BY <2>1
    <3> QED
      BY <2>1, <2>3, <3>1 DEF Sent
  <2>4. Sent(kind)' => \E k \in 1 .. Len(sent') : sent'[k].kind = kind
    BY <2>1 DEF Sent
  <2> QED
    BY <2>2, <2>3, <2>4
<1>2. Quiet(sent) => \A kind \in Terminal : ~Sent(kind)
  BY DEF Quiet, Sent
<1> QED
  BY <1>1, <1>2 DEF TurnOutcome, Terminal

\* A message that runLoop stores is one the contract allows there.
LEMMA LogStep ==
    ASSUME TurnInv, ~Ended, UNCHANGED sent, NEW m \in Message, msgs' = Append(msgs, m),
           \/ ModelSpeaksNext /\ m.by \in {"agent", "partial"}
           \/ Calls /\ m.by = "tool" /\ m.calls = Last(msgs).calls /\ m.iter = Last(msgs).iter
    PROVE  Contract!Next
<1>1. TurnOutcome = "running" /\ TurnOutcome' = TurnOutcome
  BY QuietOutcome DEF TurnInv, Announced, TurnOutcome, Sent
<1>2. Len(msgs') = Len(msgs) + 1 /\ Last(msgs') = m
  BY LogGrows DEF TurnInv, Last
<1>3. msgs' = Append(msgs, Last(msgs'))
  BY <1>2
<1>4. CASE ModelSpeaksNext /\ m.by = "agent"
  <2>1. Contract!Answer
    BY <1>1, <1>2, <1>3, <1>4
    DEF Contract!Answer, Contract!Settled, Contract!Grows, Contract!Last, Last, ModelSpeaksNext
  <2> QED
    BY <2>1 DEF Contract!Next
<1>5. CASE ModelSpeaksNext /\ m.by = "partial"
  <2>1. Contract!KeepPartial
    BY <1>1, <1>2, <1>3, <1>5
    DEF Contract!KeepPartial, Contract!Settled, Contract!Grows, Contract!Last, Last,
        ModelSpeaksNext
  <2> QED
    BY <2>1 DEF Contract!Next
<1>6. CASE Calls /\ m.by = "tool" /\ m.calls = Last(msgs).calls /\ m.iter = Last(msgs).iter
  <2>1. Contract!Results
    BY <1>1, <1>2, <1>3, <1>6
    DEF Contract!Results, Contract!AsksTools, Contract!Grows, Contract!Last, Last, Calls
  <2> QED
    BY <2>1 DEF Contract!Next
<1> QED
  BY <1>4, <1>5, <1>6

\* The event that tells the outcome is sent when the conversation allows that outcome.
LEMMA EndStep ==
    ASSUME TurnInv, SendEvent
    PROVE  [Contract!Next]_Contract!contractVars
<1> DEFINE e == Head(todo).ev
<1>0. todo \in Seq(Task) /\ todo # <<>> /\ sent \in Seq(Event)
  BY DEF TurnInv, TypeOK, SendEvent
<1>1. e \in Event /\ sent' = Append(sent, e) /\ UNCHANGED msgs /\ Head(todo).op = "send"
  BY <1>0, HeadTask DEF SendEvent
<1>2. CASE e.kind \notin Terminal
  BY <1>0, <1>1, <1>2, SentOutcome DEF Contract!contractVars
<1>3. CASE e.kind \in Terminal
  <2>1. pc = "returned" /\ Quiet(sent) /\ e.kind = FinalKind
    <3>1. ~CalmTask(Head(todo), msgs)
      BY <1>1, <1>3 DEF CalmTask
    <3>2. Ended
      BY <1>0, <3>1, CalmTail DEF TurnInv, Announced
    <3>3. pc # "closed"
      BY <1>0 DEF TurnInv, Announced
    <3>4. ~OnlyRecords(todo)
      BY <1>0, <1>1, RecordsTail
    <3> QED
      BY <3>1, <3>2, <3>3, <3>4, ClosingTail DEF TurnInv, Announced, Ended
  <2>2. TurnOutcome = "running"
    BY <2>1, QuietOutcome
  <2>3. /\ state \in {"turn_completed", "turn_aborted", "turn_failed"}
        /\ state = "turn_completed" => Last(msgs).by = "agent" /\ Last(msgs).calls = 0
        /\ state = "turn_aborted" => ModelSpeaksNext \/ Last(msgs).by = "partial"
        /\ state = "turn_failed" => ModelSpeaksNext \/ Calls
    BY <2>1 DEF TurnInv, Shape, Ended
  <2>4. CASE state = "turn_completed"
    <3>1. TurnOutcome' = "completed"
      BY <1>0, <1>1, <2>1, <2>4, SentOutcome DEF FinalKind
    <3>2. Contract!Complete
      BY <1>1, <2>2, <2>3, <2>4, <3>1
      DEF Contract!Complete, Contract!IsFinal, Contract!Ends, Contract!Last, Last
    <3> QED
      BY <3>2 DEF Contract!Next
  <2>5. CASE state = "turn_aborted"
    <3>1. TurnOutcome' = "aborted"
      BY <1>0, <1>1, <2>1, <2>5, SentOutcome DEF FinalKind
    <3>2. Contract!AbortTurn
      BY <1>1, <2>2, <2>3, <2>5, <3>1
      DEF Contract!AbortTurn, Contract!Settled, Contract!Ends, Contract!Last, Last,
          ModelSpeaksNext
    <3> QED
      BY <3>2 DEF Contract!Next
  <2>6. CASE state = "turn_failed"
    <3>1. TurnOutcome' = "failed"
      BY <1>0, <1>1, <2>1, <2>6, SentOutcome DEF FinalKind
    <3>2. Contract!FailTurn
      BY <1>1, <2>2, <2>3, <2>6, <3>1
      DEF Contract!FailTurn, Contract!Settled, Contract!AsksTools, Contract!Ends,
          Contract!Last, Last, ModelSpeaksNext, Calls
    <3> QED
      BY <3>2 DEF Contract!Next
  <2> QED
    BY <2>3, <2>4, <2>5, <2>6
<1> QED
  BY <1>2, <1>3

\* Every behaviour of a turn is a behaviour of its contract: what runLoop stores, and the
\* outcome it announces, never leave the protocol of TurnContract.
THEOREM TurnImplementsContract == Spec => KeepsContract
<1>1. Init => Contract!Init
  <2> SUFFICES ASSUME Init PROVE Contract!Init
    OBVIOUS
  <2>1. TurnInv
    BY InitInv
  <2>2. ModelSpeaksNext /\ Quiet(sent)
    BY <2>1 DEF Init, TurnInv, Shape, Announced, Ended
  <2>3. Len(msgs) = 1
    BY DEF Init
  <2>4. TurnOutcome = "running"
    BY <2>2, QuietOutcome
  <2> QED
    BY <2>2, <2>3, <2>4
    DEF Contract!Init, Contract!Settled, Contract!Last, Last, ModelSpeaksNext
<1>2. TurnInv /\ [Next]_vars => [Contract!Next]_Contract!contractVars
  <2> SUFFICES ASSUME TurnInv, [Next]_vars PROVE [Contract!Next]_Contract!contractVars
    OBVIOUS
  <2>1. iter \in Nat /\ agentMsg \in Nat /\ partial \in Nat
    BY Numbers DEF TurnInv
  <2>2. CASE SendEvent
    BY <2>2, EndStep
  <2>3. CASE PersistMessage /\ msgs' # msgs
    <3> DEFINE m == Msg("agent", iter, agentMsg, 0)
    <3>1. msgs' = Append(msgs, m) /\ UNCHANGED sent /\ ModelSpeaksNext /\ ~Ended
      BY <2>3 DEF PersistMessage, At, TurnInv, Shape, Ended
    <3>2. m \in Message /\ m.by = "agent"
      BY <2>1 DEF Msg, Message
    <3> QED
      BY <3>1, <3>2, LogStep
  <2>4. CASE PersistResults /\ msgs' # msgs
    <3> DEFINE m == Msg("tool", iter, agentMsg, 0)
    <3>1. msgs' = Append(msgs, m) /\ UNCHANGED sent /\ ~Ended
      BY <2>4 DEF PersistResults, At, Ended
    <3>2. m \in Message /\ m.by = "tool" /\ m.calls = agentMsg /\ m.iter = iter
      BY <2>1 DEF Msg, Message
    <3>3. Calls /\ Last(msgs).calls = agentMsg /\ Last(msgs).iter = iter
      BY <2>4 DEF PersistResults, At, TurnInv, Shape, Calls, Msg
    <3> QED
      BY <3>1, <3>2, <3>3, LogStep
  <2>5. CASE Abort /\ msgs' # msgs
    <3> DEFINE m == Msg("partial", iter, 0, partial)
    <3>1. msgs' = Append(msgs, m) /\ UNCHANGED sent /\ ModelSpeaksNext /\ ~Ended
      BY <2>5 DEF Abort, At, TurnInv, Shape, Ended
    <3>2. m \in Message /\ m.by = "partial"
      BY <2>1 DEF Msg, Message
    <3> QED
      BY <3>1, <3>2, LogStep
  <2>6. CASE UNCHANGED <<msgs, sent>>
    BY <2>6 DEF Contract!contractVars, TurnOutcome, Sent
  <2>7. CASE PersistMessage \/ PersistResults \/ Abort
    <3>1. UNCHANGED sent
      BY <2>7 DEF PersistMessage, PersistResults, Abort
    <3> QED
      BY <2>3, <2>4, <2>5, <2>6, <2>7, <3>1
  <2>8. CASE /\ [Next]_vars
             /\ ~SendEvent /\ ~PersistMessage /\ ~PersistResults /\ ~Abort
    <3>1. UNCHANGED <<msgs, sent>>
      BY <2>8
      DEF Next, TurnStep, RecordUIEvent, StartTurn, NextIteration, BuildHistory,
          StartAttempt, CallModel, ReceiveDelta, ReceiveMessage, ReceiveError, StreamEnds,
          NoResponse, RetryTick, AllToolsReturned, CloseChannel, ToolReturns,
          ClientStep, GenerateChunk, GenerateMessage, GenerateError, GenerateNothing,
          PutStream, Offer, ReaderStep, ReadEvent, WriteFails, ReadClosed, Disconnect,
          ReplyGivesUp, ParentCancels, vars, emitVars
    <3> QED
      BY <2>6, <3>1
  <2> QED
    BY <2>2, <2>7, <2>8
<1> QED
  BY <1>1, <1>2, Invariance, PTL DEF Spec, KeepsContract, Contract!Spec

-----------------------------------------------------------------------------
(* One more event. *)

LEMMA OneMore ==
    ASSUME NEW s \in Seq(Event), NEW u \in Event
    PROVE  /\ Append(s, u) \in Seq(Event) /\ Len(s) \in Nat /\ Len(Append(s, u)) = Len(s) + 1
           /\ DOMAIN s = 1 .. Len(s) /\ DOMAIN Append(s, u) = 1 .. Len(s) + 1
           /\ \A k \in 1 .. Len(s) : Append(s, u)[k] = s[k]
           /\ Append(s, u)[Len(s) + 1] = u
  BY AppendProperties

LEMMA EndsKept ==
    ASSUME NEW s \in Seq(Event), NEW u \in Event, NEW j \in 1 .. Len(s), NEW k \in 1 .. Len(s), EndsWait(s, j, k)
    PROVE  EndsWait(Append(s, u), j, k)
  <1>1. \A m \in j + 1 .. k - 1 : m \in 1 .. Len(s) /\ Append(s, u)[m] = s[m]  BY OneMore
  <1> QED  BY <1>1, OneMore DEF EndsWait

\* An event that is not about a wait leaves the waits as they are.
LEMMA OtherEvent ==
    ASSUME NEW s \in Seq(Event), NEW u \in Event, u.kind \notin WaitKinds
    PROVE  /\ Paired(s) => Paired(Append(s, u))
           /\ NoneWaits(s) => NoneWaits(Append(s, u))
           /\ \A i, n \in Nat : Waits(s, i, n) => Waits(Append(s, u), i, n)
  <1> DEFINE t == Append(s, u)
  <1>1. /\ Len(s) \in Nat /\ Len(t) = Len(s) + 1 /\ DOMAIN s = 1 .. Len(s) /\ DOMAIN t = 1 .. Len(s) + 1
        /\ \A k \in 1 .. Len(s) : t[k] = s[k]
        /\ t[Len(s) + 1].kind \notin WaitKinds
      BY OneMore
  <1>2. \A j, k \in 1 .. Len(s) : EndsWait(s, j, k) => EndsWait(t, j, k)  BY EndsKept
  <1> HIDE DEF t
  <1>3. \A k \in DOMAIN t : t[k].kind \in WaitKinds => k \in 1 .. Len(s) /\ t[k] = s[k]
      BY <1>1 DEF WaitKinds
  <1>4. "model_wait_started" \in WaitKinds /\ "model_wait_finished" \in WaitKinds  BY DEF WaitKinds
  <1>5. ASSUME Paired(s) PROVE Paired(t)
    <2>1. ASSUME NEW k \in DOMAIN t, t[k].kind = "model_wait_finished" PROVE \E j \in 1 .. k : EndsWait(t, j, k)
      <3>1. k \in 1 .. Len(s) /\ s[k].kind = "model_wait_finished"  BY <1>3, <1>4, <2>1
      <3>2. PICK j \in 1 .. k : EndsWait(s, j, k)  BY <1>1, <1>5, <3>1 DEF Paired
      <3>3. j \in 1 .. Len(s)  BY <1>1, <3>1
      <3> QED  BY <1>2, <3>1, <3>2, <3>3
    <2>2. ASSUME NEW j \in DOMAIN t, t[j].kind = "model_wait_started"
          PROVE  \/ \E k \in j .. Len(t) : EndsWait(t, j, k)
                 \/ \A k \in DOMAIN t : k > j => t[k].kind \notin WaitKinds
      <3>1. j \in 1 .. Len(s) /\ s[j].kind = "model_wait_started"  BY <1>3, <1>4, <2>2
      <3>2. CASE \E k \in j .. Len(s) : EndsWait(s, j, k)
        <4>1. PICK k \in j .. Len(s) : EndsWait(s, j, k)  BY <3>2
        <4>2. k \in 1 .. Len(s) /\ k \in j .. Len(t)  BY <1>1, <3>1
        <4> QED  BY <1>2, <3>1, <4>1, <4>2
      <3>3. CASE \A k \in DOMAIN s : k > j => s[k].kind \notin WaitKinds  BY <1>1, <1>3, <3>3
      <3> QED  BY <1>1, <1>5, <3>1, <3>2, <3>3 DEF Paired
    <2> QED  BY <2>1, <2>2 DEF Paired
  <1>6. ASSUME NoneWaits(s) PROVE NoneWaits(t)
    <2> SUFFICES ASSUME NEW j \in DOMAIN t, t[j].kind = "model_wait_started"
                 PROVE  \E k \in j .. Len(t) : EndsWait(t, j, k)
        BY DEF NoneWaits
    <2>1. j \in 1 .. Len(s) /\ s[j].kind = "model_wait_started"  BY <1>3, <1>4
    <2>2. PICK k \in j .. Len(s) : EndsWait(s, j, k)  BY <1>1, <1>6, <2>1 DEF NoneWaits
    <2>3. k \in 1 .. Len(s) /\ k \in j .. Len(t)  BY <1>1, <2>1
    <2> QED  BY <1>2, <2>1, <2>2, <2>3
  <1>7. ASSUME NEW i \in Nat, NEW n \in Nat, Waits(s, i, n) PROVE Waits(t, i, n)
    <2>1. PICK j \in DOMAIN s : /\ s[j].kind = "model_wait_started" /\ s[j].iter = i /\ s[j].n = n
                                /\ \A k \in DOMAIN s : k > j => s[k].kind \notin WaitKinds
        BY <1>7 DEF Waits
    <2>2. j \in DOMAIN t /\ t[j] = s[j] /\ \A k \in DOMAIN t : k > j => t[k].kind \notin WaitKinds
        BY <1>1, <1>3, <2>1
    <2> QED  BY <2>1, <2>2 DEF Waits
  <1> QED  BY <1>5, <1>6, <1>7 DEF t

\* A wait begins when none is under way.
LEMMA WaitBegins ==
    ASSUME NEW s \in Seq(Event), NEW u \in Event, u.kind = "model_wait_started", Paired(s), NoneWaits(s)
    PROVE  Paired(Append(s, u)) /\ Waits(Append(s, u), u.iter, u.n)
  <1> DEFINE t == Append(s, u)
  <1>1. /\ Len(s) \in Nat /\ Len(t) = Len(s) + 1 /\ DOMAIN s = 1 .. Len(s) /\ DOMAIN t = 1 .. Len(s) + 1
        /\ \A k \in 1 .. Len(s) : t[k] = s[k]
        /\ t[Len(s) + 1] = u
      BY OneMore
  <1>2. \A j, k \in 1 .. Len(s) : EndsWait(s, j, k) => EndsWait(t, j, k)  BY EndsKept
  <1> HIDE DEF t
  <1>3. ASSUME NEW k \in DOMAIN t, t[k].kind = "model_wait_finished" PROVE \E j \in 1 .. k : EndsWait(t, j, k)
    <2>1. k \in 1 .. Len(s) /\ s[k].kind = "model_wait_finished"  BY <1>1, <1>3
    <2>2. PICK j \in 1 .. k : EndsWait(s, j, k)  BY <1>1, <2>1 DEF Paired
    <2>3. j \in 1 .. Len(s)  BY <1>1, <2>1
    <2> QED  BY <1>2, <2>1, <2>2, <2>3
  <1>4. ASSUME NEW j \in DOMAIN t, t[j].kind = "model_wait_started"
        PROVE  \/ \E k \in j .. Len(t) : EndsWait(t, j, k)
               \/ \A k \in DOMAIN t : k > j => t[k].kind \notin WaitKinds
    <2>1. CASE j \in 1 .. Len(s)
      <3>1. PICK k \in j .. Len(s) : EndsWait(s, j, k)  BY <1>1, <1>4, <2>1 DEF NoneWaits
      <3>2. k \in 1 .. Len(s) /\ k \in j .. Len(t)  BY <1>1, <2>1
      <3> QED  BY <1>2, <2>1, <3>1, <3>2
    <2>2. CASE j = Len(s) + 1  BY <1>1, <2>2
    <2> QED  BY <1>1, <2>1, <2>2
  <1>5. Waits(t, u.iter, u.n)
    <2>1. Len(s) + 1 \in DOMAIN t /\ \A k \in DOMAIN t : ~(k > Len(s) + 1)  BY <1>1
    <2> QED  BY <1>1, <2>1 DEF Waits
  <1> QED  BY <1>3, <1>4, <1>5 DEF Paired, t

\* The wait that is under way ends.
LEMMA WaitEnds ==
    ASSUME NEW s \in Seq(Event), NEW u \in Event, u.kind = "model_wait_finished", Paired(s), Waits(s, u.iter, u.n)
    PROVE  Paired(Append(s, u)) /\ NoneWaits(Append(s, u))
  <1> DEFINE t == Append(s, u)
  <1>1. /\ Len(s) \in Nat /\ Len(t) = Len(s) + 1 /\ DOMAIN s = 1 .. Len(s) /\ DOMAIN t = 1 .. Len(s) + 1
        /\ \A k \in 1 .. Len(s) : t[k] = s[k]
        /\ t[Len(s) + 1] = u
      BY OneMore
  <1>2. \A j, k \in 1 .. Len(s) : EndsWait(s, j, k) => EndsWait(t, j, k)  BY EndsKept
  <1> HIDE DEF t
  <1>3. PICK b \in 1 .. Len(s) : /\ s[b].kind = "model_wait_started" /\ s[b].iter = u.iter /\ s[b].n = u.n
                                 /\ \A k \in 1 .. Len(s) : k > b => s[k].kind \notin WaitKinds
      BY <1>1 DEF Waits
  <1>4. EndsWait(t, b, Len(s) + 1)
    <2>1. \A m \in b + 1 .. (Len(s) + 1) - 1 : m \in 1 .. Len(s) /\ m > b  BY <1>1
    <2>2. \A m \in b + 1 .. (Len(s) + 1) - 1 : t[m].kind \notin WaitKinds  BY <1>1, <1>3, <2>1
    <2>3. b < Len(s) + 1 /\ t[b] = s[b]  BY <1>1
    <2> QED  BY <1>1, <1>3, <2>2, <2>3 DEF EndsWait
  <1>5. ASSUME NEW k \in DOMAIN t, t[k].kind = "model_wait_finished" PROVE \E j \in 1 .. k : EndsWait(t, j, k)
    <2>1. CASE k \in 1 .. Len(s)
      <3>1. PICK j \in 1 .. k : EndsWait(s, j, k)  BY <1>1, <1>5, <2>1 DEF Paired
      <3>2. j \in 1 .. Len(s)  BY <1>1, <2>1
      <3> QED  BY <1>2, <2>1, <3>1, <3>2
    <2>2. CASE k = Len(s) + 1
      <3>1. b \in 1 .. k  BY <1>1, <2>2
      <3> QED  BY <1>4, <2>2, <3>1
    <2> QED  BY <1>1, <2>1, <2>2
  <1>6. ASSUME NEW j \in DOMAIN t, t[j].kind = "model_wait_started" PROVE \E k \in j .. Len(t) : EndsWait(t, j, k)
    <2>1. j \in 1 .. Len(s) /\ s[j].kind = "model_wait_started"  BY <1>1, <1>6
    <2>2. CASE j = b
      <3>1. Len(s) + 1 \in j .. Len(t)  BY <1>1, <2>1
      <3> QED  BY <1>4, <2>2, <3>1
    <2>3. CASE \E k \in j .. Len(s) : EndsWait(s, j, k)
      <3>1. PICK k \in j .. Len(s) : EndsWait(s, j, k)  BY <2>3
      <3>2. k \in 1 .. Len(s) /\ k \in j .. Len(t)  BY <1>1, <2>1
      <3> QED  BY <1>2, <2>1, <3>1, <3>2
    <2>4. CASE j # b /\ \A k \in DOMAIN s : k > j => s[k].kind \notin WaitKinds
      <3>1. s[b].kind \in WaitKinds /\ s[j].kind \in WaitKinds  BY <1>3, <2>1 DEF WaitKinds
      <3>2. ~(b > j) /\ ~(j > b)  BY <1>1, <1>3, <2>1, <2>4, <3>1
      <3> QED  BY <2>1, <2>4, <3>2
    <2> QED  BY <1>1, <2>1, <2>2, <2>3, <2>4 DEF Paired
  <1> QED  BY <1>5, <1>6 DEF Paired, NoneWaits, t

\* What an event adds to the starts of an iteration and to the text in progress
LEMMA StartsGrow ==
    ASSUME NEW s \in Seq(Event), NEW u \in Event, NEW i
    PROVE  /\ Cardinality(StartsIn(s, i)) \in Nat
           /\ Cardinality(StartsIn(Append(s, u), i)) =
                IF u.kind = "model_wait_started" /\ u.iter = i THEN Cardinality(StartsIn(s, i)) + 1
                                                               ELSE Cardinality(StartsIn(s, i))
  <1> DEFINE t == Append(s, u)
  <1>1. /\ Len(s) \in Nat /\ DOMAIN s = 1 .. Len(s) /\ DOMAIN t = 1 .. Len(s) + 1
        /\ \A k \in 1 .. Len(s) : t[k] = s[k]
        /\ t[Len(s) + 1] = u
      BY OneMore
  <1> HIDE DEF t
  <1>2. IsFiniteSet(StartsIn(s, i)) /\ Cardinality(StartsIn(s, i)) \in Nat /\ Len(s) + 1 \notin StartsIn(s, i)
    <2>1. IsFiniteSet(1 .. Len(s))  BY <1>1, FS_Interval
    <2>2. StartsIn(s, i) \subseteq 1 .. Len(s)  BY <1>1 DEF StartsIn
    <2>3. Len(s) + 1 \notin 1 .. Len(s)  BY <1>1
    <2> QED  BY <2>1, <2>2, <2>3, FS_Subset, FS_CardinalityType
  <1>3. CASE u.kind = "model_wait_started" /\ u.iter = i
    <2>1. StartsIn(t, i) = StartsIn(s, i) \cup {Len(s) + 1}  BY <1>1, <1>3 DEF StartsIn
    <2> QED  BY <1>2, <1>3, <2>1, FS_AddElement DEF t
  <1>4. CASE ~(u.kind = "model_wait_started" /\ u.iter = i)
    <2>1. StartsIn(t, i) = StartsIn(s, i)  BY <1>1, <1>4 DEF StartsIn
    <2> QED  BY <1>2, <1>4, <2>1 DEF t
  <1> QED  BY <1>3, <1>4

LEMMA TextsGrow ==
    ASSUME NEW s \in Seq(Event), NEW u \in Event
    PROVE  /\ Cardinality(TextsIn(s)) \in Nat
           /\ u.kind \in Opens => Cardinality(TextsIn(Append(s, u))) = 0
           /\ u.kind = "delta" /\ u.info = "text" =>
                Cardinality(TextsIn(Append(s, u))) = Cardinality(TextsIn(s)) + 1
           /\ u.kind \notin Opens /\ ~(u.kind = "delta" /\ u.info = "text") =>
                Cardinality(TextsIn(Append(s, u))) = Cardinality(TextsIn(s))
  <1> DEFINE t == Append(s, u)
  <1>1. /\ Len(s) \in Nat /\ Len(t) = Len(s) + 1 /\ DOMAIN s = 1 .. Len(s) /\ DOMAIN t = 1 .. Len(s) + 1
        /\ \A k \in 1 .. Len(s) : t[k] = s[k]
        /\ t[Len(s) + 1] = u
      BY OneMore
  <1> HIDE DEF t
  <1>2. IsFiniteSet(TextsIn(s)) /\ Cardinality(TextsIn(s)) \in Nat /\ Len(s) + 1 \notin TextsIn(s)
    <2>1. IsFiniteSet(1 .. Len(s))  BY <1>1, FS_Interval
    <2>2. TextsIn(s) \subseteq 1 .. Len(s)  BY <1>1 DEF TextsIn
    <2>3. Len(s) + 1 \notin 1 .. Len(s)  BY <1>1
    <2> QED  BY <2>1, <2>2, <2>3, FS_Subset, FS_CardinalityType
  <1>3. ASSUME u.kind \in Opens PROVE Cardinality(TextsIn(t)) = 0
    <2>1. ASSUME NEW k \in TextsIn(t) PROVE FALSE
      <3>1. k \in 1 .. Len(s) + 1 /\ \A j \in k .. Len(s) + 1 : t[j].kind \notin Opens  BY <1>1, <2>1 DEF TextsIn
      <3>2. Len(s) + 1 \in k .. Len(s) + 1  BY <1>1, <3>1
      <3> QED  BY <1>1, <1>3, <3>1, <3>2
    <2>2. TextsIn(t) = {}  BY <2>1
    <2> QED  BY <2>2, FS_EmptySet
  <1>4. ASSUME u.kind \notin Opens, NEW k \in 1 .. Len(s)
        PROVE  (\A j \in k .. Len(s) : s[j].kind \notin Opens) <=> (\A j \in k .. Len(t) : t[j].kind \notin Opens)
    <2>1. \A j \in k .. Len(t) : j \in k .. Len(s) \/ j = Len(s) + 1  BY <1>1
    <2>2. \A j \in k .. Len(s) : j \in k .. Len(t) /\ t[j] = s[j]  BY <1>1
    <2> QED  BY <1>1, <1>4, <2>1, <2>2
  <1>5. ASSUME u.kind = "delta", u.info = "text" PROVE Cardinality(TextsIn(t)) = Cardinality(TextsIn(s)) + 1
    <2>1. u.kind \notin Opens  BY <1>5 DEF Opens
    <2>2. Len(s) + 1 \in TextsIn(t)
      <3>1. \A j \in Len(s) + 1 .. Len(t) : j = Len(s) + 1  BY <1>1
      <3> QED  BY <1>1, <1>5, <2>1, <3>1 DEF TextsIn
    <2>3. TextsIn(t) = TextsIn(s) \cup {Len(s) + 1}
      <3>1. \A k \in 1 .. Len(s) : k \in TextsIn(t) <=> k \in TextsIn(s)  BY <1>1, <1>4, <2>1 DEF TextsIn
      <3>2. TextsIn(s) \subseteq 1 .. Len(s) /\ TextsIn(t) \subseteq 1 .. Len(s) + 1  BY <1>1 DEF TextsIn
      <3>3. 1 .. Len(s) + 1 = 1 .. Len(s) \cup {Len(s) + 1}  BY <1>1
      <3> QED  BY <2>2, <3>1, <3>2, <3>3
    <2> QED  BY <1>2, <2>3, FS_AddElement
  <1>6. ASSUME u.kind \notin Opens, ~(u.kind = "delta" /\ u.info = "text")
        PROVE  Cardinality(TextsIn(t)) = Cardinality(TextsIn(s))
    <2>1. \A k \in 1 .. Len(s) : k \in TextsIn(t) <=> k \in TextsIn(s)  BY <1>1, <1>4, <1>6 DEF TextsIn
    <2>2. TextsIn(s) \subseteq 1 .. Len(s) /\ TextsIn(t) \subseteq 1 .. Len(s) + 1 /\ Len(s) + 1 \notin TextsIn(t)
        BY <1>1, <1>6 DEF TextsIn
    <2>3. 1 .. Len(s) + 1 = 1 .. Len(s) \cup {Len(s) + 1}  BY <1>1
    <2>4. TextsIn(t) = TextsIn(s)  BY <2>1, <2>2, <2>3
    <2> QED  BY <2>4
  <1> QED  BY <1>2, <1>3, <1>5, <1>6 DEF t

-----------------------------------------------------------------------------
(* The queues. *)

\* The send of e is the only one that matters.
BringsAt(s, k, e) ==
    /\ s[k].op = "send" /\ s[k].ev = e
    /\ \A j \in DOMAIN s : j # k => PlainTask(s[j])
Brings(s, e) == s \in Seq(Task) /\ Matters(e) /\ \E k \in DOMAIN s : BringsAt(s, k, e)

LEMMA Concat ==
    ASSUME NEW s \in Seq(Task), NEW t \in Seq(Task)
    PROVE  /\ s \o t \in Seq(Task) /\ Len(s) \in Nat /\ Len(t) \in Nat
           /\ DOMAIN s = 1 .. Len(s) /\ DOMAIN t = 1 .. Len(t) /\ DOMAIN (s \o t) = 1 .. Len(s) + Len(t)
           /\ \A k \in 1 .. Len(s) : (s \o t)[k] = s[k]
           /\ \A k \in 1 .. Len(t) : (s \o t)[Len(s) + k] = t[k]
           /\ \A k \in 1 .. Len(s) + Len(t) :
                k \in 1 .. Len(s) \/ (k - Len(s) \in 1 .. Len(t) /\ (s \o t)[k] = t[k - Len(s)])
  <1>1. /\ s \o t \in Seq(Task) /\ Len(s \o t) = Len(s) + Len(t) /\ Len(s) \in Nat /\ Len(t) \in Nat
        /\ \A k \in 1 .. Len(s) + Len(t) : (s \o t)[k] = IF k <= Len(s) THEN s[k] ELSE t[k - Len(s)]
      BY ConcatProperties
  <1>2. DOMAIN s = 1 .. Len(s) /\ DOMAIN t = 1 .. Len(t) /\ DOMAIN (s \o t) = 1 .. Len(s) + Len(t)
      BY <1>1
  <1>3. \A k \in 1 .. Len(s) : k \in 1 .. Len(s) + Len(t) /\ k <= Len(s)  BY <1>1
  <1>4. \A k \in 1 .. Len(t) : Len(s) + k \in 1 .. Len(s) + Len(t) /\ ~(Len(s) + k <= Len(s)) /\ (Len(s) + k) - Len(s) = k
      BY <1>1
  <1>5. \A k \in 1 .. Len(s) + Len(t) : k \in 1 .. Len(s) \/ (k - Len(s) \in 1 .. Len(t) /\ ~(k <= Len(s)))
      BY <1>1
  <1> QED  BY <1>1, <1>2, <1>3, <1>4, <1>5

LEMMA PlainConcat == ASSUME NEW s, NEW t, Plain(s), Plain(t) PROVE Plain(s \o t)
  <1>1. s \in Seq(Task) /\ t \in Seq(Task)  BY DEF Plain
  <1>2. ASSUME NEW k \in DOMAIN (s \o t) PROVE PlainTask((s \o t)[k])
    <2>1. k \in 1 .. Len(s) \/ (k - Len(s) \in 1 .. Len(t) /\ (s \o t)[k] = t[k - Len(s)])  BY <1>1, Concat
    <2> QED  BY <1>1, <2>1, Concat DEF Plain
  <1> QED  BY <1>1, <1>2, Concat DEF Plain

LEMMA BringsFirst == ASSUME NEW s, NEW t, NEW e, Brings(s, e), Plain(t) PROVE Brings(s \o t, e)
  <1>1. s \in Seq(Task) /\ t \in Seq(Task)  BY DEF Plain, Brings
  <1>2. PICK k \in DOMAIN s : BringsAt(s, k, e)  BY DEF Brings
  <1>3. k \in DOMAIN (s \o t) /\ (s \o t)[k] = s[k]
    <2>1. k \in 1 .. Len(s) + Len(t)  BY <1>1, <1>2, Concat
    <2> QED  BY <1>1, <1>2, <2>1, Concat
  <1>4. ASSUME NEW j \in DOMAIN (s \o t), j # k PROVE PlainTask((s \o t)[j])
    <2>1. j \in 1 .. Len(s) \/ (j - Len(s) \in 1 .. Len(t) /\ (s \o t)[j] = t[j - Len(s)])  BY <1>1, Concat
    <2> QED  BY <1>1, <1>2, <1>4, <2>1, Concat DEF Plain, BringsAt
  <1>5. BringsAt(s \o t, k, e)  BY <1>2, <1>3, <1>4 DEF BringsAt
  <1> QED  BY <1>1, <1>3, <1>5, Concat DEF Brings

LEMMA BringsLast == ASSUME NEW s, NEW t, NEW e, Plain(s), Brings(t, e) PROVE Brings(s \o t, e)
  <1>1. s \in Seq(Task) /\ t \in Seq(Task)  BY DEF Plain, Brings
  <1>2. PICK k \in DOMAIN t : BringsAt(t, k, e)  BY DEF Brings
  <1> DEFINE q == Len(s) + k
  <1>3. q \in DOMAIN (s \o t) /\ (s \o t)[q] = t[k]
    <2>1. k \in 1 .. Len(t) /\ q \in 1 .. Len(s) + Len(t)  BY <1>1, <1>2, Concat
    <2> QED  BY <1>1, <1>2, <2>1, Concat
  <1>4. ASSUME NEW j \in DOMAIN (s \o t), j # q PROVE PlainTask((s \o t)[j])
    <2>1. CASE j \in 1 .. Len(s)  BY <1>1, <2>1, Concat DEF Plain
    <2>2. CASE j - Len(s) \in 1 .. Len(t) /\ (s \o t)[j] = t[j - Len(s)]
      <3>1. j - Len(s) # k
        <4>1. j \in Int /\ Len(s) \in Int /\ k \in Int  BY <1>1, <1>2, Concat
        <4> QED  BY <1>4, <4>1
      <3> QED  BY <1>1, <1>2, <2>2, <3>1, Concat DEF BringsAt
    <2> QED  BY <1>1, <2>1, <2>2, Concat
  <1>5. BringsAt(s \o t, q, e)  BY <1>2, <1>3, <1>4 DEF BringsAt
  <1> QED  BY <1>1, <1>3, <1>5, Concat DEF Brings

LEMMA PlainEmpty == Plain(<<>>)
  <1>1. <<>> \in Seq(Task) /\ DOMAIN <<>> = {}  BY EmptySeq
  <1> QED  BY <1>1 DEF Plain

LEMMA PlainEvent ==
    ASSUME NEW e \in Event
    PROVE  /\ Plain(Record(e))
           /\ ~Matters(e) => Plain(Send(e)) /\ Plain(Emit(e))
           /\ Matters(e) => Brings(Send(e), e) /\ Brings(Emit(e), e)
  <1>1. DOMAIN Record(e) = {1} /\ DOMAIN Send(e) = {1} /\ DOMAIN Emit(e) = {1, 2}
      BY RecordType, SendType, EmitType
  <1>2. Plain(Record(e))  BY <1>1, RecordType DEF Plain, PlainTask
  <1>3. ~Matters(e) => Plain(Send(e)) /\ Plain(Emit(e))  BY <1>1, SendType, EmitType DEF Plain, PlainTask
  <1>4. BringsAt(Send(e), 1, e) /\ BringsAt(Emit(e), 1, e)  BY <1>1, SendType, EmitType DEF BringsAt, PlainTask
  <1> QED  BY <1>1, <1>2, <1>3, <1>4, SendType, EmitType DEF Brings

LEMMA PlainKind ==
    ASSUME NEW kind \in EventKind, kind \notin WaitKinds \cup {"message_done", "delta"},
           NEW i \in Nat, NEW n \in Nat, NEW info \in Info
    PROVE  Plain(Send(Ev(kind, i, n, info))) /\ Plain(Emit(Ev(kind, i, n, info)))
  <1> DEFINE e == Ev(kind, i, n, info)
  <1>1. e \in Event /\ e.kind = kind  BY EvType
  <1>2. ~Matters(e)  BY <1>1 DEF Matters
  <1> HIDE DEF e
  <1>3. Plain(Send(e)) /\ Plain(Emit(e))  BY <1>1, <1>2, PlainEvent
  <1> QED  BY <1>3 DEF e

\* The emit helpers that tell nothing that matters here
LEMMA PlainHelpers ==
    ASSUME NEW i \in Nat, NEW n \in Nat, NEW from, NEW to \in TurnState
    PROVE  /\ Plain(Status(i)) /\ Plain(Transition(from, to, i)) /\ Plain(Retry(i, n))
           /\ Plain(CallStarts(i, n)) /\ Plain(CallResults(i, n))
  <1>1. /\ "status" \in EventKind /\ "state_transition" \in EventKind /\ "retry" \in EventKind
        /\ "tool_call_start" \in EventKind /\ "tool_result" \in EventKind
        /\ "" \in Info /\ to \in Info
        /\ "status" \notin WaitKinds /\ "state_transition" \notin WaitKinds /\ "retry" \notin WaitKinds
        /\ "tool_call_start" \notin WaitKinds /\ "tool_result" \notin WaitKinds
      BY DEF EventKind, Info, TurnState, WaitKinds
  <1>2. Plain(Status(i))  BY <1>1, PlainKind DEF Status
  <1>3. Plain(Transition(from, to, i))  BY <1>1, PlainKind, PlainEmpty DEF Transition
  <1>4. Plain(Retry(i, n))  BY <1>1, PlainKind DEF Retry
  <1>5. ASSUME NEW k \in 1 .. 4 * n PROVE PlainTask(CallStarts(i, n)[k]) /\ PlainTask(CallResults(i, n)[k])
    <2> DEFINE call == (k + 3) \div 4
    <2>1. call \in Nat  OBVIOUS
    <2>2. /\ Ev("status", i, 0, "").kind = "status"
          /\ Ev("tool_call_start", i, call, "").kind = "tool_call_start"
          /\ Ev("tool_result", i, call, "").kind = "tool_result"
        BY DEF Ev
    <2>3. ~Matters(Ev("status", i, 0, "")) /\ ~Matters(Ev("tool_call_start", i, call, ""))
          /\ ~Matters(Ev("tool_result", i, call, ""))
        BY <2>2 DEF Matters, WaitKinds
    <2> QED  BY <2>3 DEF CallStarts, CallResults, PlainTask
  <1>6. /\ CallStarts(i, n) \in Seq(Task) /\ DOMAIN CallStarts(i, n) = 1 .. 4 * n
        /\ CallResults(i, n) \in Seq(Task) /\ DOMAIN CallResults(i, n) = 1 .. 4 * n
    <2>1. Calm(CallStarts(i, n), <<>>) /\ Calm(CallResults(i, n), <<>>)  BY CalmCalls
    <2> QED  BY <2>1 DEF Calm, CallStarts, CallResults
  <1> QED  BY <1>2, <1>3, <1>4, <1>5, <1>6 DEF Plain

\* The beginning and the end of a wait
LEMMA WaitTasks ==
    ASSUME NEW i \in Nat, NEW n \in Nat, NEW outcome \in Outcome
    PROVE  /\ \E e \in Event : /\ e.kind = "model_wait_started" /\ e.iter = i /\ e.n = n
                               /\ Brings(WaitStarted(i, n), e)
           /\ \E e \in Event : /\ e.kind = "model_wait_finished" /\ e.iter = i /\ e.n = n
                               /\ Brings(WaitFinished(i, n, outcome), e)
  <1> DEFINE b == Ev("model_wait_started", i, n, "")
             f == Ev("model_wait_finished", i, n, outcome)
  <1>1. /\ {"model_wait_started", "model_wait_finished"} \subseteq EventKind /\ "" \in Info /\ outcome \in Info
      BY DEF EventKind, Info, TurnState
  <1>2. /\ b \in Event /\ b.kind = "model_wait_started" /\ b.iter = i /\ b.n = n
        /\ f \in Event /\ f.kind = "model_wait_finished" /\ f.iter = i /\ f.n = n
      BY <1>1, EvType DEF Ev
  <1>3. Matters(b) /\ Matters(f)  BY <1>2 DEF Matters, WaitKinds
  <1>4. Brings(Emit(b), b) /\ Brings(Emit(f), f)
    <2> HIDE DEF b, f
    <2> QED  BY <1>2, <1>3, PlainEvent
  <1> QED  BY <1>2, <1>4 DEF WaitStarted, WaitFinished

\* A queue after its head has been performed
LEMMA QueueTail ==
    ASSUME NEW s \in Seq(Task), s # <<>>
    PROVE  /\ Plain(s) => PlainTask(Head(s)) /\ Plain(Tail(s))
           /\ \A e \in Event : Brings(s, e) =>
                \/ Head(s).op = "send" /\ Head(s).ev = e /\ Plain(Tail(s))
                \/ PlainTask(Head(s)) /\ Brings(Tail(s), e)
  <1>1. /\ Len(s) \in Nat /\ Len(s) > 0 /\ Head(s) = s[1] /\ DOMAIN s = 1 .. Len(s)
        /\ Tail(s) \in Seq(Task) /\ Len(Tail(s)) = Len(s) - 1 /\ DOMAIN Tail(s) = 1 .. Len(s) - 1
        /\ \A k \in 1 .. Len(s) - 1 : Tail(s)[k] = s[k + 1]
      BY HeadTailProperties, EmptySeq
  <1>2. \A k \in 1 .. Len(s) - 1 : k + 1 \in 1 .. Len(s)  BY <1>1
  <1>3. Plain(s) => PlainTask(Head(s)) /\ Plain(Tail(s))  BY <1>1, <1>2 DEF Plain
  <1>4. ASSUME NEW e \in Event, Brings(s, e)
        PROVE  \/ Head(s).op = "send" /\ Head(s).ev = e /\ Plain(Tail(s))
               \/ PlainTask(Head(s)) /\ Brings(Tail(s), e)
    <2>1. PICK k \in 1 .. Len(s) : BringsAt(s, k, e)  BY <1>1, <1>4 DEF Brings
    <2>2. CASE k = 1
      <3>1. \A j \in 1 .. Len(s) - 1 : j + 1 # 1  BY <1>1
      <3> QED  BY <1>1, <1>2, <2>1, <2>2, <3>1 DEF BringsAt, Plain
    <2>3. CASE k # 1
      <3>1. k - 1 \in 1 .. Len(s) - 1 /\ Tail(s)[k - 1] = s[k]  BY <1>1, <2>3
      <3>2. \A j \in 1 .. Len(s) - 1 : j # k - 1 => j + 1 # k  BY <1>1
      <3>3. BringsAt(Tail(s), k - 1, e)  BY <1>1, <1>2, <2>1, <3>1, <3>2 DEF BringsAt
      <3>4. PlainTask(Head(s))
        <4>1. 1 \in DOMAIN s /\ 1 # k  BY <1>1, <2>3
        <4> QED  BY <1>1, <2>1, <4>1 DEF BringsAt
      <3> QED  BY <1>1, <1>4, <3>1, <3>3, <3>4 DEF Brings
    <2> QED  BY <2>2, <2>3
  <1> QED  BY <1>3, <1>4

-----------------------------------------------------------------------------
(* What a step leaves to show. *)

\* Either nothing queued matters, or one send.
LEMMA Queued == ASSUME TypeOK, Told PROVE Plain(todo) \/ \E e \in Event : Brings(todo, e)
  <1>1. todo \in Seq(Task)  BY DEF TypeOK
  <1>2. SUFFICES ASSUME ~Plain(todo) PROVE \E e \in Event : Brings(todo, e)  OBVIOUS
  <1>3. PICK k \in DOMAIN todo : ~PlainTask(todo[k])  BY <1>1, <1>2 DEF Plain
  <1>4. todo[k].op = "send" /\ Matters(todo[k].ev)  BY <1>3 DEF PlainTask
  <1>5. BringsAt(todo, k, todo[k].ev)  BY <1>3, <1>4 DEF BringsAt, Told
  <1>6. todo[k].ev \in Event
    <2>1. todo[k] \in Task  BY <1>1
    <2> QED  BY <2>1 DEF Task
  <1> QED  BY <1>1, <1>4, <1>5, <1>6 DEF Brings

LEMMA BroughtIsTold == ASSUME Told, NEW e \in Event, Brings(todo, e) PROVE ToldBefore(e)
  <1>1. PICK k \in DOMAIN todo : BringsAt(todo, k, e)  BY DEF Brings
  <1>2. ~PlainTask(todo[k]) /\ todo[k].ev = e  BY <1>1 DEF Brings, BringsAt, PlainTask
  <1> QED  BY <1>2 DEF Told

LEMMA ToldPlainly == ASSUME Plain(todo'), Paired(sent'), AllTold' PROVE Told'
  BY DEF Told, Plain

LEMMA ToldWith == ASSUME NEW e \in Event, Brings(todo', e), Paired(sent'), ToldBefore(e)' PROVE Told'
  <1>1. PICK k \in DOMAIN todo' : BringsAt(todo', k, e)  BY DEF Brings
  <1>2. ~PlainTask(todo'[k]) /\ todo'[k].ev = e  BY <1>1 DEF Brings, BringsAt, PlainTask
  <1>3. ~Plain(todo')  BY <1>2 DEF Plain
  <1>4. \A j \in DOMAIN todo' : j # k => PlainTask(todo'[j])  BY <1>1 DEF BringsAt
  <1>5. \A j \in DOMAIN todo' : ~PlainTask(todo'[j]) => j = k  BY <1>4
  <1> QED  BY <1>2, <1>3, <1>4, <1>5 DEF Told

\* A step of the goroutine starts when everything is told.
LEMMA AtStep == ASSUME Told, todo = <<>> PROVE AllTold /\ Paired(sent)
  BY PlainEmpty DEF Told

LEMMA CalmNoError ==
    ASSUME NEW log, NEW s, Calm(s, log)
    PROVE  \A k \in DOMAIN s : s[k].op = "send" => s[k].ev.kind # "error"
  BY DEF Calm, CalmTask, Terminal

\* The one error that a failing exit queues
LEMMA FailErrors ==
    ASSUME NEW pre, NEW log, Calm(pre, log), NEW i \in Nat, NEW cause \in Info, Fail(pre, i, cause)
    PROVE  \A k \in DOMAIN todo' : todo'[k].op = "send" /\ todo'[k].ev.kind = "error" =>
              todo'[k].ev.iter = i /\ todo'[k].ev.info = cause
  <1> DEFINE move == Transition(state, "turn_failed", i)
             e == Ev("error", i, 0, cause)
  <1>1. "turn_failed" \in TurnState /\ "error" \in EventKind  BY DEF TurnState, EventKind, Terminal
  <1>2. Calm(move, log)  BY <1>1, CalmTransition
  <1>3. e \in Event /\ e.iter = i /\ e.info = cause  BY <1>1, EvType DEF Ev
  <1>4. Calm(pre \o move, log)  BY <1>2, CalmConcat
  <1>5. todo' = (pre \o move) \o Emit(e)  BY DEF Fail
  <1> DEFINE calm == pre \o move
  <1> HIDE DEF move, e, calm
  <1>6. calm \in Seq(Task) /\ Emit(e) \in Seq(Task) /\ \A k \in 1 .. Len(Emit(e)) : Emit(e)[k].ev = e
    <2>1. Len(Emit(e)) = 2 /\ \A k \in 1 .. 2 : k = 1 \/ k = 2  BY <1>3, EmitType
    <2> QED  BY <1>3, <1>4, <2>1, EmitType DEF Calm, calm
  <1>7. SUFFICES ASSUME NEW k \in DOMAIN todo', todo'[k].op = "send", todo'[k].ev.kind = "error"
                 PROVE  todo'[k].ev = e
      BY <1>3
  <1>8. todo' = calm \o Emit(e)  BY <1>5 DEF calm
  <1>9. CASE k \in 1 .. Len(calm)
    <2>1. todo'[k] = calm[k] /\ k \in DOMAIN calm  BY <1>6, <1>8, <1>9, Concat
    <2>2. calm[k].op = "send" => calm[k].ev.kind # "error"  BY <1>4, <2>1, CalmNoError DEF calm
    <2> QED  BY <1>7, <2>1, <2>2
  <1>10. CASE k - Len(calm) \in 1 .. Len(Emit(e)) /\ todo'[k] = Emit(e)[k - Len(calm)]  BY <1>6, <1>10
  <1> QED  BY <1>6, <1>8, <1>9, <1>10, Concat

\* A failing exit queues nothing that matters, but what comes first.
LEMMA FailQueues ==
    ASSUME NEW pre, NEW i \in Nat, NEW cause \in Info, Fail(pre, i, cause)
    PROVE  /\ Plain(pre) => Plain(todo')
           /\ \A e \in Event : Brings(pre, e) => Brings(todo', e)
  <1> DEFINE move == Transition(state, "turn_failed", i)
             end == Emit(Ev("error", i, 0, cause))
  <1>1. "turn_failed" \in TurnState /\ "error" \in EventKind /\ "error" \notin WaitKinds \cup {"message_done", "delta"}
      BY DEF TurnState, EventKind, Terminal, WaitKinds
  <1>2. Plain(move) /\ Plain(end)  BY <1>1, PlainHelpers, PlainKind
  <1>3. todo' = (pre \o move) \o end  BY DEF Fail
  <1> HIDE DEF move, end
  <1> QED  BY <1>2, <1>3, PlainConcat, BringsFirst

-----------------------------------------------------------------------------
(* Sends and UI-event writes. *)

LEMMA SendTold == ASSUME TellsInv, TypeOK', SendEvent PROVE Told'
  <1> DEFINE u == Head(todo).ev
  <1>1. /\ todo \in Seq(Task) /\ todo # <<>> /\ Head(todo).op = "send" /\ u \in Event
        /\ sent \in Seq(Event) /\ sent' = Append(sent, u) /\ todo' = Tail(todo)
        /\ UNCHANGED <<pc, iter, attempt, partial>> /\ iter \in Nat /\ attempt + 1 \in Nat
    <2>1. todo \in Seq(Task) /\ sent \in Seq(Event) /\ iter \in Nat /\ attempt + 1 \in Nat
        BY Numbers DEF TellsInv, TurnInv, TypeOK
    <2> QED  BY <2>1, HeadTask DEF SendEvent, turnVars
  <1> HIDE DEF u
  <1>2. Told /\ TypeOK /\ Paired(sent)  BY DEF TellsInv, TurnInv, Told
  <1>3. ASSUME ~Matters(u)
        PROVE  /\ Paired(sent') /\ (NoneWaits(sent) => NoneWaits(sent'))
               /\ Waits(sent, iter, attempt + 1) => Waits(sent', iter, attempt + 1)
               /\ TextInProgress' = TextInProgress /\ AttemptsOf(iter)' = AttemptsOf(iter)
    <2>1. u.kind \notin WaitKinds /\ u.kind \notin Opens /\ ~(u.kind = "delta" /\ u.info = "text")
          /\ u.kind # "model_wait_started"
        BY <1>3 DEF Matters, WaitKinds, Opens
    <2>2. TextInProgress' = TextInProgress  BY <1>1, <2>1, TextsGrow DEF TextInProgress
    <2>3. AttemptsOf(iter)' = AttemptsOf(iter)  BY <1>1, <2>1, StartsGrow DEF AttemptsOf
    <2> QED  BY <1>1, <1>2, <2>1, <2>2, <2>3, OtherEvent
  <1>4. CASE Plain(todo)
    <2>1. ~Matters(u) /\ Plain(todo')  BY <1>1, <1>4, QueueTail DEF PlainTask, u
    <2>2. AllTold  BY <1>2, <1>4 DEF Told
    <2>3. AllTold'
      <3>1. IF pc' \in {"call", "stream"} THEN Waits(sent', iter', attempt' + 1) ELSE NoneWaits(sent')
          BY <1>1, <1>3, <2>1, <2>2 DEF AllTold
      <3> QED  BY <1>1, <1>3, <2>1, <2>2, <3>1 DEF AllTold
    <2> QED  BY <1>3, <2>1, <2>3, ToldPlainly
  <1>5. ASSUME NEW e \in Event, Brings(todo, e) PROVE Told'
    <2>1. ToldBefore(e) /\ Matters(e)  BY <1>2, <1>5, BroughtIsTold DEF Brings
    <2>2. CASE PlainTask(Head(todo)) /\ Brings(todo', e)
      <3>1. ~Matters(u)  BY <1>1, <2>2 DEF PlainTask, u
      <3>2. ToldBefore(e)'
        <4>1. IF e.kind = "model_wait_finished" \/ e.kind = "delta" THEN Waits(sent', iter', attempt' + 1)
                                                                    ELSE NoneWaits(sent') /\ partial' = 0
            BY <1>1, <1>3, <2>1, <3>1 DEF ToldBefore
        <4>2. TextInProgress' = TextInProgress /\ AttemptsOf(iter)' = AttemptsOf(iter)  BY <1>3, <3>1
        <4> QED  BY <1>1, <2>1, <4>1, <4>2 DEF ToldBefore
      <3> QED  BY <1>3, <2>2, <3>1, <3>2, ToldWith
    <2>3. CASE u = e /\ Plain(todo')
      <3>1. CASE u.kind = "model_wait_started"
        <4>1. /\ pc = "call" /\ u.iter = iter /\ u.n = attempt + 1 /\ NoneWaits(sent) /\ partial = 0
              /\ AttemptsOf(iter) = attempt
            BY <2>1, <2>3, <3>1 DEF ToldBefore, WaitKinds
        <4>2. Paired(sent') /\ Waits(sent', iter, attempt + 1)  BY <1>1, <1>2, <3>1, <4>1, WaitBegins
        <4>3. TextInProgress' = 0  BY <1>1, <3>1, TextsGrow DEF TextInProgress, Opens
        <4>4. AttemptsOf(iter)' = attempt + 1  BY <1>1, <3>1, <4>1, StartsGrow DEF AttemptsOf
        <4>5. AllTold'  BY <1>1, <4>1, <4>2, <4>3, <4>4 DEF AllTold
        <4> QED  BY <2>3, <4>2, <4>5, ToldPlainly
      <3>2. CASE u.kind = "model_wait_finished"
        <4>1. /\ pc \in {"retry", "abort", "noresponse", "persist", "returned"} /\ u.iter = iter /\ u.n = attempt + 1
              /\ Waits(sent, iter, attempt + 1) /\ TextInProgress = partial
            BY <2>1, <2>3, <3>2 DEF ToldBefore, WaitKinds
        <4>2. Paired(sent') /\ NoneWaits(sent')  BY <1>1, <1>2, <3>2, <4>1, WaitEnds
        <4>3. TextInProgress' = TextInProgress  BY <1>1, <3>2, TextsGrow DEF TextInProgress, Opens
        <4>4. AllTold'  BY <1>1, <4>1, <4>2, <4>3 DEF AllTold
        <4> QED  BY <2>3, <4>2, <4>4, ToldPlainly
      <3>3. CASE u.kind = "message_done"
        <4>1. pc \in {"tools", "returned"} /\ NoneWaits(sent) /\ partial = 0
            BY <2>1, <2>3, <3>3 DEF ToldBefore
        <4>2. Paired(sent') /\ NoneWaits(sent')  BY <1>1, <1>2, <3>3, <4>1, OtherEvent DEF WaitKinds
        <4>3. TextInProgress' = 0  BY <1>1, <3>3, TextsGrow DEF TextInProgress, Opens
        <4>4. AllTold'  BY <1>1, <4>1, <4>2, <4>3 DEF AllTold
        <4> QED  BY <2>3, <4>2, <4>4, ToldPlainly
      <3>4. CASE u.kind = "delta" /\ u.info = "text"
        <4>1. pc = "stream" /\ Waits(sent, iter, attempt + 1) /\ TextInProgress + 1 = partial
            BY <2>1, <2>3, <3>4 DEF ToldBefore
        <4>2. Paired(sent') /\ Waits(sent', iter, attempt + 1)  BY <1>1, <1>2, <3>4, <4>1, OtherEvent DEF WaitKinds
        <4>3. TextInProgress' = TextInProgress + 1  BY <1>1, <3>4, TextsGrow DEF TextInProgress
        <4>4. AllTold'  BY <1>1, <4>1, <4>2, <4>3 DEF AllTold
        <4> QED  BY <2>3, <4>2, <4>4, ToldPlainly
      <3> QED  BY <2>1, <2>3, <3>1, <3>2, <3>3, <3>4 DEF Matters, WaitKinds
    <2> QED  BY <1>1, <1>5, <2>2, <2>3, QueueTail DEF u
  <1> QED  BY <1>2, <1>4, <1>5, Queued

LEMMA SendAttempts == ASSUME TellsInv, TurnInv', SendEvent PROVE Attempts'
  <1> DEFINE u == Head(todo).ev
  <1>1. /\ todo \in Seq(Task) /\ todo # <<>> /\ Head(todo).op = "send" /\ u \in Event
        /\ sent \in Seq(Event) /\ sent' = Append(sent, u) /\ todo' = Tail(todo)
        /\ UNCHANGED <<pc, iter, attempt>> /\ iter \in Nat /\ attempt \in Nat
    <2>1. todo \in Seq(Task) /\ sent \in Seq(Event) /\ iter \in Nat /\ attempt \in Nat
        BY Numbers DEF TellsInv, TurnInv, TypeOK
    <2> QED  BY <2>1, HeadTask DEF SendEvent, turnVars
  <1>2. /\ Head(todo) = todo[1] /\ 1 \in DOMAIN todo
        /\ \A k \in DOMAIN todo' : k + 1 \in DOMAIN todo /\ todo'[k] = todo[k + 1]
    <2>1. /\ Len(todo) \in Nat /\ Len(todo) > 0 /\ Head(todo) = todo[1] /\ DOMAIN todo = 1 .. Len(todo)
          /\ todo' \in Seq(Task) /\ Len(todo') = Len(todo) - 1 /\ DOMAIN todo' = 1 .. Len(todo) - 1
          /\ \A k \in 1 .. Len(todo) - 1 : todo'[k] = todo[k + 1]
        BY <1>1, HeadTailProperties, EmptySeq
    <2> QED  BY <2>1
  <1> HIDE DEF u
  <1>3. Attempts /\ Told /\ TypeOK /\ Announced  BY DEF TellsInv, TurnInv
  <1>4. \A k \in DOMAIN sent' : sent'[k] = u \/ \E j \in DOMAIN sent : sent'[k] = sent[j]
    <2>1. \A k \in DOMAIN sent' : k \in DOMAIN sent \/ k = Len(sent) + 1  BY <1>1, OneMore
    <2>2. \A k \in DOMAIN sent : sent'[k] = sent[k]  BY <1>1, OneMore
    <2> QED  BY <1>1, <2>1, <2>2, OneMore
  <1>5. CASE u.kind # "model_wait_started"
    <2>1. \A i : Cardinality(StartsIn(sent', i)) = Cardinality(StartsIn(sent, i))  BY <1>1, <1>5, StartsGrow
    <2>2. \A i : AttemptsOf(i) = Cardinality(StartsIn(sent, i)) /\ AttemptsOf(i)' = Cardinality(StartsIn(sent', i'))
        BY DEF AttemptsOf
    <2>3. /\ \A k \in DOMAIN sent' : sent'[k].kind = "model_wait_started" => sent'[k].iter <= iter
          /\ \A i \in 0 .. iter : Cardinality(StartsIn(sent', i)) <= MaxRetries + 1
          /\ pc \in {"start", "history"} => Cardinality(StartsIn(sent', iter)) = 0
          /\ pc = "attempt" => Cardinality(StartsIn(sent', iter)) = attempt
          /\ pc \in {"stream", "retry"} => Cardinality(StartsIn(sent', iter)) = attempt + 1
        BY <1>3, <1>4, <1>5, <2>1 DEF Attempts, AttemptsOf
    <2>4. GivesUp(u) /\ \A k \in DOMAIN sent : GivesUp(sent[k])  BY <1>1, <1>2, <1>3 DEF Attempts, u
    <2>5. \A e : GivesUp(e) =>
            (e.kind = "error" /\ e.info = "unavailable" => Cardinality(StartsIn(sent', e.iter)) = MaxRetries + 1)
        BY <2>1 DEF GivesUp, AttemptsOf
    <2>6. \A k \in DOMAIN sent' : sent'[k].kind = "error" /\ sent'[k].info = "unavailable" =>
            Cardinality(StartsIn(sent', sent'[k].iter)) = MaxRetries + 1
        BY <1>4, <2>4, <2>5
    <2>7. \A k \in DOMAIN todo' : todo'[k].op = "send" =>
            (todo'[k].ev.kind = "error" /\ todo'[k].ev.info = "unavailable" =>
                Cardinality(StartsIn(sent', todo'[k].ev.iter)) = MaxRetries + 1)
        BY <1>2, <1>3, <2>5 DEF Attempts
    <2> QED  BY <1>1, <1>3, <2>3, <2>6, <2>7 DEF Attempts, GivesUp, AttemptsOf
  <1>6. CASE u.kind = "model_wait_started"
    <2>1. ~PlainTask(todo[1]) /\ todo[1].ev = u
        BY <1>1, <1>2, <1>6 DEF PlainTask, Matters, WaitKinds, u
    <2>2. ToldBefore(u)  BY <1>2, <1>3, <2>1 DEF Told
    <2>3. pc = "call" /\ u.iter = iter /\ AttemptsOf(iter) = attempt  BY <1>6, <2>2 DEF ToldBefore, WaitKinds
    <2>4. /\ Cardinality(StartsIn(sent', iter)) = attempt + 1
          /\ \A i : i # iter => Cardinality(StartsIn(sent', i)) = Cardinality(StartsIn(sent, i))
        BY <1>1, <1>6, <2>3, StartsGrow DEF AttemptsOf
    <2>5. /\ \A k \in DOMAIN sent' : sent'[k].kind = "model_wait_started" => sent'[k].iter <= iter
          /\ \A i \in 0 .. iter : Cardinality(StartsIn(sent', i)) <= MaxRetries + 1
      <3>1. iter <= iter /\ attempt + 1 <= MaxRetries + 1  BY <1>1, <1>3, LimitAssumption DEF Attempts
      <3> QED  BY <1>3, <1>4, <2>3, <2>4, <3>1 DEF Attempts, AttemptsOf
    <2>6. /\ \A k \in DOMAIN sent' : sent'[k].kind # "error"
          /\ \A k \in DOMAIN todo' : todo'[k].op = "send" => todo'[k].ev.kind # "error"
      <3>1. Calm(todo', msgs') /\ Quiet(sent')  BY <1>1, <2>3 DEF TurnInv, Announced, Ended
      <3> QED  BY <3>1, CalmNoError DEF Quiet, Terminal
    <2> QED  BY <1>1, <1>3, <2>3, <2>5, <2>6 DEF Attempts, GivesUp, AttemptsOf
  <1> QED  BY <1>5, <1>6

\* The queue of an abort, as it is performed
LEMMA AbortTail ==
    ASSUME iter \in Nat, NEW k \in 1 .. 5
    PROVE  /\ k # 5 => /\ AbortQueue(k) # <<>> /\ Tail(AbortQueue(k)) = AbortQueue(k + 1)
                       /\ Head(AbortQueue(k)).op = (IF k \in {1, 3} THEN "send" ELSE "record")
           /\ k = 5 => AbortQueue(k) = <<>>
           /\ k = 2 => Head(AbortQueue(k)).ev.info = "turn_aborted"
           /\ k = 4 => Head(AbortQueue(k)).ev.kind = "turn_aborted"
           /\ Plain(AbortQueue(k))
  <1> DEFINE move == Ev("state_transition", iter, 0, "turn_aborted")
             end == Ev("turn_aborted", iter, 0, "")
  <1>1. /\ "state_transition" \in EventKind /\ "turn_aborted" \in EventKind /\ "turn_aborted" \in Info /\ "" \in Info
        /\ "state_transition" \notin WaitKinds /\ "turn_aborted" \notin WaitKinds
      BY DEF EventKind, Terminal, Info, TurnState, WaitKinds
  <1>2. /\ move \in Event /\ move.info = "turn_aborted" /\ move.kind = "state_transition"
        /\ end \in Event /\ end.kind = "turn_aborted"
      BY <1>1, EvType DEF Ev
  <1>3. /\ AbortQueue(1) = Emit(move) \o Emit(end) /\ AbortQueue(2) = Record(move) \o Emit(end)
        /\ AbortQueue(3) = Emit(end) /\ AbortQueue(4) = Record(end) /\ AbortQueue(5) = <<>>
      BY DEF AbortQueue
  <1> HIDE DEF move, end
  <1>4. ASSUME NEW x \in Task, NEW s \in Seq(Task)
        PROVE  <<x>> \o s # <<>> /\ Head(<<x>> \o s) = x /\ Tail(<<x>> \o s) = s
    <2> DEFINE t == <<x>> \o s
    <2>1. <<x>> \in Seq(Task) /\ Len(<<x>>) = 1 /\ <<x>>[1] = x  OBVIOUS
    <2>2. /\ t \in Seq(Task) /\ Len(t) = 1 + Len(s) /\ Len(s) \in Nat
          /\ \A i \in 1 .. 1 + Len(s) : t[i] = IF i <= 1 THEN <<x>>[i] ELSE s[i - 1]
        BY <2>1, ConcatProperties
    <2> HIDE DEF t
    <2>3. t # <<>> /\ t[1] = x  BY <2>1, <2>2
    <2>4. Tail(t) \in Seq(Task) /\ Len(Tail(t)) = Len(s) /\ \A i \in 1 .. Len(s) : Tail(t)[i] = t[i + 1]
        BY <2>2, <2>3, HeadTailProperties
    <2>5. \A i \in 1 .. Len(s) : Tail(t)[i] = s[i]
      <3>1. \A i \in 1 .. Len(s) : i + 1 \in 1 .. 1 + Len(s) /\ ~(i + 1 <= 1) /\ (i + 1) - 1 = i  BY <2>2
      <3> QED  BY <2>2, <2>4, <3>1
    <2>6. Tail(t) = s  BY <2>4, <2>5, SeqEqual
    <2>7. Head(t) = x  BY <2>2, <2>3
    <2> QED  BY <2>3, <2>6, <2>7 DEF t
  <1>5. PICK a, b, c, d \in Task :
          /\ Send(move) = <<a>> /\ Record(move) = <<b>> /\ Send(end) = <<c>> /\ Record(end) = <<d>>
          /\ a.op = "send" /\ b.op = "record" /\ b.ev = move /\ c.op = "send" /\ d.op = "record" /\ d.ev = end
    <2>1. \A e \in Event : /\ [op |-> "send", ev |-> e] \in Task /\ Send(e) = <<[op |-> "send", ev |-> e]>>
                           /\ [op |-> "record", ev |-> e] \in Task /\ Record(e) = <<[op |-> "record", ev |-> e]>>
        BY DEF Task, Send, Record
    <2>2. \A e \in Event : \E x, y \in Task : /\ Send(e) = <<x>> /\ x.op = "send"
                                              /\ Record(e) = <<y>> /\ y.op = "record" /\ y.ev = e
      <3>1. SUFFICES ASSUME NEW e \in Event
                     PROVE  \E x, y \in Task : /\ Send(e) = <<x>> /\ x.op = "send"
                                              /\ Record(e) = <<y>> /\ y.op = "record" /\ y.ev = e
          OBVIOUS
      <3>2. PICK x : x = [op |-> "send", ev |-> e]  OBVIOUS
      <3>3. PICK y : y = [op |-> "record", ev |-> e]  OBVIOUS
      <3> QED  BY <2>1, <3>2, <3>3
    <2> QED  BY <1>2, <2>2
  <1>6. \A x \in Task : <<x>> \in Seq(Task)  OBVIOUS
  <1>7. /\ Emit(move) = <<a>> \o <<b>> /\ Emit(end) = <<c>> \o <<d>>
        /\ <<>> \in Seq(Task) /\ <<d>> = <<d>> \o <<>>
    <2>1. <<d>> \in Seq(Task) /\ <<>> \in Seq(Task)  BY <1>6, EmptySeq
    <2> QED  BY <1>5, <2>1, ConcatEmptySeq DEF Emit
  <1>8. (<<a>> \o <<b>>) \o Emit(end) = <<a>> \o (<<b>> \o Emit(end))
    <2>1. <<a>> \in Seq(Task) /\ <<b>> \in Seq(Task)  BY <1>6
    <2>2. Emit(end) \in Seq(Task)  BY <1>2, EmitType
    <2> QED  BY <2>1, <2>2, ConcatAssociative
  <1>9. Emit(end) \in Seq(Task) /\ <<b>> \o Emit(end) \in Seq(Task)
    <2>1. <<b>> \in Seq(Task) /\ Emit(end) \in Seq(Task)  BY <1>2, <1>6, EmitType
    <2> QED  BY <2>1, ConcatProperties
  <1>10. /\ AbortQueue(1) = <<a>> \o AbortQueue(2) /\ AbortQueue(2) = <<b>> \o AbortQueue(3)
         /\ AbortQueue(3) = <<c>> \o AbortQueue(4) /\ AbortQueue(4) = <<d>> \o AbortQueue(5)
         /\ AbortQueue(2) \in Seq(Task) /\ AbortQueue(3) \in Seq(Task)
         /\ AbortQueue(4) \in Seq(Task) /\ AbortQueue(5) \in Seq(Task)
    <2>1. AbortQueue(4) \in Seq(Task) /\ AbortQueue(5) \in Seq(Task)  BY <1>3, <1>5, <1>6, <1>7
    <2> QED  BY <1>3, <1>5, <1>7, <1>8, <1>9, <2>1
  <1>11. Plain(AbortQueue(k))
    <2>1. ~Matters(move) /\ ~Matters(end)  BY <1>1, <1>2 DEF Matters
    <2>2. /\ Plain(Emit(move)) /\ Plain(Emit(end)) /\ Plain(Record(move)) /\ Plain(Record(end)) /\ Plain(<<>>)
        BY <1>2, <2>1, PlainEvent, PlainEmpty
    <2>3. k = 1 \/ k = 2 \/ k = 3 \/ k = 4 \/ k = 5  OBVIOUS
    <2> QED  BY <1>3, <2>2, <2>3, PlainConcat
  <1>12. ASSUME NEW x \in Task, NEW q, NEW p \in Seq(Task), q = <<x>> \o p PROVE q # <<>> /\ Tail(q) = p /\ Head(q) = x
      BY <1>4, <1>12
  <1>13. /\ AbortQueue(1) # <<>> /\ Tail(AbortQueue(1)) = AbortQueue(2) /\ Head(AbortQueue(1)) = a
         /\ AbortQueue(2) # <<>> /\ Tail(AbortQueue(2)) = AbortQueue(3) /\ Head(AbortQueue(2)) = b
         /\ AbortQueue(3) # <<>> /\ Tail(AbortQueue(3)) = AbortQueue(4) /\ Head(AbortQueue(3)) = c
         /\ AbortQueue(4) # <<>> /\ Tail(AbortQueue(4)) = AbortQueue(5) /\ Head(AbortQueue(4)) = d
    <2>1. AbortQueue(1) # <<>> /\ Tail(AbortQueue(1)) = AbortQueue(2) /\ Head(AbortQueue(1)) = a  BY <1>5, <1>10, <1>12
    <2>2. AbortQueue(2) # <<>> /\ Tail(AbortQueue(2)) = AbortQueue(3) /\ Head(AbortQueue(2)) = b  BY <1>5, <1>10, <1>12
    <2>3. AbortQueue(3) # <<>> /\ Tail(AbortQueue(3)) = AbortQueue(4) /\ Head(AbortQueue(3)) = c  BY <1>5, <1>10, <1>12
    <2>4. AbortQueue(4) # <<>> /\ Tail(AbortQueue(4)) = AbortQueue(5) /\ Head(AbortQueue(4)) = d  BY <1>5, <1>10, <1>12
    <2> QED  BY <2>1, <2>2, <2>3, <2>4
  <1>14. (k = 1 /\ k + 1 = 2) \/ (k = 2 /\ k + 1 = 3) \/ (k = 3 /\ k + 1 = 4) \/ (k = 4 /\ k + 1 = 5) \/ k = 5
      OBVIOUS
  <1> QED  BY <1>2, <1>3, <1>5, <1>11, <1>13, <1>14

-----------------------------------------------------------------------------
(* The parts of the invariant, after a step of the goroutine. *)

\* A step that queues nothing that matters
LEMMA TellsNothing ==
    ASSUME TellsInv, todo = <<>>, Plain(todo'), UNCHANGED <<sent, partial>>,
           pc \in {"call", "stream"} <=> pc' \in {"call", "stream"},
           pc \in {"call", "stream"} => UNCHANGED <<iter, attempt>>,
           pc' = "call" => pc = "call"
    PROVE  Told'
  <1>1. AllTold /\ Paired(sent)  BY AtStep DEF TellsInv
  <1>2. AllTold'
    <2>1. TextInProgress' = partial'  BY <1>1 DEF AllTold, TextInProgress
    <2>2. pc' = "call" => AttemptsOf(iter)' = attempt' + 1  BY <1>1 DEF AllTold, AttemptsOf
    <2>3. IF pc' \in {"call", "stream"} THEN Waits(sent', iter', attempt' + 1) ELSE NoneWaits(sent')
        BY <1>1 DEF AllTold
    <2> QED  BY <2>1, <2>2, <2>3 DEF AllTold
  <1> QED  BY <1>1, <1>2, ToldPlainly

\* A step within the turn keeps what is known of the attempts.
LEMMA AttemptsGoOn ==
    ASSUME TellsInv, TurnInv', UNCHANGED <<sent, iter>>, pc' \notin {"returned", "closed"},
           attempt' <= MaxRetries,
           pc' \in {"start", "history"} => AttemptsOf(iter) = 0,
           pc' = "attempt" => AttemptsOf(iter) = attempt',
           pc' \in {"stream", "retry"} => AttemptsOf(iter) = attempt' + 1,
           pc' = "retry" => attempt' < MaxRetries
    PROVE  Attempts'
  <1>1. Attempts  BY DEF TellsInv
  <1>2. \A k \in DOMAIN todo' : todo'[k].op = "send" => todo'[k].ev.kind # "error"
    <2>1. Calm(todo', msgs')  BY DEF TurnInv, Announced, Ended
    <2> QED  BY <2>1, CalmNoError
  <1>3. \A i : Cardinality(StartsIn(sent', i)) = Cardinality(StartsIn(sent, i))  OBVIOUS
  <1>4. \A k \in DOMAIN sent' : sent'[k].kind = "error" /\ sent'[k].info = "unavailable" =>
          Cardinality(StartsIn(sent', sent'[k].iter)) = MaxRetries + 1
      BY <1>1 DEF Attempts, GivesUp, AttemptsOf
  <1> QED  BY <1>1, <1>2, <1>3, <1>4 DEF Attempts, GivesUp, AttemptsOf

\* So does a failing exit, of which the cause is another or the attempts are exhausted.
LEMMA AttemptsFail ==
    ASSUME TellsInv, UNCHANGED <<sent, attempt>>, NEW pre, Calm(pre, msgs), NEW cause \in Info, NEW i \in Nat,
           Fail(pre, i, cause), iter' = i, i = iter \/ (i = iter + 1 /\ cause # "unavailable"),
           cause = "unavailable" => AttemptsOf(iter) = MaxRetries + 1
    PROVE  Attempts'
  <1>1. Attempts /\ iter \in Nat /\ sent \in Seq(Event)  BY Numbers DEF TellsInv, TurnInv, TypeOK
  <1>2. \A k \in DOMAIN todo' : todo'[k].op = "send" =>
          (todo'[k].ev.kind = "error" /\ todo'[k].ev.info = "unavailable" =>
              Cardinality(StartsIn(sent', todo'[k].ev.iter)) = MaxRetries + 1)
    <2> SUFFICES ASSUME NEW k \in DOMAIN todo', todo'[k].op = "send", todo'[k].ev.kind = "error",
                        todo'[k].ev.info = "unavailable"
                 PROVE  Cardinality(StartsIn(sent', todo'[k].ev.iter)) = MaxRetries + 1
        OBVIOUS
    <2>1. todo'[k].ev.iter = i /\ todo'[k].ev.info = cause  BY FailErrors
    <2> QED  BY <2>1 DEF AttemptsOf
  <1>3. \A k \in DOMAIN sent : sent[k].kind = "model_wait_started" => sent[k].iter <= iter /\ sent[k].iter \in Nat
    <2>1. \A k \in DOMAIN sent : sent[k] \in Event  BY <1>1
    <2> QED  BY <1>1, <2>1 DEF Attempts, Event
  <1>4. ASSUME i = iter + 1 PROVE Cardinality(StartsIn(sent, i)) = 0
    <2>1. StartsIn(sent, i) = {}  BY <1>1, <1>3, <1>4 DEF StartsIn
    <2> QED  BY <2>1, FS_EmptySet
  <1>5. \A j \in 0 .. i : Cardinality(StartsIn(sent, j)) <= MaxRetries + 1
    <2>1. \A j \in 0 .. i : j \in 0 .. iter \/ (j = i /\ i = iter + 1)  BY <1>1
    <2>2. 0 <= MaxRetries + 1  BY LimitAssumption
    <2> QED  BY <1>1, <1>4, <2>1, <2>2 DEF Attempts, AttemptsOf
  <1>6. \A k \in DOMAIN sent' : sent'[k].kind = "model_wait_started" => sent'[k].iter <= iter'
    <2>1. \A n \in Nat : n <= iter => n <= i  BY <1>1
    <2> QED  BY <1>3, <2>1
  <1>7. \A k \in DOMAIN sent' : sent'[k].kind = "error" /\ sent'[k].info = "unavailable" =>
          Cardinality(StartsIn(sent', sent'[k].iter)) = MaxRetries + 1
      BY <1>1 DEF Attempts, GivesUp, AttemptsOf
  <1>8. pc' = "returned" /\ attempt' <= MaxRetries  BY <1>1 DEF Fail, Attempts
  <1> QED  BY <1>2, <1>5, <1>6, <1>7, <1>8 DEF Attempts, GivesUp, AttemptsOf

\* A step that is not an abort
LEMMA AbortsNot == ASSUME state' # "turn_aborted", pc' = "abort" => cancelled' PROVE Aborts'
  BY DEF Aborts

\* A step of another process, which leaves the goroutine and what it tells alone
LEMMA OthersTell ==
    ASSUME TellsInv, UNCHANGED <<pc, iter, attempt, state, msgId, partial, pending, agentMsg, todo, detached, sent, uilog, msgs>>,
           cancelled => cancelled',
           pc = "stream" => gen' # "idle",
           pc = "stream" /\ pending => stream' = <<>> /\ gen' = "closed"
    PROVE  Told' /\ Attempts' /\ InProgress' /\ Aborts'
  <1>1. Told'
    <2>1. Told  BY DEF TellsInv
    <2>2. Plain(todo') => AllTold'  BY <2>1 DEF Told, AllTold, TextInProgress, AttemptsOf
    <2>3. \A e : ToldBefore(e) => ToldBefore(e)'  BY DEF ToldBefore, TextInProgress, AttemptsOf
    <2> QED  BY <2>1, <2>2, <2>3 DEF Told
  <1>2. Attempts'  BY DEF TellsInv, Attempts, GivesUp, AttemptsOf
  <1>3. InProgress'  BY DEF TellsInv, InProgress
  <1>4. Aborts'
    <2>1. \A k : AbortQueue(k)' = AbortQueue(k)  BY DEF AbortQueue
    <2> QED  BY <2>1 DEF TellsInv, Aborts, Ended
  <1> QED  BY <1>1, <1>2, <1>3, <1>4

-----------------------------------------------------------------------------
(* Each action keeps what readers are told. *)

\* How far the queue of an abort is
AbortAt(k) ==
    /\ todo = AbortQueue(k)
    /\ k \in {2, 4} => detached
    /\ k >= 3 => \E l \in DOMAIN uilog : uilog[l].info = "turn_aborted"
    /\ k = 5 => \E l \in DOMAIN uilog : uilog[l].kind = "turn_aborted"

LEMMA AbortsGoOn ==
    ASSUME TellsInv, UNCHANGED <<pc, state, iter, cancelled, partial, msgs>>,
           \A k \in 1 .. 5 : AbortAt(k) => \E j \in 1 .. 5 : AbortAt(j)'
    PROVE  Aborts'
  <1>1. Aborts  BY DEF TellsInv
  <1>2. SUFFICES ASSUME Ended', state' = "turn_aborted"
                 PROVE  /\ cancelled'
                        /\ \E k \in 1 .. 5 : AbortAt(k)'
                        /\ ~StoreMayFail => partial' = IF Last(msgs').by = "partial" THEN Last(msgs').text ELSE 0
      BY <1>1 DEF Aborts, Ended, AbortAt
  <1>3. Ended /\ state = "turn_aborted"  BY <1>2 DEF Ended
  <1>4. \E k \in 1 .. 5 : AbortAt(k)  BY <1>1, <1>3 DEF Aborts, AbortAt
  <1> QED  BY <1>1, <1>3, <1>4 DEF Aborts

LEMMA SendAborts == ASSUME TellsInv, SendEvent PROVE Aborts'
  <1>1. /\ todo # <<>> /\ Head(todo).op = "send" /\ todo' = Tail(todo) /\ detached' = cancelled
        /\ UNCHANGED <<pc, state, iter, cancelled, partial, msgs, uilog>> /\ iter \in Nat
      BY Numbers DEF SendEvent, turnVars, ChoosesDetached, TellsInv, TurnInv
  <1>2. CASE Ended /\ state = "turn_aborted"
    <2>1. cancelled  BY <1>2 DEF TellsInv, Aborts
    <2>2. ASSUME NEW k \in 1 .. 5, AbortAt(k) PROVE \E j \in 1 .. 5 : AbortAt(j)'
      <3>1. todo = AbortQueue(k)  BY <2>2 DEF AbortAt
      <3>2. k \in {1, 3} /\ todo' = AbortQueue(k + 1)
        <4>1. k # 5  BY <1>1, <3>1, AbortTail
        <4> QED  BY <1>1, <3>1, <4>1, AbortTail
      <3>3. k + 1 \in 1 .. 5 /\ k + 1 # 5 /\ (k + 1 >= 3 => k >= 3)  BY <3>2
      <3>4. \A j : AbortQueue(j)' = AbortQueue(j)  BY <1>1 DEF AbortQueue
      <3>5. k + 1 >= 3 => \E l \in DOMAIN uilog : uilog[l].info = "turn_aborted"  BY <2>2, <3>3 DEF AbortAt
      <3>6. PICK j \in 1 .. 5 : j = k + 1  BY <3>3
      <3>7. AbortAt(j)'  BY <1>1, <2>1, <3>2, <3>3, <3>4, <3>5, <3>6 DEF AbortAt
      <3> QED  BY <3>6, <3>7
    <2> QED  BY <1>1, <2>2, AbortsGoOn
  <1>3. CASE ~(Ended /\ state = "turn_aborted")  BY <1>1, <1>3 DEF Aborts, Ended, TellsInv
  <1> QED  BY <1>2, <1>3

LEMMA SendEventTells == ASSUME TellsInv, TurnInv', SendEvent PROVE TellsInv'
  <1>1. InProgress'  BY DEF TellsInv, InProgress, SendEvent, turnVars, genVars
  <1>2. TypeOK'  BY DEF TurnInv
  <1> QED  BY <1>1, <1>2, SendTold, SendAttempts, SendAborts DEF TellsInv

LEMMA RecordTold == ASSUME TellsInv, RecordUIEvent PROVE Told'
  <1>1. /\ todo \in Seq(Task) /\ todo # <<>> /\ Head(todo).op = "record" /\ todo' = Tail(todo)
        /\ UNCHANGED <<pc, iter, attempt, partial, sent>> /\ Told /\ TypeOK
      BY DEF RecordUIEvent, turnVars, TellsInv, TurnInv, TypeOK
  <1>2. CASE Plain(todo)
    <2>1. Plain(todo')  BY <1>1, <1>2, QueueTail
    <2>2. AllTold /\ Paired(sent)  BY <1>1, <1>2 DEF Told
    <2>3. AllTold'  BY <1>1, <2>2 DEF AllTold, TextInProgress, AttemptsOf
    <2> QED  BY <1>1, <2>1, <2>2, <2>3, ToldPlainly
  <1>3. ASSUME NEW e \in Event, Brings(todo, e) PROVE Told'
    <2>1. ToldBefore(e) /\ Paired(sent)  BY <1>1, <1>3, BroughtIsTold DEF Told
    <2>2. Brings(todo', e)  BY <1>1, <1>3, QueueTail
    <2>3. ToldBefore(e)'  BY <1>1, <2>1 DEF ToldBefore, TextInProgress, AttemptsOf
    <2> QED  BY <1>1, <2>1, <2>2, <2>3, ToldWith
  <1> QED  BY <1>1, <1>2, <1>3, Queued

LEMMA RecordAttempts == ASSUME TellsInv, RecordUIEvent PROVE Attempts'
  <1>1. todo \in Seq(Task) /\ todo # <<>> /\ todo' = Tail(todo) /\ UNCHANGED <<pc, iter, attempt, sent>> /\ Attempts
      BY DEF RecordUIEvent, turnVars, TellsInv, TurnInv, TypeOK
  <1>2. \A k \in DOMAIN todo' : k + 1 \in DOMAIN todo /\ todo'[k] = todo[k + 1]
    <2>1. /\ Len(todo) \in Nat /\ Len(todo) > 0 /\ DOMAIN todo = 1 .. Len(todo)
          /\ DOMAIN todo' = 1 .. Len(todo) - 1 /\ \A k \in 1 .. Len(todo) - 1 : todo'[k] = todo[k + 1]
        BY <1>1, HeadTailProperties, EmptySeq
    <2> QED  BY <2>1
  <1>3. \A k \in DOMAIN todo' : todo'[k].op = "send" => GivesUp(todo'[k].ev)  BY <1>1, <1>2 DEF Attempts
  <1> QED  BY <1>1, <1>3 DEF Attempts, GivesUp, AttemptsOf

LEMMA RecordAborts == ASSUME TellsInv, RecordUIEvent PROVE Aborts'
  <1> DEFINE u == Head(todo).ev
  <1>1. /\ todo \in Seq(Task) /\ todo # <<>> /\ Head(todo).op = "record" /\ todo' = Tail(todo)
        /\ UNCHANGED <<pc, state, iter, cancelled, partial, msgs, detached>> /\ iter \in Nat
        /\ uilog \in Seq(Event) /\ u \in Event
        /\ uilog' = Append(uilog, u) \/ (cancelled /\ ~detached /\ uilog' = uilog)
    <2>1. todo \in Seq(Task) /\ uilog \in Seq(Event) /\ iter \in Nat  BY Numbers DEF TellsInv, TurnInv, TypeOK
    <2> QED  BY <2>1, HeadTask DEF RecordUIEvent, turnVars
  <1>2. ASSUME NEW l \in DOMAIN uilog PROVE l \in DOMAIN uilog' /\ uilog'[l] = uilog[l]
    <2>1. CASE uilog' = uilog  BY <1>2, <2>1
    <2>2. CASE uilog' = Append(uilog, u)  BY <1>1, <1>2, <2>2, OneMore
    <2> QED  BY <1>1, <2>1, <2>2
  <1>3. ASSUME detached PROVE \E l \in DOMAIN uilog' : uilog'[l] = u
    <2>1. uilog' = Append(uilog, u)  BY <1>1, <1>3
    <2>2. Len(uilog) + 1 \in DOMAIN uilog' /\ uilog'[Len(uilog) + 1] = u  BY <1>1, <2>1, OneMore
    <2> QED  BY <2>2
  <1>4. ASSUME NEW k \in 1 .. 5, AbortAt(k) PROVE \E j \in 1 .. 5 : AbortAt(j)'
    <2>1. todo = AbortQueue(k)  BY <1>4 DEF AbortAt
    <2>2. k \in {2, 4} /\ todo' = AbortQueue(k + 1)
      <3>1. k # 5  BY <1>1, <2>1, AbortTail
      <3>2. Head(todo).op = (IF k \in {1, 3} THEN "send" ELSE "record") /\ Tail(todo) = AbortQueue(k + 1)
          BY <1>1, <2>1, <3>1, AbortTail
      <3>3. k \notin {1, 3}  BY <1>1, <3>2
      <3> QED  BY <1>1, <3>1, <3>2, <3>3
    <2>3. detached  BY <1>4, <2>2 DEF AbortAt
    <2>4. k = 2 => u.info = "turn_aborted"  BY <1>1, <2>1, AbortTail
    <2>5. k = 4 => u.kind = "turn_aborted"  BY <1>1, <2>1, AbortTail
    <2> HIDE DEF u
    <2>6. k >= 3 => \E l \in DOMAIN uilog : uilog[l].info = "turn_aborted"  BY <1>4 DEF AbortAt
    <2>7. \E l \in DOMAIN uilog' : uilog'[l].info = "turn_aborted"  BY <1>2, <1>3, <2>2, <2>3, <2>4, <2>6
    <2>8. k = 4 => \E l \in DOMAIN uilog' : uilog'[l].kind = "turn_aborted"  BY <1>3, <2>3, <2>5
    <2>9. k + 1 \in 1 .. 5 /\ k + 1 \notin {2, 4} /\ (k + 1 = 5 => k = 4)  BY <2>2
    <2>10. \A j : AbortQueue(j)' = AbortQueue(j)  BY <1>1 DEF AbortQueue
    <2>11. PICK j \in 1 .. 5 : j = k + 1  BY <2>9
    <2>12. AbortAt(j)'  BY <2>2, <2>7, <2>8, <2>9, <2>10, <2>11 DEF AbortAt
    <2> QED  BY <2>11, <2>12
  <1> QED  BY <1>1, <1>4, AbortsGoOn

LEMMA RecordUIEventTells == ASSUME TellsInv, TurnInv', RecordUIEvent PROVE TellsInv'
  <1>1. InProgress'  BY DEF TellsInv, InProgress, RecordUIEvent, turnVars, genVars
  <1> QED  BY <1>1, RecordTold, RecordAttempts, RecordAborts DEF TellsInv

\* A failing exit out of a step in which no wait is under way
LEMMA FailTells ==
    ASSUME TellsInv, TurnInv', todo = <<>>, pc \notin {"call", "stream"}, NEW i \in Nat, NEW cause \in Info, Fail(<<>>, i, cause),
           UNCHANGED <<sent, attempt, partial>>, iter' = i, i = iter \/ i = iter + 1, cause # "unavailable"
    PROVE  TellsInv'
  <1>1. Calm(<<>>, msgs) /\ Plain(<<>>)  BY CalmEmpty, PlainEmpty
  <1>2. pc' = "returned" /\ state' = "turn_failed"  BY DEF Fail
  <1>3. Plain(todo')  BY <1>1, FailQueues
  <1>4. Told'  BY <1>2, <1>3, TellsNothing
  <1>5. Attempts'  BY <1>1, AttemptsFail
  <1>6. InProgress' /\ Aborts'  BY <1>2 DEF InProgress, Aborts
  <1> QED  BY <1>4, <1>5, <1>6 DEF TellsInv

LEMMA StartTurnTells == ASSUME TellsInv, TurnInv', StartTurn PROVE TellsInv'
  <1>1. Plain(todo')
    <2>1. "turn_started" \in EventKind \ (WaitKinds \cup {"message_done", "delta"}) /\ "" \in Info /\ "turn_started" \in TurnState
        BY DEF EventKind, WaitKinds, Info, TurnState
    <2>2. Plain(Send(Ev("turn_started", 0, 0, ""))) /\ Plain(Transition(state, "turn_started", 0)) /\ Plain(Status(0))
        BY <2>1, PlainKind, PlainHelpers
    <2> QED  BY <2>2, PlainConcat DEF StartTurn
  <1>2. Told'  BY <1>1, TellsNothing DEF StartTurn, At
  <1>3. Attempts'  BY AttemptsGoOn DEF StartTurn, At, TellsInv, Attempts
  <1>4. InProgress' /\ Aborts'  BY DEF StartTurn, At, TellsInv, InProgress, Aborts
  <1> QED  BY <1>2, <1>3, <1>4 DEF TellsInv

LEMMA NextIterationTells == ASSUME TellsInv, TurnInv', NextIteration PROVE TellsInv'
  <1>1. /\ pc = "top" /\ todo = <<>> /\ iter' = iter + 1 /\ iter \in Nat /\ iter + 1 \in Nat /\ sent \in Seq(Event)
        /\ partial' = 0 /\ partial = 0 /\ msgId' = FALSE /\ pending' = FALSE
        /\ UNCHANGED <<attempt, sent, cancelled>>
      BY Numbers DEF NextIteration, At, TellsInv, TurnInv, TypeOK, InProgress
  <1>2. CASE Fail(<<>>, iter', "max_iterations")
    <2>1. "max_iterations" \in Info  BY DEF Info, Cause
    <2> QED  BY <1>1, <1>2, <2>1, FailTells
  <1>3. CASE pc' = (IF cancelled THEN "abort" ELSE "history") /\ UNCHANGED <<state, todo>>
    <2>1. Told'  BY <1>1, <1>3, PlainEmpty, TellsNothing
    <2>2. Attempts'
      <3>1. \A k \in DOMAIN sent : sent[k].kind = "model_wait_started" => sent[k].iter \in Nat /\ sent[k].iter <= iter
        <4>1. \A k \in DOMAIN sent : sent[k] \in Event  BY <1>1
        <4> QED  BY <4>1 DEF TellsInv, Attempts, Event
      <3>2. Cardinality(StartsIn(sent, iter + 1)) = 0
        <4>1. StartsIn(sent, iter + 1) = {}  BY <1>1, <3>1 DEF StartsIn
        <4> QED  BY <4>1, FS_EmptySet
      <3>3. \A i \in 0 .. iter + 1 : Cardinality(StartsIn(sent, i)) <= MaxRetries + 1
        <4>1. \A i \in 0 .. iter + 1 : i \in 0 .. iter \/ i = iter + 1  BY <1>1
        <4>2. 0 <= MaxRetries + 1  BY LimitAssumption
        <4> QED  BY <3>2, <4>1, <4>2 DEF TellsInv, Attempts, AttemptsOf
      <3>4. \A k \in DOMAIN sent' : sent'[k].kind = "model_wait_started" => sent'[k].iter <= iter + 1
        <4>1. \A n \in Nat : n <= iter => n <= iter + 1  BY <1>1
        <4> QED  BY <1>1, <3>1, <4>1
      <3>5. \A k \in DOMAIN sent' : sent'[k].kind = "error" /\ sent'[k].info = "unavailable" =>
              Cardinality(StartsIn(sent', sent'[k].iter)) = MaxRetries + 1
          BY <1>1 DEF TellsInv, Attempts, GivesUp, AttemptsOf
      <3>6. todo' = <<>> /\ DOMAIN <<>> = {}  BY <1>1, <1>3
      <3>7. attempt' <= MaxRetries  BY <1>1 DEF TellsInv, Attempts
      <3> QED  BY <1>1, <1>3, <3>2, <3>3, <3>4, <3>5, <3>6, <3>7 DEF Attempts, GivesUp, AttemptsOf
    <2>3. InProgress' /\ Aborts'  BY <1>1, <1>3 DEF TellsInv, InProgress, Aborts, Ended
    <2> QED  BY <2>1, <2>2, <2>3 DEF TellsInv
  <1> QED  BY <1>2, <1>3 DEF NextIteration

LEMMA BuildHistoryTells == ASSUME TellsInv, TurnInv', BuildHistory PROVE TellsInv'
  <1>1. /\ pc = "history" /\ todo = <<>> /\ iter' = iter /\ iter \in Nat
        /\ UNCHANGED <<partial, sent, msgId, pending>>
      BY Numbers DEF BuildHistory, At, TellsInv, TurnInv, TypeOK
  <1>2. PICK r \in StoreResult :
          \/ r # "ok" /\ Fail(<<>>, iter, r) /\ UNCHANGED <<attempt, agentMsg>>
          \/ /\ r = "ok" /\ pc' = "attempt" /\ attempt' = 0 /\ state' = "history_ready"
             /\ todo' = Transition(state, "history_ready", iter)
      BY DEF BuildHistory
  <1>3. CASE r # "ok" /\ Fail(<<>>, iter, r) /\ UNCHANGED attempt
    <2>1. r \in Info /\ r # "unavailable"  BY <1>3 DEF StoreResult, Info, Cause
    <2> QED  BY <1>1, <1>3, <2>1, FailTells
  <1>4. CASE pc' = "attempt" /\ attempt' = 0 /\ state' = "history_ready" /\ todo' = Transition(state, "history_ready", iter)
    <2>1. Plain(todo')  BY <1>1, <1>4, PlainHelpers DEF TurnState
    <2>2. Told'  BY <1>1, <1>4, <2>1, TellsNothing
    <2>3. Attempts'
      <3>1. AttemptsOf(iter) = 0 /\ 0 <= MaxRetries  BY <1>1, LimitAssumption DEF TellsInv, Attempts
      <3> QED  BY <1>1, <1>4, <3>1, AttemptsGoOn
    <2>4. InProgress' /\ Aborts'  BY <1>1, <1>4 DEF TellsInv, InProgress, Aborts
    <2> QED  BY <2>2, <2>3, <2>4 DEF TellsInv
  <1> QED  BY <1>2, <1>3, <1>4

LEMMA StartAttemptTells == ASSUME TellsInv, TurnInv', StartAttempt PROVE TellsInv'
  <1>1. /\ pc = "attempt" /\ todo = <<>> /\ pc' = "call" /\ partial' = 0 /\ pending' = FALSE /\ state' = "model_waiting"
        /\ UNCHANGED <<iter, attempt, sent, msgId>> /\ iter \in Nat /\ attempt \in Nat /\ attempt + 1 \in Nat
        /\ todo' = Transition(state, "model_waiting", iter) \o WaitStarted(iter, attempt + 1) \o Status(iter)
      BY Numbers DEF StartAttempt, At, TellsInv, TurnInv
  <1>2. AllTold /\ Paired(sent) /\ NoneWaits(sent)  BY <1>1, AtStep DEF TellsInv, AllTold
  <1>3. AttemptsOf(iter) = attempt  BY <1>1 DEF TellsInv, Attempts
  <1>4. PICK e \in Event : /\ e.kind = "model_wait_started" /\ e.iter = iter /\ e.n = attempt + 1
                           /\ Brings(WaitStarted(iter, attempt + 1), e)
      BY <1>1, WaitTasks DEF Outcome
  <1>5. Brings(todo', e)
    <2>1. Plain(Transition(state, "model_waiting", iter)) /\ Plain(Status(iter))
        BY <1>1, PlainHelpers DEF TurnState
    <2> QED  BY <1>1, <1>4, <2>1, BringsFirst, BringsLast
  <1>6. ToldBefore(e)'
    <2>1. AttemptsOf(iter)' = attempt  BY <1>1, <1>3 DEF AttemptsOf
    <2> QED  BY <1>1, <1>2, <1>4, <2>1 DEF ToldBefore
  <1>7. Told'  BY <1>1, <1>2, <1>5, <1>6, ToldWith
  <1>8. Attempts'
    <2>1. attempt' <= MaxRetries  BY <1>1 DEF TellsInv, Attempts
    <2> QED  BY <1>1, <2>1, AttemptsGoOn
  <1>9. InProgress' /\ Aborts'  BY <1>1 DEF TellsInv, InProgress, Aborts
  <1> QED  BY <1>7, <1>8, <1>9 DEF TellsInv

LEMMA CallModelTells == ASSUME TellsInv, TurnInv', CallModel PROVE TellsInv'
  <1>1. /\ pc = "call" /\ todo = <<>> /\ pc' = "stream" /\ gen' = "running"
        /\ UNCHANGED <<iter, attempt, sent, partial, msgId, pending, state, todo, cancelled>>
      BY DEF CallModel, At, emitVars
  <1>2. Told'  BY <1>1, PlainEmpty, TellsNothing
  <1>3. Attempts'
    <2>1. AttemptsOf(iter) = attempt + 1  BY <1>1, AtStep DEF TellsInv, AllTold
    <2>2. attempt' <= MaxRetries  BY <1>1 DEF TellsInv, Attempts
    <2> QED  BY <1>1, <2>1, <2>2, AttemptsGoOn
  <1>4. InProgress' /\ Aborts'  BY <1>1 DEF TellsInv, InProgress, Aborts, Ended
  <1> QED  BY <1>2, <1>3, <1>4 DEF TellsInv

\* recordFirstToken queues a transition at most.
LEMMA PlainFirstToken == ASSUME TypeOK PROVE Plain(FirstToken)
  <1>1. iter \in Nat /\ "model_streaming" \in TurnState  BY Numbers DEF TurnState
  <1> QED  BY <1>1, PlainHelpers, PlainEmpty DEF FirstToken

LEMMA ReceiveDeltaTells == ASSUME TellsInv, TurnInv', ReceiveDelta PROVE TellsInv'
  <1>0. PICK kind : kind = Head(stream).kind  OBVIOUS
  <1>1. PICK e : e = Ev("delta", iter, attempt + 1, kind)  OBVIOUS
  <1>2. PICK mark : mark = Record(Ev("thought", iter, attempt + 1, ""))  OBVIOUS
  <1>3. /\ pc = "stream" /\ todo = <<>> /\ stream # <<>> /\ kind \in {"text", "thought"} /\ state' = "model_streaming"
        /\ UNCHANGED <<pc, iter, attempt, sent, msgId, pending, agentMsg, cancelled, gen>>
        /\ iter \in Nat /\ attempt + 1 \in Nat
      BY <1>0, Numbers DEF ReceiveDelta, At, TellsInv, TurnInv
  <1>4. AllTold /\ Paired(sent) /\ Waits(sent, iter, attempt + 1) /\ TextInProgress = partial
    <2>1. AllTold /\ Paired(sent)  BY <1>3, AtStep DEF TellsInv
    <2> QED  BY <1>3, <2>1 DEF AllTold
  <1>5. e \in Event /\ e.kind = "delta" /\ e.info = kind /\ Plain(mark)
    <2>1. "delta" \in EventKind /\ "thought" \in EventKind /\ kind \in Info /\ "" \in Info
        BY <1>3 DEF EventKind, Info, TurnState
    <2>2. Ev("thought", iter, attempt + 1, "") \in Event  BY <1>3, <2>1, EvType
    <2>3. e \in Event  BY <1>1, <1>3, <2>1, EvType
    <2> QED  BY <1>1, <1>2, <2>2, <2>3, PlainEvent DEF Ev
  <1>6. Plain(FirstToken) /\ Plain(Status(iter))
      BY <1>3, PlainFirstToken, PlainHelpers DEF TellsInv, TurnInv, TurnState
  <1>7. \/ kind = "text" /\ partial' = partial + 1 /\ todo' = FirstToken \o Send(e)
        \/ kind = "thought" /\ partial' = partial /\ todo' = (FirstToken \o Send(e)) \o mark
        \/ kind = "thought" /\ partial' = partial /\ todo' = ((FirstToken \o Send(e)) \o mark) \o Status(iter)
      BY <1>0, <1>1, <1>2 DEF ReceiveDelta
  <1>8. ASSUME kind = "text" /\ partial' = partial + 1 /\ todo' = FirstToken \o Send(e) PROVE Told'
    <2>1. Matters(e)  BY <1>5, <1>8 DEF Matters
    <2>2. Brings(todo', e)  BY <1>5, <1>6, <1>8, <2>1, PlainEvent, BringsLast
    <2>3. ToldBefore(e)'
      <3>1. TextInProgress' = partial  BY <1>3, <1>4 DEF TextInProgress
      <3> QED  BY <1>3, <1>4, <1>5, <1>8, <3>1 DEF ToldBefore, WaitKinds
    <2>4. Paired(sent')  BY <1>3, <1>4
    <2> QED  BY <1>5, <2>2, <2>3, <2>4, ToldWith
  <1>9. ASSUME /\ kind = "thought" /\ partial' = partial
               /\ \/ todo' = (FirstToken \o Send(e)) \o mark
                  \/ todo' = ((FirstToken \o Send(e)) \o mark) \o Status(iter)
        PROVE  Told'
    <2>1. ~Matters(e)  BY <1>5, <1>9 DEF Matters, WaitKinds
    <2>2. Plain(FirstToken \o Send(e))  BY <1>5, <1>6, <2>1, PlainEvent, PlainConcat
    <2>3. Plain((FirstToken \o Send(e)) \o mark)  BY <1>5, <2>2, PlainConcat
    <2>4. Plain(todo')  BY <1>6, <1>9, <2>3, PlainConcat
    <2> QED  BY <1>3, <1>9, <2>4, TellsNothing
  <1>10. Told'  BY <1>7, <1>8, <1>9
  <1>11. Attempts'
    <2>1. attempt' <= MaxRetries /\ AttemptsOf(iter) = attempt + 1  BY <1>3 DEF TellsInv, Attempts
    <2> QED  BY <1>3, <2>1, AttemptsGoOn
  <1>12. InProgress' /\ Aborts'  BY <1>3 DEF TellsInv, InProgress, Aborts
  <1> QED  BY <1>10, <1>11, <1>12 DEF TellsInv

LEMMA ReceiveMessageTells == ASSUME TellsInv, TurnInv', ReceiveMessage PROVE TellsInv'
  <1>1. /\ pc = "stream" /\ todo = <<>> /\ stream # <<>> /\ stream' = Tail(stream) /\ Head(stream).kind = "done"
        /\ state' = "model_streaming" /\ agentMsg' = Head(stream).n /\ todo' = FirstToken
        /\ UNCHANGED <<pc, iter, attempt, sent, msgId, partial, cancelled, gen>>
        /\ TypeOK /\ Response
      BY DEF ReceiveMessage, At, TellsInv, TurnInv
  <1>2. agentMsg' \in 0 .. MaxCalls /\ gen \in {"idle", "closed"} /\ stream' = <<>>
      BY <1>1, StreamHead DEF IsChunk
  <1>3. agentMsg' # NoMsg  BY <1>2, LimitAssumption DEF NoMsg
  <1>4. Told'  BY <1>1, PlainFirstToken, TellsNothing
  <1>5. Attempts'
    <2>1. attempt' <= MaxRetries /\ AttemptsOf(iter) = attempt + 1  BY <1>1 DEF TellsInv, Attempts
    <2> QED  BY <1>1, <2>1, AttemptsGoOn
  <1>6. InProgress' /\ Aborts'  BY <1>1, <1>2, <1>3 DEF TellsInv, InProgress, Aborts
  <1> QED  BY <1>4, <1>5, <1>6 DEF TellsInv

\* A step that tells the end of the wait under way
LEMMA TellsEnd ==
    ASSUME TellsInv, todo = <<>>, pc = "stream", UNCHANGED <<iter, attempt, sent, partial>>,
           pc' \in {"retry", "abort", "noresponse", "persist", "returned"},
           NEW e \in Event, e.kind = "model_wait_finished", e.iter = iter, e.n = attempt + 1, Brings(todo', e)
    PROVE  Told'
  <1>1. AllTold /\ Paired(sent)  BY AtStep DEF TellsInv
  <1>2. Waits(sent, iter, attempt + 1) /\ TextInProgress = partial  BY <1>1 DEF AllTold
  <1>3. TextInProgress' = partial'  BY <1>2 DEF TextInProgress
  <1>4. ToldBefore(e)'  BY <1>2, <1>3 DEF ToldBefore
  <1> QED  BY <1>1, <1>4, ToldWith

LEMMA ReceiveErrorTells == ASSUME TellsInv, TurnInv', ReceiveError PROVE TellsInv'
  <1> DEFINE n == attempt + 1
             cause == Head(stream).info
  <1>1. /\ pc = "stream" /\ todo = <<>> /\ stream # <<>> /\ stream' = Tail(stream) /\ Head(stream).kind = "error"
        /\ UNCHANGED <<iter, attempt, sent, msgId, pending, partial, agentMsg, cancelled, gen>>
        /\ iter \in Nat /\ attempt \in Nat /\ n \in Nat /\ TypeOK /\ Response
      BY Numbers DEF ReceiveError, At, TellsInv, TurnInv
  <1>2. ~msgId /\ ~pending  BY <1>1 DEF TellsInv, InProgress
  <1>3. attempt <= MaxRetries /\ AttemptsOf(iter) = attempt + 1  BY <1>1 DEF TellsInv, Attempts
  <1>4. CASE cancelled /\ pc' = "abort" /\ todo' = WaitFinished(iter, n, "aborted") /\ UNCHANGED state
    <2>1. PICK e \in Event : /\ e.kind = "model_wait_finished" /\ e.iter = iter /\ e.n = n
                             /\ Brings(WaitFinished(iter, n, "aborted"), e)
        BY <1>1, WaitTasks DEF Outcome
    <2>2. Told'  BY <1>1, <1>4, <2>1, TellsEnd
    <2>3. Attempts'  BY <1>1, <1>3, <1>4, AttemptsGoOn
    <2>4. InProgress' /\ Aborts'  BY <1>1, <1>2, <1>4 DEF TellsInv, InProgress, Aborts, Ended
    <2> QED  BY <2>2, <2>3, <2>4 DEF TellsInv
  <1>5. CASE /\ MayRetry(cause) /\ pc' = "retry" /\ state' = "retry_waiting"
             /\ todo' = WaitFinished(iter, n, "retry") \o Transition(state, "retry_waiting", iter)
                           \o Status(iter) \o Retry(iter, n)
    <2>1. PICK e \in Event : /\ e.kind = "model_wait_finished" /\ e.iter = iter /\ e.n = n
                             /\ Brings(WaitFinished(iter, n, "retry"), e)
        BY <1>1, WaitTasks DEF Outcome
    <2>2. Plain(Transition(state, "retry_waiting", iter)) /\ Plain(Status(iter)) /\ Plain(Retry(iter, n))
        BY <1>1, PlainHelpers DEF TurnState
    <2>3. Brings(todo', e)  BY <1>5, <2>1, <2>2, BringsFirst
    <2>4. Told'  BY <1>1, <1>5, <2>1, <2>3, TellsEnd
    <2>5. Attempts'  BY <1>1, <1>3, <1>5, AttemptsGoOn DEF MayRetry
    <2>6. InProgress' /\ Aborts'  BY <1>1, <1>2, <1>5 DEF TellsInv, InProgress, Aborts
    <2> QED  BY <2>4, <2>5, <2>6 DEF TellsInv
  <1>6. CASE ~MayRetry(cause) /\ Fail(WaitFinished(iter, n, "error"), iter, cause)
    <2>1. PICK e \in Event : /\ e.kind = "model_wait_finished" /\ e.iter = iter /\ e.n = n
                             /\ Brings(WaitFinished(iter, n, "error"), e)
        BY <1>1, WaitTasks DEF Outcome
    <2>2. cause \in Info  BY <1>1, StreamHead
    <2>3. Brings(todo', e) /\ pc' = "returned" /\ state' = "turn_failed"
        BY <1>1, <1>6, <2>1, <2>2, FailQueues DEF Fail
    <2>4. Told'  BY <1>1, <2>1, <2>3, TellsEnd
    <2>5. cause = "unavailable" => AttemptsOf(iter) = MaxRetries + 1
        BY <1>1, <1>3, <1>6, LimitAssumption DEF MayRetry
    <2>6. Calm(WaitFinished(iter, n, "error"), msgs)  BY <1>1, CalmWait DEF Outcome
    <2>7. Attempts'  BY <1>1, <1>6, <2>2, <2>5, <2>6, AttemptsFail
    <2>8. InProgress' /\ Aborts'  BY <2>3 DEF InProgress, Aborts
    <2> QED  BY <2>4, <2>7, <2>8 DEF TellsInv
  <1> QED  BY <1>4, <1>5, <1>6 DEF ReceiveError

LEMMA StreamEndsTells == ASSUME TellsInv, TurnInv', StreamEnds PROVE TellsInv'
  <1>1. /\ pc = "stream" /\ todo = <<>>
        /\ UNCHANGED <<iter, attempt, sent, msgId, pending, partial, agentMsg, cancelled, state>>
        /\ iter \in Nat /\ attempt + 1 \in Nat
        /\ \/ agentMsg = NoMsg /\ pc' = "noresponse" /\ todo' = WaitFinished(iter, attempt + 1, "error")
           \/ agentMsg # NoMsg /\ pc' = "persist" /\ todo' = WaitFinished(iter, attempt + 1, "success")
      BY Numbers DEF StreamEnds, At, TellsInv, TurnInv
  <1>2. PICK e \in Event : /\ e.kind = "model_wait_finished" /\ e.iter = iter /\ e.n = attempt + 1 /\ Brings(todo', e)
    <2>1. "error" \in Outcome /\ "success" \in Outcome  BY DEF Outcome
    <2> QED  BY <1>1, <2>1, WaitTasks
  <1>3. Told'  BY <1>1, <1>2, TellsEnd
  <1>4. Attempts'
    <2>1. attempt' <= MaxRetries  BY <1>1 DEF TellsInv, Attempts
    <2> QED  BY <1>1, <2>1, AttemptsGoOn
  <1>5. InProgress' /\ Aborts'  BY <1>1 DEF TellsInv, InProgress, Aborts, Ended
  <1> QED  BY <1>3, <1>4, <1>5 DEF TellsInv

LEMMA NoResponseTells == ASSUME TellsInv, TurnInv', NoResponse PROVE TellsInv'
  <1>1. /\ pc = "noresponse" /\ todo = <<>> /\ iter \in Nat
        /\ UNCHANGED <<iter, attempt, sent, msgId, pending, partial, cancelled>>
      BY Numbers DEF NoResponse, At, TellsInv, TurnInv
  <1>2. CASE cancelled /\ pc' = "abort" /\ UNCHANGED <<state, todo>>
    <2>1. Told'  BY <1>1, <1>2, PlainEmpty, TellsNothing
    <2>2. attempt' <= MaxRetries  BY <1>1 DEF TellsInv, Attempts
    <2>3. Attempts'  BY <1>1, <1>2, <2>2, AttemptsGoOn
    <2>4. InProgress' /\ Aborts'  BY <1>1, <1>2 DEF TellsInv, InProgress, Aborts, Ended
    <2> QED  BY <2>1, <2>3, <2>4 DEF TellsInv
  <1>3. CASE Fail(<<>>, iter, "no_response")
    <2>1. "no_response" \in Info  BY DEF Info, Cause
    <2> QED  BY <1>1, <1>3, <2>1, FailTells
  <1> QED  BY <1>2, <1>3 DEF NoResponse

LEMMA RetryTickTells == ASSUME TellsInv, TurnInv', RetryTick PROVE TellsInv'
  <1>1. /\ pc = "retry" /\ todo = <<>> /\ iter \in Nat /\ attempt \in Nat /\ attempt + 1 \in Nat
        /\ UNCHANGED <<iter, sent, msgId, pending, partial, cancelled, state>>
      BY Numbers DEF RetryTick, At, TellsInv, TurnInv
  <1>2. attempt < MaxRetries /\ AttemptsOf(iter) = attempt + 1 /\ MaxRetries \in Nat
      BY <1>1, LimitAssumption DEF TellsInv, Attempts
  <1>3. CASE cancelled /\ pc' = "abort" /\ UNCHANGED <<attempt, todo>>
    <2>1. Told'  BY <1>1, <1>3, PlainEmpty, TellsNothing
    <2>2. Attempts'  BY <1>1, <1>2, <1>3, AttemptsGoOn
    <2>3. InProgress' /\ Aborts'  BY <1>1, <1>3 DEF TellsInv, InProgress, Aborts, Ended
    <2> QED  BY <2>1, <2>2, <2>3 DEF TellsInv
  <1>4. CASE /\ todo' = Retry(iter, attempt + 1)
             /\ UNCHANGED <<pc, attempt>> \/ (pc' = "attempt" /\ attempt' = attempt + 1)
    <2>1. Plain(todo')  BY <1>1, <1>4, PlainHelpers DEF TurnState
    <2>2. Told'  BY <1>1, <1>4, <2>1, TellsNothing
    <2>3. Attempts'  BY <1>1, <1>2, <1>4, AttemptsGoOn
    <2>4. InProgress' /\ Aborts'  BY <1>1, <1>4 DEF TellsInv, InProgress, Aborts, Ended
    <2> QED  BY <2>2, <2>3, <2>4 DEF TellsInv
  <1> QED  BY <1>3, <1>4 DEF RetryTick

LEMMA PersistMessageTells == ASSUME TellsInv, TurnInv', PersistMessage PROVE TellsInv'
  <1>1. /\ pc = "persist" /\ todo = <<>> /\ iter \in Nat /\ agentMsg \in Nat
        /\ UNCHANGED <<iter, attempt, sent, cancelled>>
      BY Numbers DEF PersistMessage, At, TellsInv, TurnInv
  <1>2. AllTold /\ Paired(sent) /\ NoneWaits(sent)  BY <1>1, AtStep DEF TellsInv, AllTold
  <1>3. ASSUME NEW r \in StoreResult, r # "ok", Fail(<<>>, iter, r), UNCHANGED partial PROVE TellsInv'
    <2>1. r \in Info /\ r # "unavailable"  BY <1>3 DEF StoreResult, Info, Cause
    <2> QED  BY <1>1, <1>3, <2>1, FailTells
  <1>5. PICK e : e = Ev("message_done", iter, agentMsg, "")  OBVIOUS
  <1>6. PICK announced : announced = Transition(state, "message_persisted", iter) \o Send(e)  OBVIOUS
  <1>7. e \in Event /\ e.kind = "message_done" /\ Matters(e) /\ Brings(announced, e)
    <2>1. "message_done" \in EventKind /\ "" \in Info /\ "message_persisted" \in TurnState
        BY DEF EventKind, Info, TurnState
    <2>2. e \in Event /\ e.kind = "message_done"  BY <1>1, <1>5, <2>1, EvType DEF Ev
    <2>3. Matters(e)  BY <2>2 DEF Matters
    <2>4. Plain(Transition(state, "message_persisted", iter))  BY <1>1, <2>1, PlainHelpers
    <2> QED  BY <1>6, <2>2, <2>3, <2>4, PlainEvent, BringsLast
  <1>8. ASSUME partial' = 0, pc' \in {"tools", "returned"}, Brings(todo', e)
        PROVE  Told'
    <2>1. ToldBefore(e)'  BY <1>1, <1>2, <1>7, <1>8 DEF ToldBefore, WaitKinds
    <2>2. Paired(sent')  BY <1>1, <1>2
    <2> QED  BY <1>7, <1>8, <2>1, <2>2, ToldWith
  <1>9. Plain(Status(iter)) /\ Plain(CallStarts(iter, agentMsg))
        /\ \A from : \A to \in TurnState : Plain(Transition(from, to, iter))
      BY <1>1, PlainHelpers DEF TurnState
  <1>10. CASE /\ partial' = 0 /\ pc' = "returned" /\ state' = "turn_completed"
              /\ todo' = announced \o Status(iter) \o Status(iter)
                            \o Transition("message_persisted", "turn_completed", iter)
                            \o Send(Ev("turn_complete", iter, 0, ""))
    <2>1. Plain(Send(Ev("turn_complete", iter, 0, "")))
      <3>1. "turn_complete" \in EventKind \ (WaitKinds \cup {"message_done", "delta"}) /\ "" \in Info
          BY DEF EventKind, Terminal, WaitKinds, Info, TurnState
      <3> QED  BY <1>1, <3>1, PlainKind
    <2>2. Plain(Transition("message_persisted", "turn_completed", iter))  BY <1>9 DEF TurnState
    <2>3. Brings(todo', e)  BY <1>7, <1>9, <1>10, <2>1, <2>2, BringsFirst
    <2>4. Told'  BY <1>8, <1>10, <2>3
    <2>5. Attempts'
      <3>1. \A k \in DOMAIN todo' : todo'[k].op = "send" => todo'[k].ev.kind # "error"
        <4>1. FinalKind' = "turn_complete"  BY <1>10 DEF FinalKind
        <4>2. \/ Closing(todo', FinalKind', msgs') \/ OnlyRecords(todo')
            BY <1>10 DEF TurnInv, Announced
        <4>3. CASE OnlyRecords(todo')  BY <4>3 DEF OnlyRecords
        <4>4. CASE Closing(todo', "turn_complete", msgs')
          <5>1. PICK k \in 1 .. Len(todo') : ClosesAt(todo', k, "turn_complete", msgs')  BY <4>4 DEF Closing
          <5>2. Len(todo') \in Nat /\ DOMAIN todo' = 1 .. Len(todo')  BY <4>4 DEF Closing
          <5>3. \A j \in 1 .. Len(todo') : j = k \/ j \in 1 .. k - 1 \/ j \in k + 1 .. Len(todo')  BY <5>2
          <5> QED  BY <5>1, <5>2, <5>3 DEF ClosesAt, CalmTask, Terminal
        <4> QED  BY <4>1, <4>2, <4>3, <4>4
      <3>2. \A k \in DOMAIN sent' : sent'[k].kind = "error" /\ sent'[k].info = "unavailable" =>
              Cardinality(StartsIn(sent', sent'[k].iter)) = MaxRetries + 1
          BY <1>1 DEF TellsInv, Attempts, GivesUp, AttemptsOf
      <3>3. /\ attempt' <= MaxRetries /\ \A i \in 0 .. iter' : Cardinality(StartsIn(sent', i)) <= MaxRetries + 1
            /\ \A k \in DOMAIN sent' : sent'[k].kind = "model_wait_started" => sent'[k].iter <= iter'
          BY <1>1 DEF TellsInv, Attempts, AttemptsOf
      <3> QED  BY <1>10, <3>1, <3>2, <3>3 DEF Attempts, GivesUp, AttemptsOf
    <2>6. InProgress' /\ Aborts'  BY <1>10 DEF InProgress, Aborts
    <2> QED  BY <2>4, <2>5, <2>6 DEF TellsInv
  <1>11. CASE /\ partial' = 0 /\ pc' = "tools" /\ state' = "tool_executing"
              /\ todo' = announced \o Transition("message_persisted", "tool_dispatching", iter)
                            \o Status(iter) \o CallStarts(iter, agentMsg)
                            \o Transition("tool_dispatching", "tool_executing", iter)
    <2>1. Plain(Transition("message_persisted", "tool_dispatching", iter))
          /\ Plain(Transition("tool_dispatching", "tool_executing", iter))
        BY <1>9 DEF TurnState
    <2>2. Brings(todo', e)  BY <1>7, <1>9, <1>11, <2>1, BringsFirst
    <2>3. Told'  BY <1>8, <1>11, <2>2
    <2>4. attempt' <= MaxRetries  BY <1>1 DEF TellsInv, Attempts
    <2>5. Attempts'  BY <1>1, <1>11, <2>4, AttemptsGoOn
    <2>6. InProgress' /\ Aborts'  BY <1>11 DEF InProgress, Aborts
    <2> QED  BY <2>3, <2>5, <2>6 DEF TellsInv
  <1>12. \/ \E r \in StoreResult : r # "ok" /\ Fail(<<>>, iter, r) /\ UNCHANGED partial
         \/ /\ partial' = 0 /\ pc' = "returned" /\ state' = "turn_completed"
            /\ todo' = announced \o Status(iter) \o Status(iter)
                          \o Transition("message_persisted", "turn_completed", iter)
                          \o Send(Ev("turn_complete", iter, 0, ""))
         \/ /\ partial' = 0 /\ pc' = "tools" /\ state' = "tool_executing"
            /\ todo' = announced \o Transition("message_persisted", "tool_dispatching", iter)
                          \o Status(iter) \o CallStarts(iter, agentMsg)
                          \o Transition("tool_dispatching", "tool_executing", iter)
    <2>1. announced = Transition(state, "message_persisted", iter) \o Send(Ev("message_done", iter, agentMsg, ""))
        BY <1>5, <1>6
    <2> QED  BY <2>1 DEF PersistMessage
  <1> QED  BY <1>3, <1>10, <1>11, <1>12

LEMMA ToolsTell ==
    ASSUME TellsInv, TurnInv', (\E k \in 1 .. MaxCalls : ToolReturns(k)) \/ AllToolsReturned PROVE TellsInv'
  <1>1. CASE \E k \in 1 .. MaxCalls : ToolReturns(k)
    <2>1. /\ UNCHANGED <<pc, iter, attempt, state, msgId, partial, pending, agentMsg, todo, detached, sent, uilog, msgs>>
          /\ UNCHANGED <<cancelled, gen, stream>>
        BY <1>1 DEF ToolReturns, emitVars, genVars
    <2>2. pc # "stream"  BY <1>1 DEF ToolReturns, At
    <2> QED  BY <2>1, <2>2, OthersTell DEF TellsInv
  <1>2. CASE AllToolsReturned
    <2>1. /\ pc = "tools" /\ pc' = "results" /\ todo = <<>> /\ todo' = CallResults(iter, agentMsg)
          /\ UNCHANGED <<iter, attempt, sent, msgId, pending, partial, cancelled, state>>
        BY <1>2 DEF AllToolsReturned, At
    <2>2. Plain(todo')  BY <2>1, Numbers, PlainHelpers DEF TellsInv, TurnInv, TurnState
    <2>3. Told'  BY <2>1, <2>2, TellsNothing
    <2>4. attempt' <= MaxRetries  BY <2>1 DEF TellsInv, Attempts
    <2>5. Attempts'  BY <2>1, <2>4, AttemptsGoOn
    <2>6. InProgress' /\ Aborts'  BY <2>1 DEF TellsInv, InProgress, Aborts, Ended
    <2> QED  BY <2>3, <2>5, <2>6 DEF TellsInv
  <1> QED  BY <1>1, <1>2

LEMMA PersistResultsTells == ASSUME TellsInv, TurnInv', PersistResults PROVE TellsInv'
  <1>1. /\ pc = "results" /\ todo = <<>> /\ iter \in Nat
        /\ UNCHANGED <<iter, attempt, sent, msgId, pending, partial, cancelled>>
      BY Numbers DEF PersistResults, At, TellsInv, TurnInv
  <1>2. ASSUME NEW r \in StoreResult, r # "ok", Fail(<<>>, iter, r) PROVE TellsInv'
    <2>1. r \in Info /\ r # "unavailable"  BY <1>2 DEF StoreResult, Info, Cause
    <2> QED  BY <1>1, <1>2, <2>1, FailTells
  <1>3. CASE /\ pc' = "top" /\ state' = "history_ready"
             /\ todo' = Status(iter) \o Transition(state, "history_ready", iter)
    <2>1. Plain(todo')
      <3>1. Plain(Status(iter)) /\ Plain(Transition(state, "history_ready", iter))
          BY <1>1, PlainHelpers DEF TurnState
      <3> QED  BY <1>3, <3>1, PlainConcat
    <2>2. Told'  BY <1>1, <1>3, <2>1, TellsNothing
    <2>3. attempt' <= MaxRetries  BY <1>1 DEF TellsInv, Attempts
    <2>4. Attempts'  BY <1>1, <1>3, <2>3, AttemptsGoOn
    <2>5. InProgress' /\ Aborts'  BY <1>1, <1>3 DEF TellsInv, InProgress, Aborts
    <2> QED  BY <2>2, <2>4, <2>5 DEF TellsInv
  <1> QED  BY <1>2, <1>3 DEF PersistResults

LEMMA AbortTells == ASSUME TellsInv, TurnInv', Abort PROVE TellsInv'
  <1>1. /\ pc = "abort" /\ todo = <<>> /\ pc' = "returned" /\ state' = "turn_aborted"
        /\ todo' = Transition(state, "turn_aborted", iter) \o Emit(Ev("turn_aborted", iter, 0, ""))
        /\ UNCHANGED <<iter, attempt, sent, partial, cancelled>>
        /\ iter \in Nat /\ partial \in Nat /\ TypeOK
      BY Numbers DEF Abort, At, TellsInv, TurnInv
  <1>2. cancelled /\ state # "turn_aborted" /\ ~msgId /\ ~pending /\ Last(msgs).by \in {"user", "tool"}
      BY <1>1 DEF TellsInv, Aborts, Ended, InProgress, TurnInv, Shape, ModelSpeaksNext
  <1>3. todo' = AbortQueue(1)  BY <1>1, <1>2 DEF AbortQueue, Transition
  <1>4. Told'
    <2>1. PICK k \in 1 .. 5 : k = 1  OBVIOUS
    <2>2. Plain(AbortQueue(k))  BY <1>1, AbortTail
    <2>3. Plain(todo')  BY <1>3, <2>1, <2>2
    <2> QED  BY <1>1, <2>3, TellsNothing
  <1>5. Attempts'
    <2>1. \A k \in DOMAIN todo' : todo'[k].ev.kind # "error"
      <3> DEFINE move == Ev("state_transition", iter, 0, "turn_aborted")
                 end == Ev("turn_aborted", iter, 0, "")
      <3>2. todo' = Emit(move) \o Emit(end)  BY <1>3 DEF AbortQueue
      <3>3. move \in Event /\ end \in Event /\ move.kind # "error" /\ end.kind # "error"
        <4>1. "state_transition" \in EventKind /\ "turn_aborted" \in EventKind /\ "turn_aborted" \in Info /\ "" \in Info
            BY DEF EventKind, Terminal, Info, TurnState
        <4> QED  BY <1>1, <4>1, EvType DEF Ev
      <3> HIDE DEF move, end
      <3>4. \A e \in {move, end} : Emit(e) \in Seq(Task) /\ \A k \in 1 .. Len(Emit(e)) : Emit(e)[k].ev = e
        <4>1. \A e \in Event : Emit(e) \in Seq(Task) /\ Len(Emit(e)) = 2 /\ Emit(e)[1].ev = e /\ Emit(e)[2].ev = e
            BY EmitType
        <4>2. \A k \in 1 .. 2 : k = 1 \/ k = 2  OBVIOUS
        <4> QED  BY <3>3, <4>1, <4>2
      <3>5. ASSUME NEW k \in DOMAIN todo' PROVE todo'[k].ev.kind # "error"
        <4>1. \/ k \in 1 .. Len(Emit(move)) /\ todo'[k] = Emit(move)[k]
              \/ k - Len(Emit(move)) \in 1 .. Len(Emit(end)) /\ todo'[k] = Emit(end)[k - Len(Emit(move))]
            BY <3>2, <3>4, <3>5, Concat
        <4> QED  BY <3>3, <3>4, <4>1
      <3> QED  BY <3>5
    <2>2. \A k \in DOMAIN sent' : sent'[k].kind = "error" /\ sent'[k].info = "unavailable" =>
            Cardinality(StartsIn(sent', sent'[k].iter)) = MaxRetries + 1
        BY <1>1 DEF TellsInv, Attempts, GivesUp, AttemptsOf
    <2>3. /\ attempt' <= MaxRetries /\ \A i \in 0 .. iter' : Cardinality(StartsIn(sent', i)) <= MaxRetries + 1
          /\ \A k \in DOMAIN sent' : sent'[k].kind = "model_wait_started" => sent'[k].iter <= iter'
        BY <1>1 DEF TellsInv, Attempts, AttemptsOf
    <2> QED  BY <1>1, <2>1, <2>2, <2>3 DEF Attempts, GivesUp, AttemptsOf
  <1>6. InProgress'  BY <1>1 DEF InProgress
  <1>7. ASSUME ~StoreMayFail PROVE partial' = IF Last(msgs').by = "partial" THEN Last(msgs').text ELSE 0
    <2>1. CASE msgs' = Append(msgs, Msg("partial", iter, 0, partial))
      <3>1. Msg("partial", iter, 0, partial) \in Message
            /\ Msg("partial", iter, 0, partial).by = "partial" /\ Msg("partial", iter, 0, partial).text = partial
          BY <1>1 DEF Msg, Message
      <3>2. Last(msgs') = Msg("partial", iter, 0, partial)  BY <1>1, <2>1, <3>1, LogGrows DEF Last
      <3> QED  BY <1>1, <3>1, <3>2
    <2>2. CASE (KeepsPartial => StoreMayFail) /\ UNCHANGED msgs
      <3>1. ~(partial > 0)  BY <1>2, <1>7, <2>2 DEF KeepsPartial
      <3>2. partial = 0
        <4>1. partial \in Nat  BY <1>1
        <4> QED  BY <3>1, <4>1
      <3> QED  BY <1>1, <1>2, <2>2, <3>2
    <2> QED  BY <2>1, <2>2 DEF Abort
  <1>8. Aborts'
    <2>1. AbortQueue(1)' = AbortQueue(1)  BY <1>1 DEF AbortQueue
    <2>2. AbortAt(1)'  BY <1>3, <2>1 DEF AbortAt
    <2>3. PICK k \in 1 .. 5 : k = 1  OBVIOUS
    <2>4. AbortAt(k)'  BY <2>2, <2>3
    <2> QED  BY <1>1, <1>2, <1>7, <2>3, <2>4 DEF Aborts, AbortAt, Ended
  <1> QED  BY <1>4, <1>5, <1>6, <1>8 DEF TellsInv

LEMMA CloseChannelTells == ASSUME TellsInv, TurnInv', CloseChannel PROVE TellsInv'
  <1>1. /\ pc = "returned" /\ todo = <<>> /\ pc' = "closed"
        /\ UNCHANGED <<iter, attempt, sent, msgId, pending, partial, cancelled, state, todo, detached, uilog, msgs>>
      BY DEF CloseChannel, At, emitVars
  <1>2. Told'  BY <1>1, PlainEmpty, TellsNothing
  <1>3. Attempts'  BY <1>1 DEF TellsInv, Attempts, GivesUp, AttemptsOf
  <1>4. InProgress'  BY <1>1 DEF InProgress
  <1>5. Aborts'
    <2>1. \A k : AbortQueue(k)' = AbortQueue(k)  BY <1>1 DEF AbortQueue
    <2> QED  BY <1>1, <2>1 DEF TellsInv, Aborts, Ended
  <1> QED  BY <1>2, <1>3, <1>4, <1>5 DEF TellsInv

LEMMA ClientStepTells == ASSUME TellsInv, TurnInv', ClientStep PROVE TellsInv'
  <1>1. gen \in {"running", "sending"} /\ gen' \in {"running", "sending", "closed"}
        /\ UNCHANGED <<turnVars, emitVars, msgs, cancelled>>
      BY DEF ClientStep, GenerateChunk, GenerateMessage, GenerateError, GenerateNothing, PutStream, Offer
  <1>2. ~(pc = "stream" /\ pending)  BY <1>1 DEF TellsInv, InProgress
  <1> QED  BY <1>1, <1>2, OthersTell DEF TellsInv, turnVars, emitVars

LEMMA ReaderStepTells == ASSUME TellsInv, TurnInv', ReaderStep PROVE TellsInv'
  <1>1. UNCHANGED <<turnVars, todo, detached, sent, uilog, genVars, msgs>>
      BY DEF ReaderStep, ReadEvent, WriteFails, ReadClosed, Disconnect, ReplyGivesUp, ParentCancels, emitVars, readVars
  <1>2. ASSUME cancelled PROVE cancelled'
    <2>1. CASE ReadEvent  BY <1>2, <2>1 DEF ReadEvent
    <2>2. CASE WriteFails \/ ReadClosed \/ Disconnect \/ ParentCancels
        BY <2>2 DEF WriteFails, ReadClosed, Disconnect, ParentCancels
    <2>3. CASE ReplyGivesUp  BY <1>2, <2>3 DEF ReplyGivesUp
    <2> QED  BY <2>1, <2>2, <2>3 DEF ReaderStep
  <1> QED  BY <1>1, <1>2, OthersTell DEF TellsInv, InProgress, turnVars, genVars

LEMMA InitTells == Init => TellsInv
  <1> SUFFICES ASSUME Init PROVE TellsInv  OBVIOUS
  <1>1. /\ pc = "start" /\ iter = 0 /\ attempt = 0 /\ partial = 0 /\ state = "" /\ todo = <<>> /\ sent = <<>>
        /\ msgId = FALSE /\ pending = FALSE
      BY DEF Init
  <1>2. DOMAIN <<>> = {}  OBVIOUS
  <1>3. Told
    <2>1. Paired(<<>>) /\ NoneWaits(<<>>)  BY <1>2 DEF Paired, NoneWaits
    <2>2. TextInProgress = 0
      <3>1. TextsIn(sent) = {}  BY <1>1, <1>2 DEF TextsIn
      <3> QED  BY <3>1, FS_EmptySet DEF TextInProgress
    <2> QED  BY <1>1, <1>2, <2>1, <2>2 DEF Told, AllTold
  <1>4. Attempts
    <2>1. \A i : Cardinality(StartsIn(sent, i)) = 0
      <3>1. \A i : StartsIn(sent, i) = {}  BY <1>1, <1>2 DEF StartsIn
      <3> QED  BY <3>1, FS_EmptySet
    <2>2. 0 <= MaxRetries /\ 0 <= MaxRetries + 1  BY LimitAssumption
    <2> QED  BY <1>1, <1>2, <2>1, <2>2 DEF Attempts, AttemptsOf
  <1>5. InProgress /\ Aborts  BY <1>1 DEF InProgress, Aborts, Ended
  <1> QED  BY <1>3, <1>4, <1>5, InitInv DEF TellsInv

LEMMA NextTells == TellsInv /\ [Next]_vars => TellsInv'
  <1> SUFFICES ASSUME TellsInv, [Next]_vars PROVE TellsInv'  OBVIOUS
  <1>1. TurnInv'  BY NextInv DEF TellsInv
  <1>2. CASE UNCHANGED vars
    <2>1. UNCHANGED <<turnVars, emitVars, genVars, msgs, cancelled>>  BY <1>2 DEF vars
    <2> QED  BY <1>1, <2>1, OthersTell DEF TellsInv, InProgress, turnVars, emitVars, genVars
  <1>3. CASE TurnStep
    BY <1>1, <1>3, SendEventTells, RecordUIEventTells, StartTurnTells, NextIterationTells, BuildHistoryTells,
       StartAttemptTells, CallModelTells, ReceiveDeltaTells, ReceiveMessageTells, ReceiveErrorTells, StreamEndsTells,
       NoResponseTells, RetryTickTells, PersistMessageTells, ToolsTell, PersistResultsTells, AbortTells,
       CloseChannelTells DEF TurnStep
  <1> QED  BY <1>1, <1>2, <1>3, ToolsTell, ClientStepTells, ReaderStepTells DEF Next

-----------------------------------------------------------------------------
(* The theorems. *)

\* Whatever mix of deltas, retries, failures and cancellations a turn goes through, what it
\* has sent and what it still has to send agree with what it knows: the wait under way, the
\* attempts made, the text of the message in progress and the record of its abort.
THEOREM TellsWhatItKnows == Spec => []TellsInv
  <1>1. Init => TellsInv  BY InitTells
  <1>2. TellsInv /\ [Next]_vars => TellsInv'  BY NextTells
  <1> QED  BY <1>1, <1>2, PTL DEF Spec

\* What has ended has nothing left to tell, so no wait is open.
LEMMA NothingLeft ==
    ASSUME TellsInv, NEW k \in DOMAIN sent, sent[k].kind \in Terminal
    PROVE  Ended /\ NoneWaits(sent) /\ OnlyRecords(todo) /\ EndsWith(sent, FinalKind) /\ k = Len(sent) /\ TextInProgress = partial
  <1>1. TypeOK /\ Announced /\ Told  BY DEF TellsInv, TurnInv
  <1>2. Ended /\ EndsWith(sent, FinalKind) /\ OnlyRecords(todo)
    <2>1. ~Quiet(sent)  BY DEF Quiet
    <2>2. <<>> \in Seq(Task) /\ DOMAIN <<>> = {}  OBVIOUS
    <2> QED  BY <1>1, <2>1, <2>2 DEF Announced, Ended, OnlyRecords
  <1>3. Plain(todo)  BY <1>2 DEF OnlyRecords, Plain, PlainTask
  <1>4. AllTold  BY <1>1, <1>3 DEF Told
  <1>5. k = Len(sent)
    <2>1. sent \in Seq(Event) /\ Len(sent) \in Nat /\ DOMAIN sent = 1 .. Len(sent)  BY <1>1 DEF TypeOK
    <2>2. k \notin 1 .. Len(sent) - 1  BY <1>2 DEF EndsWith
    <2> QED  BY <2>1, <2>2
  <1> QED  BY <1>2, <1>4, <1>5 DEF AllTold, Ended

\* Every attempt that readers are told to wait for is reported finished once, before the
\* next attempt and before the end of the turn; and a turn gives a model up as unavailable
\* only after MaxRetries + 1 attempts, and never makes more.
THEOREM AttemptsAreAlwaysTold == Spec => []AttemptsAreTold
  <1>1. TellsInv => AttemptsAreTold
    <2> SUFFICES ASSUME TellsInv PROVE AttemptsAreTold  OBVIOUS
    <2>1. Told /\ Attempts /\ TypeOK  BY DEF TellsInv, TurnInv
    <2>2. sent \in Seq(Event) /\ Len(sent) \in Nat /\ DOMAIN sent = 1 .. Len(sent)  BY <2>1 DEF TypeOK
    <2>3. WaitsPaired
      <3>1. Paired(sent)  BY <2>1 DEF Told
      <3>2. ASSUME NEW j \in DOMAIN sent, sent[j].kind = "model_wait_started", ~\E k \in j .. Len(sent) : EndsWait(sent, j, k)
            PROVE  \A k \in DOMAIN sent : sent[k].kind \notin Terminal /\ (k > j => sent[k].kind \notin WaitKinds)
        <4>1. \A k \in DOMAIN sent : k > j => sent[k].kind \notin WaitKinds  BY <3>1, <3>2 DEF Paired
        <4>2. ~NoneWaits(sent)  BY <3>2 DEF NoneWaits
        <4>3. \A k \in DOMAIN sent : sent[k].kind \notin Terminal  BY <4>2, NothingLeft
        <4> QED  BY <4>1, <4>3
      <3> QED  BY <3>1, <3>2 DEF WaitsPaired, Paired
    <2>4. RetriesExhausted
      <3>1. \A i \in 1 .. MaxIterations : AttemptsOf(i) <= MaxRetries + 1
        <4> SUFFICES ASSUME NEW i \in 1 .. MaxIterations PROVE AttemptsOf(i) <= MaxRetries + 1  OBVIOUS
        <4>1. CASE i \in 0 .. iter  BY <2>1, <4>1 DEF Attempts
        <4>2. CASE i \notin 0 .. iter
          <5>1. i \in Nat /\ iter \in Nat /\ i > iter  BY <2>1, <4>2 DEF TypeOK
          <5>2. \A k \in DOMAIN sent : sent[k] \in Event  BY <2>2
          <5>3. \A k \in DOMAIN sent : sent[k].kind = "model_wait_started" => sent[k].iter # i
              BY <2>1, <5>1, <5>2 DEF Attempts, Event
          <5>4. StartsIn(sent, i) = {}  BY <5>3 DEF StartsIn
          <5>5. 0 <= MaxRetries + 1  BY LimitAssumption
          <5> QED  BY <5>4, <5>5, FS_EmptySet DEF AttemptsOf
        <4> QED  BY <4>1, <4>2
      <3> QED  BY <2>1, <3>1 DEF RetriesExhausted, Attempts, GivesUp
    <2> QED  BY <2>3, <2>4 DEF AttemptsAreTold
  <1> QED  BY <1>1, TellsWhatItKnows, PTL

\* An aborted turn has recorded its abort when its channel closes, although a cancellation
\* caused it, and (unless the store fails by itself) keeps exactly the text that its readers
\* were sent of the message in progress.
THEOREM AbortsAreFaithful == Spec => []AbortIsFaithful
  <1>1. TellsInv => AbortIsFaithful
    <2> SUFFICES ASSUME TellsInv, pc = "closed", Sent("turn_aborted")
                 PROVE  /\ ~StoreMayFail => TextInProgress = IF Last(msgs).by = "partial" THEN Last(msgs).text ELSE 0
                        /\ \E k \in DOMAIN uilog : uilog[k].kind = "turn_aborted"
                        /\ \E k \in DOMAIN uilog : uilog[k].info = "turn_aborted"
        BY DEF AbortIsFaithful, AbortKeepsText, AbortIsRecorded
    <2>1. PICK k \in DOMAIN sent : sent[k].kind = "turn_aborted"  BY DEF Sent
    <2>2. Ended /\ EndsWith(sent, FinalKind) /\ k = Len(sent) /\ TextInProgress = partial
        BY <2>1, NothingLeft DEF Terminal
    <2>3. state = "turn_aborted"  BY <2>1, <2>2 DEF EndsWith, FinalKind
    <2>4. todo = <<>>  BY DEF TellsInv, TurnInv, Announced
    <2>5. PICK j \in 1 .. 5 : AbortAt(j)  BY <2>2, <2>3 DEF TellsInv, Aborts, AbortAt
    <2>6. j = 5
      <3>1. iter \in Nat  BY Numbers DEF TellsInv, TurnInv
      <3> QED  BY <2>4, <2>5, <3>1, AbortTail DEF AbortAt
    <2>7. 5 >= 3  OBVIOUS
    <2> QED  BY <2>2, <2>3, <2>5, <2>6, <2>7 DEF AbortAt, TellsInv, Aborts
  <1> QED  BY <1>1, TellsWhatItKnows, PTL
=============================================================================
