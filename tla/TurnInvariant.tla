---------------------------- MODULE TurnInvariant ----------------------------
(***************************************************************************)
(* The inductive invariant behind the safety properties of Turn: what the  *)
(* events still queued may announce, what the conversation looks like at   *)
(* each step of the goroutine, and what may be left on the model stream.   *)
(***************************************************************************)
EXTENDS Turn

-----------------------------------------------------------------------------
(* The queued sends.  A calm queue announces no end of the turn, and only  *)
(* messages that are in the log; a closing queue announces the end once,   *)
(* after calm sends and before nothing but UI-event writes.                *)

Backed(e, log) ==
    e.kind = "message_done" =>
        \E m \in DOMAIN log : log[m] = Msg("agent", e.iter, e.n, 0)

CalmTask(t, log) == t.op = "send" => t.ev.kind \notin Terminal /\ Backed(t.ev, log)

Calm(s, log) ==
    /\ s \in Seq(Task)
    /\ \A k \in DOMAIN s : CalmTask(s[k], log)

OnlyRecords(s) ==
    /\ s \in Seq(Task)
    /\ \A k \in DOMAIN s : s[k].op = "record"

ClosesAt(s, k, kind, log) ==
    /\ s[k].op = "send"
    /\ s[k].ev.kind = kind
    /\ \A j \in 1 .. k - 1 : CalmTask(s[j], log)
    /\ \A j \in k + 1 .. Len(s) : s[j].op = "record"

Closing(s, kind, log) ==
    /\ s \in Seq(Task)
    /\ \E k \in 1 .. Len(s) : ClosesAt(s, k, kind, log)

Quiet(events) == \A k \in DOMAIN events : events[k].kind \notin Terminal

EndsWith(events, kind) ==
    /\ Len(events) > 0
    /\ events[Len(events)].kind = kind
    /\ \A k \in 1 .. Len(events) - 1 : events[k].kind \notin Terminal

FinalKind == IF state = "turn_completed" THEN "turn_complete"
             ELSE IF state = "turn_aborted" THEN "turn_aborted" ELSE "error"

Ended == pc \in {"returned", "closed"}

\* Nothing of the end of the turn is announced before it, and all of it after it.
Announced ==
    /\ ~Ended => Calm(todo, msgs) /\ Quiet(sent)
    /\ pc = "returned" => \/ Closing(todo, FinalKind, msgs) /\ Quiet(sent)
                          \/ OnlyRecords(todo) /\ EndsWith(sent, FinalKind)
    /\ pc = "closed" => todo = <<>> /\ EndsWith(sent, FinalKind)
    /\ \A k \in DOMAIN sent : Backed(sent[k], msgs)

-----------------------------------------------------------------------------
(* The conversation. *)

ModelSpeaksNext == Last(msgs).by \in {"user", "tool"}
Calls == Last(msgs).by = "agent" /\ Last(msgs).calls > 0

\* What the last message is, at each step of the goroutine and after each end.
Shape ==
    /\ Len(msgs) > 0
    /\ ~Ended /\ pc \notin {"tools", "results"} => ModelSpeaksNext
    /\ pc \in {"tools", "results"} =>
          /\ agentMsg \in 1 .. MaxCalls
          /\ Last(msgs) = Msg("agent", iter, agentMsg, 0)
    /\ Ended =>
          /\ state \in {"turn_completed", "turn_aborted", "turn_failed"}
          /\ state = "turn_completed" => Last(msgs).by = "agent" /\ Last(msgs).calls = 0
          /\ state = "turn_aborted" => ModelSpeaksNext \/ Last(msgs).by = "partial"
          /\ state = "turn_failed" => ModelSpeaksNext \/ Calls
    /\ \A m \in DOMAIN msgs : m < Len(msgs) => Answered(m)

-----------------------------------------------------------------------------
(* The model stream. *)

IsChunk(item) == item.kind \in {"text", "thought"}

\* Only the last item of a response is not a chunk, and its goroutine has returned then;
\* outside the loop that reads the stream there is neither.
Response ==
    /\ \A k \in DOMAIN stream : k < Len(stream) => IsChunk(stream[k])
    /\ gen \in {"running", "sending"} => \A k \in DOMAIN stream : IsChunk(stream[k])
    /\ StreamDrained
    /\ pc = "persist" => agentMsg # NoMsg
    /\ pc = "retry" => ticks > 0

\* The inductive invariant.
TurnInv == TypeOK /\ Announced /\ Shape /\ Response

-----------------------------------------------------------------------------
(* The waits, the attempts and the text that readers are told of.  At most  *)
(* one queued send matters to them: it begins or ends a wait, announces a   *)
(* message or brings text.                                                  *)

Matters(e) == e.kind \in WaitKinds \cup {"message_done"} \/ (e.kind = "delta" /\ e.info = "text")

PlainTask(t) == t.op = "send" => ~Matters(t.ev)
Plain(s) == s \in Seq(Task) /\ \A k \in DOMAIN s : PlainTask(s[k])

\* Each wait of s has ended, except for the last one.
Paired(s) ==
    /\ \A k \in DOMAIN s : s[k].kind = "model_wait_finished" => \E j \in 1 .. k : EndsWait(s, j, k)
    /\ \A j \in DOMAIN s : s[j].kind = "model_wait_started" =>
         \/ \E k \in j .. Len(s) : EndsWait(s, j, k)
         \/ \A k \in DOMAIN s : k > j => s[k].kind \notin WaitKinds

NoneWaits(s) ==
    \A j \in DOMAIN s : s[j].kind = "model_wait_started" => \E k \in j .. Len(s) : EndsWait(s, j, k)

Waits(s, i, n) ==
    \E j \in DOMAIN s : /\ s[j].kind = "model_wait_started" /\ s[j].iter = i /\ s[j].n = n
                        /\ \A k \in DOMAIN s : k > j => s[k].kind \notin WaitKinds

\* What has been sent, when nothing queued matters
AllTold ==
    /\ IF pc \in {"call", "stream"} THEN Waits(sent, iter, attempt + 1) ELSE NoneWaits(sent)
    /\ TextInProgress = partial
    /\ pc = "call" => AttemptsOf(iter) = attempt + 1

\* What has been sent before the event e, which is queued
ToldBefore(e) ==
    /\ e.kind \in WaitKinds => e.iter = iter /\ e.n = attempt + 1
    /\ IF e.kind = "model_wait_finished" \/ e.kind = "delta" THEN Waits(sent, iter, attempt + 1)
                                                              ELSE NoneWaits(sent) /\ partial = 0
    /\ e.kind = "model_wait_started" => pc = "call" /\ AttemptsOf(iter) = attempt
    /\ e.kind = "model_wait_finished" =>
         pc \in {"retry", "abort", "noresponse", "persist", "returned"} /\ TextInProgress = partial
    /\ e.kind = "message_done" => pc \in {"tools", "returned"}
    /\ e.kind = "delta" => pc = "stream" /\ TextInProgress + 1 = partial

Told ==
    /\ Paired(sent)
    /\ Plain(todo) => AllTold
    /\ \A k \in DOMAIN todo : ~PlainTask(todo[k]) =>
         ToldBefore(todo[k].ev) /\ \A j \in DOMAIN todo : j # k => PlainTask(todo[j])

\* An error of an unavailable model is told after the last attempt.
GivesUp(e) == e.kind = "error" /\ e.info = "unavailable" => AttemptsOf(e.iter) = MaxRetries + 1

Attempts ==
    /\ attempt <= MaxRetries
    /\ \A k \in DOMAIN sent : sent[k].kind = "model_wait_started" => sent[k].iter <= iter
    /\ \A i \in 0 .. iter : AttemptsOf(i) <= MaxRetries + 1
    /\ pc \in {"start", "history"} => AttemptsOf(iter) = 0
    /\ pc = "attempt" => AttemptsOf(iter) = attempt
    /\ pc \in {"stream", "retry"} => AttemptsOf(iter) = attempt + 1
    /\ pc = "retry" => attempt < MaxRetries
    /\ \A k \in DOMAIN sent : GivesUp(sent[k])
    /\ \A k \in DOMAIN todo : todo[k].op = "send" => GivesUp(todo[k].ev)

\* What the goroutine knows of the message in progress
InProgress ==
    /\ pc \in {"history", "attempt", "call", "stream", "noresponse", "retry", "abort"} => ~msgId
    /\ pc \in {"history", "attempt", "call", "noresponse", "retry", "abort"} => ~pending
    /\ pc = "stream" => gen # "idle"
    /\ pc = "stream" /\ pending => agentMsg # NoMsg /\ stream = <<>> /\ gen = "closed"
    /\ pc \in {"start", "top", "history", "tools", "results"} => partial = 0

\* The queue of an abort, of which each write comes after a send that has seen the cancellation
AbortQueue(k) ==
    LET move == Ev("state_transition", iter, 0, "turn_aborted")
        end == Ev("turn_aborted", iter, 0, "")
    IN  IF k = 1 THEN Emit(move) \o Emit(end)
        ELSE IF k = 2 THEN Record(move) \o Emit(end)
        ELSE IF k = 3 THEN Emit(end)
        ELSE IF k = 4 THEN Record(end) ELSE <<>>

Aborts ==
    /\ pc = "abort" => cancelled
    /\ ~Ended => state # "turn_aborted"
    /\ Ended /\ state = "turn_aborted" =>
         /\ cancelled
         /\ \E k \in 1 .. 5 :
              /\ todo = AbortQueue(k)
              /\ k \in {2, 4} => detached
              /\ k >= 3 => \E l \in DOMAIN uilog : uilog[l].info = "turn_aborted"
              /\ k = 5 => \E l \in DOMAIN uilog : uilog[l].kind = "turn_aborted"
         /\ ~StoreMayFail => partial = IF Last(msgs).by = "partial" THEN Last(msgs).text ELSE 0

\* The inductive invariant with what readers are told
TellsInv == TurnInv /\ Told /\ Attempts /\ InProgress /\ Aborts
=============================================================================
