---------------------------- MODULE ThreadsProofs ----------------------------
(***************************************************************************)
(* Proofs about Threads, for any number of threads, of calls that await    *)
(* them, of messages and of failures: what a thread reads of its parent,   *)
(* and what the store, the timeline and await_thread say of its outcome.   *)
(***************************************************************************)
EXTENDS Threads, SequenceTheorems, TLAPS

Conversations == Spawns \cup {Parent}
Outcomes == {"completed", "failed"}
Message == [by : {"user", "agent"}, arch : BOOLEAN]
Row == [there : {TRUE}, head : Nat, status : {"none", "running"} \cup Outcomes]

\* The states of a spawn_thread call and of the goroutine of its thread
Reading == {"anchor", "history", "model", "outcome", "update"}
Driven == {"create", "spawned", "started", "task"} \cup Reading
Busy == [at : Driven \cup {"refused"}, anchor : Nat, full : BOOLEAN, blocking : BOOLEAN,
         cancelled : BOOLEAN, outcome : {"none"} \cup Outcomes]
Ended == [at : {"done", "dead"}, outcome : {"none"} \cup Outcomes]
Unborn == [at |-> "none"]

Polling == [at : {"polls"}, of : Spawns, blocking : BOOLEAN, cancelled : BOOLEAN]
Returned == [at : {"returned"}, of : Spawns, answer : {"none", "running", "error"} \cup Outcomes]

TypeOK ==
    /\ rows \in [Conversations -> {NoRow} \cup Row]
    /\ transcript \in [Conversations -> Seq(Message)]
    /\ run \in [Spawns -> {Unborn} \cup Busy \cup Ended]
    /\ noted \in [Spawns -> Seq({"spawned", "started", "none"} \cup Outcomes)]
    /\ prefix \in [Spawns -> SUBSET Nat] /\ given \in [Spawns -> SUBSET Nat]
    /\ await \in [Awaiters -> {Silent} \cup Polling \cup Returned]
    /\ copied \in [of : Conversations, row : {NoRow} \cup Row]
    /\ doomed \subseteq Conversations /\ patches \in Nat /\ failures \in Nat

-----------------------------------------------------------------------------
(* The invariant. *)

\* The parent's head is one of its messages, also in a row that is to be written back.
ParentKept ==
    /\ ~rows[Parent].there => transcript[Parent] = <<>>
    /\ rows[Parent].there => rows[Parent].head <= Len(transcript[Parent])
    /\ rows[Parent].there /\ copied # NoCopy /\ copied.of = Parent =>
         copied.row.there /\ copied.row.head <= Len(transcript[Parent])

\* A message before the anchor is archived together with all that follow it, the anchor too.
PrefixSound(t) ==
    run[t].at \in Driven /\ rows[Parent].there =>
        /\ run[t].anchor <= Len(transcript[Parent])
        /\ \/ Active(Parent, run[t].anchor) = prefix[t]
           \/ /\ BeginsAs(Active(Parent, run[t].anchor), prefix[t])
              /\ run[t].anchor # 0 /\ transcript[Parent][run[t].anchor].arch

\* What a thread has read of its parent
GivenSound(t) ==
    given[t] # {} =>
        /\ run[t].at \in Reading /\ run[t].anchor # 0
        /\ \/ given[t] = prefix[t]
           \/ /\ BeginsAs(given[t], prefix[t])
              /\ rows[Parent].there => transcript[Parent][run[t].anchor].arch

\* A row has the outcome of its thread once the goroutine has ended.
OutcomeSound(t) ==
    /\ run[t].at \in {"outcome", "update", "done"} => run[t].outcome \in Outcomes
    /\ run[t].at \in {"none", "create", "refused"} => ~rows[t].there
    /\ rows[t].there => \/ rows[t].status = "running"
                        \/ run[t].at = "done" /\ rows[t].status = run[t].outcome
    /\ copied.of = t => /\ copied.row.there
                        /\ \/ copied.row.status = "running"
                           \/ run[t].at = "done" /\ copied.row.status = run[t].outcome
    /\ run[t].at = "done" /\ rows[t].there /\ failures = 0 /\ patches = 0 => rows[t].status = run[t].outcome

\* What the parent's timeline has of a thread while nothing has failed
NotedSound(t) ==
    failures = 0 /\ rows[Parent].there =>
        /\ run[t].at \in {"none", "create", "spawned"} => noted[t] = <<>>
        /\ run[t].at = "started" => noted[t] = <<"spawned">>
        /\ run[t].at \in {"task", "anchor", "history", "model", "outcome"} => noted[t] = <<"spawned", "started">>
        /\ run[t].at \in {"update", "done"} => noted[t] = <<"spawned", "started", run[t].outcome>>

ThreadSound(t) == PrefixSound(t) /\ GivenSound(t) /\ OutcomeSound(t) /\ NotedSound(t)

AnswersKept ==
    \A a \in Awaiters : await[a].at = "returned" /\ await[a].answer \in Outcomes =>
        run[await[a].of].at = "done" /\ run[await[a].of].outcome = await[a].answer

CopiesCounted == patches = 0 => copied.of = Parent

ThreadsInv == TypeOK /\ ParentKept /\ (\A t \in Spawns : ThreadSound(t)) /\ AnswersKept /\ CopiesCounted

-----------------------------------------------------------------------------
(* Types. *)

USE DEF Outcomes, Reading, Driven

LEMMA RunTyped ==
    ASSUME TypeOK, NEW t \in Spawns, NEW state \in {Unborn} \cup Busy \cup Ended, RunTo(t, state)
    PROVE  /\ run' \in [Spawns -> {Unborn} \cup Busy \cup Ended]
           /\ run'[t] = state /\ \A u \in Spawns \ {t} : run'[u] = run[u]
  BY DEF TypeOK, RunTo

\* A call or goroutine that is under way is Busy.
LEMMA BusyStates ==
    ASSUME TypeOK, NEW t \in Spawns
    PROVE  /\ run[t].at \in Driven \cup {"refused"} <=> run[t] \in Busy
           /\ run[t].at = "none" <=> run[t] = Unborn
           /\ run[t].at \in {"done", "dead"} <=> run[t] \in Ended
           /\ run[t].at \in Driven \cup {"refused", "none", "done", "dead"}
  BY DEF TypeOK, Busy, Ended, Unborn

LEMMA AwaitStates ==
    ASSUME NEW s \in {Silent} \cup Polling \cup Returned
    PROVE  (s.at = "polls" => s \in Polling) /\ (s.at = "returned" => s \in Returned)
  BY DEF Silent, Polling, Returned

LEMMA RowStates ==
    ASSUME NEW row \in {NoRow} \cup Row
    PROVE  /\ row.there <=> row \in Row
           /\ row.there => row.status \in {"none", "running"} \cup Outcomes /\ row.head \in Nat
  <1>1. CASE row = NoRow
    <2>1. row.there = FALSE  BY <1>1 DEF NoRow
    <2>2. row \notin Row  BY <2>1 DEF Row
    <2> QED  BY <2>1, <2>2
  <1>2. CASE row \in Row  BY <1>2 DEF Row
  <1> QED  BY <1>1, <1>2

LEMMA MovesTyped ==
    ASSUME TypeOK, NEW t \in Spawns, run[t].at \in Driven, NEW at \in Driven \cup {"refused"}
    PROVE  /\ [run[t] EXCEPT !.at = at] \in Busy
           /\ [run[t] EXCEPT !.at = at].at = at
           /\ [run[t] EXCEPT !.at = at].anchor = run[t].anchor
           /\ [run[t] EXCEPT !.at = at].outcome = run[t].outcome
           /\ [run[t] EXCEPT !.at = "outcome", !.outcome = "failed"] \in Busy
           /\ [run[t] EXCEPT !.at = "outcome", !.outcome = "failed"].at = "outcome"
           /\ [run[t] EXCEPT !.at = "outcome", !.outcome = "failed"].anchor = run[t].anchor
           /\ [run[t] EXCEPT !.at = "outcome", !.outcome = "failed"].outcome = "failed"
           /\ [run[t] EXCEPT !.at = "outcome", !.outcome = "completed"] \in Busy
           /\ [run[t] EXCEPT !.at = "outcome", !.outcome = "completed"].at = "outcome"
           /\ [run[t] EXCEPT !.at = "outcome", !.outcome = "completed"].anchor = run[t].anchor
           /\ [run[t] EXCEPT !.at = "outcome", !.outcome = "completed"].outcome = "completed"
  <1>1. run[t] \in Busy  BY BusyStates
  <1> QED  BY <1>1 DEF Busy

LEMMA MovesTo ==
    ASSUME TypeOK, NEW t \in Spawns, run[t].at \in Driven, NEW at \in Driven \cup {"refused"}, Moves(t, at)
    PROVE  /\ run'[t].at = at /\ run'[t].anchor = run[t].anchor /\ run'[t].outcome = run[t].outcome
           /\ \A u \in Spawns \ {t} : run'[u] = run[u]
  <1> DEFINE next == [run[t] EXCEPT !.at = at]
  <1>1. RunTo(t, next) /\ next \in Busy /\ next.at = at /\ next.anchor = run[t].anchor /\ next.outcome = run[t].outcome
      BY MovesTyped DEF Moves
  <1> HIDE DEF next
  <1> QED  BY <1>1, RunTyped

LEMMA FailsTo ==
    ASSUME TypeOK, NEW t \in Spawns, run[t].at \in Driven, ChildFails(t)
    PROVE  /\ run'[t].at = "outcome" /\ run'[t].anchor = run[t].anchor /\ run'[t].outcome = "failed"
           /\ \A u \in Spawns \ {t} : run'[u] = run[u]
  <1> DEFINE next == [run[t] EXCEPT !.at = "outcome", !.outcome = "failed"]
  <1>1. /\ RunTo(t, next) /\ next \in Busy /\ next.at = "outcome" /\ next.anchor = run[t].anchor
        /\ next.outcome = "failed"
      BY MovesTyped DEF ChildFails
  <1> HIDE DEF next
  <1> QED  BY <1>1, RunTyped

LEMMA AppendTyped ==
    ASSUME TypeOK, NEW c \in Conversations, NEW by \in {"user", "agent"}, AppendMessage(c, by)
    PROVE  /\ rows' \in [Conversations -> {NoRow} \cup Row]
           /\ transcript' \in [Conversations -> Seq(Message)]
           /\ rows[c].there /\ rows'[c] = [rows[c] EXCEPT !.head = Len(transcript[c]) + 1]
           /\ rows'[c].there /\ rows'[c].status = rows[c].status /\ rows'[c].head = Len(transcript[c]) + 1
           /\ Len(transcript'[c]) = Len(transcript[c]) + 1
           /\ \A i \in 1 .. Len(transcript[c]) : transcript'[c][i] = transcript[c][i]
           /\ ~transcript'[c][Len(transcript[c]) + 1].arch
           /\ \A d \in Conversations \ {c} : rows'[d] = rows[d] /\ transcript'[d] = transcript[d]
  <1> DEFINE m == [by |-> by, arch |-> FALSE]
  <1>1. transcript[c] \in Seq(Message) /\ m \in Message  BY DEF TypeOK, Message
  <1>2. /\ Append(transcript[c], m) \in Seq(Message)
        /\ Len(Append(transcript[c], m)) = Len(transcript[c]) + 1
        /\ \A i \in 1 .. Len(transcript[c]) : Append(transcript[c], m)[i] = transcript[c][i]
        /\ Append(transcript[c], m)[Len(transcript[c]) + 1] = m
      BY <1>1, AppendProperties
  <1>3. /\ transcript'[c] = Append(transcript[c], m) /\ transcript' \in [Conversations -> Seq(Message)]
        /\ \A d \in Conversations \ {c} : transcript'[d] = transcript[d]
      BY <1>2 DEF AppendMessage, TypeOK
  <1>4. rows[c] \in Row /\ rows[c].there  BY DEF AppendMessage, TypeOK, NoRow
  <1>5. Len(transcript[c]) + 1 \in Nat  BY <1>1
  <1>6. [rows[c] EXCEPT !.head = Len(transcript[c]) + 1] \in Row  BY <1>4, <1>5 DEF Row
  <1>7. /\ rows'[c] = [rows[c] EXCEPT !.head = Len(transcript[c]) + 1]
        /\ \A d \in Conversations \ {c} : rows'[d] = rows[d]
        /\ rows' \in [Conversations -> {NoRow} \cup Row]
      BY <1>6 DEF AppendMessage, TypeOK
  <1>8. rows'[c].there /\ rows'[c].status = rows[c].status /\ rows'[c].head = Len(transcript[c]) + 1
      BY <1>4, <1>5, <1>7 DEF Row
  <1> QED  BY <1>2, <1>3, <1>4, <1>7, <1>8

LEMMA InitTyped == ThreadInit => TypeOK
  <1> SUFFICES ASSUME ThreadInit PROVE TypeOK  OBVIOUS
  <1>1. rows \in [Conversations -> {NoRow} \cup Row]
    <2>1. [there |-> TRUE, head |-> 2, status |-> "none"] \in Row  BY DEF Row
    <2> QED  BY <2>1 DEF ThreadInit, Conversations
  <1>2. transcript \in [Conversations -> Seq(Message)]
    <2> DEFINE first == <<[by |-> "user", arch |-> FALSE], [by |-> "agent", arch |-> FALSE]>>
    <2>1. first \in Seq(Message) /\ <<>> \in Seq(Message)  BY EmptySeq DEF Message
    <2> HIDE DEF first
    <2>2. transcript = [c \in Conversations |-> IF c = Parent THEN first ELSE <<>>]
        BY DEF ThreadInit, Conversations, first
    <2> QED  BY <2>1, <2>2
  <1>3. copied \in [of : Conversations, row : {NoRow} \cup Row] /\ patches \in Nat
    <2> DEFINE first == [there |-> TRUE, head |-> 0, status |-> "none"]
    <2>1. first \in Row  BY DEF Row
    <2> HIDE DEF first
    <2>2. \/ copied = [of |-> Parent, row |-> NoRow] /\ patches = 0
          \/ copied = [of |-> Parent, row |-> first] /\ patches = MaxPatches
        BY DEF ThreadInit, NoCopy, first
    <2> QED  BY <2>1, <2>2, ThreadsAssumption DEF Conversations
  <1>4. run \in [Spawns -> {Unborn} \cup Busy \cup Ended]  BY DEF ThreadInit, Unborn
  <1>5. noted \in [Spawns -> Seq({"spawned", "started", "none"} \cup Outcomes)]
    <2>1. <<>> \in Seq({"spawned", "started", "none"} \cup Outcomes)  BY EmptySeq
    <2> QED  BY <2>1 DEF ThreadInit
  <1> QED  BY <1>1, <1>2, <1>3, <1>4, <1>5 DEF ThreadInit, TypeOK

LEMMA ShortSequences ==
    ASSUME NEW a, NEW b, NEW c
    PROVE  /\ Append(<<>>, a) = <<a>> /\ Append(<<a>>, b) = <<a, b>>
           /\ Append(<<a, b>>, c) = <<a, b, c>>
  <1> DEFINE S == {a, b, c}
  <1>1. <<>> \in Seq(S) /\ <<a>> \in Seq(S) /\ <<a, b>> \in Seq(S) /\ <<a, b, c>> \in Seq(S)  OBVIOUS
  <1>2. Append(<<>>, a) = <<a>>  BY <1>1, AppendProperties, SeqEqual
  <1>3. Append(<<a>>, b) = <<a, b>>
    <2>1. Append(<<a>>, b) \in Seq(S) /\ Len(Append(<<a>>, b)) = 2  BY <1>1, AppendProperties
    <2>2. Append(<<a>>, b)[1] = a /\ Append(<<a>>, b)[2] = b  BY <1>1, AppendProperties
    <2>3. \A i \in 1 .. 2 : Append(<<a>>, b)[i] = <<a, b>>[i]
      <3>1. \A i \in 1 .. 2 : i = 1 \/ i = 2  OBVIOUS
      <3>2. <<a, b>>[1] = a /\ <<a, b>>[2] = b  OBVIOUS
      <3> QED  BY <2>2, <3>1, <3>2
    <2>4. Len(<<a, b>>) = 2  OBVIOUS
    <2> QED  BY <1>1, <2>1, <2>3, <2>4, SeqEqual
  <1>4. Append(<<a, b>>, c) = <<a, b, c>>
    <2>1. Append(<<a, b>>, c) \in Seq(S) /\ Len(Append(<<a, b>>, c)) = 3  BY <1>1, AppendProperties
    <2>2. Append(<<a, b>>, c)[1] = a /\ Append(<<a, b>>, c)[2] = b /\ Append(<<a, b>>, c)[3] = c
        BY <1>1, AppendProperties
    <2>3. \A i \in 1 .. 3 : Append(<<a, b>>, c)[i] = <<a, b, c>>[i]
      <3>1. \A i \in 1 .. 3 : i = 1 \/ i = 2 \/ i = 3  OBVIOUS
      <3>2. <<a, b, c>>[1] = a /\ <<a, b, c>>[2] = b /\ <<a, b, c>>[3] = c  OBVIOUS
      <3> QED  BY <2>2, <3>1, <3>2
    <2>4. Len(<<a, b, c>>) = 3  OBVIOUS
    <2> QED  BY <1>1, <2>1, <2>3, <2>4, SeqEqual
  <1> QED  BY <1>2, <1>3, <1>4

LEMMA NoteTyped ==
    ASSUME TypeOK, NEW t \in Spawns, NEW status \in {"spawned", "started", "none"} \cup Outcomes, Note(t, status)
    PROVE  noted' \in [Spawns -> Seq({"spawned", "started", "none"} \cup Outcomes)] /\ failures' \in Nat
  <1>1. Append(noted[t], status) \in Seq({"spawned", "started", "none"} \cup Outcomes)
    <2>1. noted[t] \in Seq({"spawned", "started", "none"} \cup Outcomes)  BY DEF TypeOK
    <2> QED  BY <2>1, AppendProperties
  <1>2. CASE noted' = [noted EXCEPT ![t] = Append(@, status)] /\ UNCHANGED failures
      BY <1>1, <1>2 DEF TypeOK
  <1>3. CASE UNCHANGED noted /\ failures' \in Nat  BY <1>3 DEF TypeOK
  <1> QED  BY <1>2, <1>3 DEF Note, Breaks, TypeOK

LEMMA SpawnTyped == ASSUME TypeOK, \A u \in Spawns : OutcomeSound(u), NEW t \in Spawns, SpawnStep(t) PROVE TypeOK'
  <1>1. CASE CreateThread(t)
    <2>1. run[t].at \in Driven  BY <1>1 DEF CreateThread
    <2>2. run' \in [Spawns -> {Unborn} \cup Busy \cup Ended]
        BY <1>1, <2>1, MovesTyped, RunTyped DEF CreateThread, Moves
    <2>3. [there |-> TRUE, head |-> 0, status |-> "running"] \in Row  BY DEF Row
    <2>4. rows' \in [Conversations -> {NoRow} \cup Row]  BY <1>1, <2>3 DEF CreateThread, TypeOK
    <2> QED  BY <1>1, <2>2, <2>4 DEF CreateThread, Breaks, TypeOK, historyVars, requestVars
  <1>2. CASE Announce(t)
    <2>1. run[t] \in Busy /\ run[t].at \in Driven  BY <1>2, BusyStates DEF Announce
    <2>2. [run[t] EXCEPT !.at = "task", !.cancelled = @ /\ run[t].blocking] \in Busy  BY <2>1 DEF Busy
    <2>3. run' \in [Spawns -> {Unborn} \cup Busy \cup Ended]
        BY <1>2, <2>1, <2>2, MovesTyped, RunTyped DEF Announce, Moves
    <2>4. noted' \in [Spawns -> Seq({"spawned", "started", "none"} \cup Outcomes)] /\ failures' \in Nat
        BY <1>2, NoteTyped DEF Announce
    <2> QED  BY <1>2, <2>3, <2>4 DEF Announce, TypeOK, storeVars, historyVars, requestVars
  <1>3. CASE AppendTask(t)
    <2>1. run[t].at \in Driven  BY <1>3 DEF AppendTask
    <2>2. run' \in [Spawns -> {Unborn} \cup Busy \cup Ended]
        BY <1>3, <2>1, MovesTyped, RunTyped DEF AppendTask, Moves, ChildFails
    <2>3. /\ rows' \in [Conversations -> {NoRow} \cup Row] /\ transcript' \in [Conversations -> Seq(Message)]
          /\ failures' \in Nat
      <3>1. t \in Conversations  BY DEF Conversations
      <3>2. CASE AppendMessage(t, "user") /\ UNCHANGED failures  BY <3>1, <3>2, AppendTyped DEF TypeOK
      <3>3. CASE UNCHANGED storeVars /\ failures' \in Nat  BY <3>3 DEF TypeOK, storeVars
      <3> QED  BY <1>3, <3>2, <3>3 DEF AppendTask, Breaks, TypeOK
    <2> QED  BY <1>3, <2>2, <2>3 DEF AppendTask, TypeOK, historyVars, requestVars
  <1>4. CASE FindAnchor(t)
    <2>1. run[t].at \in Driven  BY <1>4 DEF FindAnchor
    <2>2. run' \in [Spawns -> {Unborn} \cup Busy \cup Ended]
        BY <1>4, <2>1, MovesTyped, RunTyped DEF FindAnchor, Moves, ChildFails
    <2> QED  BY <1>4, <2>2 DEF FindAnchor, Breaks, TypeOK, storeVars, historyVars, requestVars
  <1>5. CASE ReadChain(t)
    <2>1. run[t].at \in Driven  BY <1>5 DEF ReadChain
    <2>2. run' \in [Spawns -> {Unborn} \cup Busy \cup Ended]
        BY <1>5, <2>1, MovesTyped, RunTyped DEF ReadChain, Moves, ChildFails
    <2>3. ChainOf(t) \subseteq Nat
      <3>1. transcript[Parent] \in Seq(Message)  BY DEF TypeOK, Conversations
      <3> QED  BY <3>1 DEF ChainOf, Active
    <2>4. given' \in [Spawns -> SUBSET Nat]  BY <1>5, <2>3 DEF ReadChain, TypeOK
    <2> QED  BY <1>5, <2>2, <2>4 DEF ReadChain, Breaks, TypeOK, storeVars, requestVars
  <1>6. CASE ModelAnswers(t)
    <2>1. run[t].at \in Driven  BY <1>6 DEF ModelAnswers
    <2>2. run' \in [Spawns -> {Unborn} \cup Busy \cup Ended]
        BY <1>6, <2>1, MovesTyped, RunTyped DEF ModelAnswers, Moves, ChildFails
    <2>3. rows' \in [Conversations -> {NoRow} \cup Row] /\ transcript' \in [Conversations -> Seq(Message)]
        BY <1>6, AppendTyped DEF ModelAnswers, TypeOK, storeVars, Conversations
    <2> QED  BY <1>6, <2>2, <2>3 DEF ModelAnswers, TypeOK, historyVars, requestVars
  <1>7. CASE NoteOutcome(t)
    <2>1. run[t].at \in Driven /\ run[t] \in Busy  BY <1>7, BusyStates DEF NoteOutcome
    <2>2. run' \in [Spawns -> {Unborn} \cup Busy \cup Ended]
        BY <1>7, <2>1, MovesTyped, RunTyped DEF NoteOutcome, Moves
    <2>3. run[t].outcome \in {"spawned", "started", "none"} \cup Outcomes  BY <2>1 DEF Busy
    <2>4. noted' \in [Spawns -> Seq({"spawned", "started", "none"} \cup Outcomes)] /\ failures' \in Nat
        BY <1>7, <2>3, NoteTyped DEF NoteOutcome
    <2> QED  BY <1>7, <2>2, <2>4 DEF NoteOutcome, TypeOK, storeVars, historyVars, requestVars
  <1>8. CASE StoreOutcome(t)
    <2>1. run[t] \in Busy /\ run[t].outcome \in Outcomes
        BY <1>8, BusyStates DEF StoreOutcome, OutcomeSound
    <2>2. [at |-> "done", outcome |-> run[t].outcome] \in Ended  BY <2>1 DEF Ended
    <2>3. run' \in [Spawns -> {Unborn} \cup Busy \cup Ended]  BY <1>8, <2>2, RunTyped DEF StoreOutcome
    <2>4. rows' \in [Conversations -> {NoRow} \cup Row]
      <3>1. rows[t].there => [rows[t] EXCEPT !.status = run[t].outcome, !.head = 0] \in Row
        <4>1. rows[t].there => rows[t] \in Row  BY DEF TypeOK, NoRow, Conversations
        <4> QED  BY <2>1, <4>1 DEF Row
      <3> QED  BY <1>8, <3>1 DEF StoreOutcome, TypeOK
    <2>5. prefix' \in [Spawns -> SUBSET Nat] /\ given' \in [Spawns -> SUBSET Nat]  BY <1>8 DEF StoreOutcome, TypeOK
    <2> QED  BY <1>8, <2>3, <2>4, <2>5 DEF StoreOutcome, Breaks, TypeOK, requestVars
  <1> QED  BY <1>1, <1>2, <1>3, <1>4, <1>5, <1>6, <1>7, <1>8 DEF SpawnStep

LEMMA ResolveTyped ==
    ASSUME TypeOK, NEW t \in Spawns, NEW full \in BOOLEAN, NEW blocking \in BOOLEAN, ResolveAnchor(t, full, blocking)
    PROVE  TypeOK'
  <1>1. PICK head \in 0 .. MaxParent, anchor \in 0 .. MaxParent :
            /\ RunTo(t, [at |-> "create", anchor |-> anchor, full |-> full, blocking |-> blocking,
                         cancelled |-> FALSE, outcome |-> "none"])
            /\ prefix' = [prefix EXCEPT ![t] = Active(Parent, anchor)]
      BY DEF ResolveAnchor
  <1>2. [at |-> "create", anchor |-> anchor, full |-> full, blocking |-> blocking,
         cancelled |-> FALSE, outcome |-> "none"] \in Busy
      BY ThreadsAssumption DEF Busy
  <1>3. run' \in [Spawns -> {Unborn} \cup Busy \cup Ended]  BY <1>1, <1>2, RunTyped
  <1>4. Active(Parent, anchor) \subseteq Nat
    <2>1. transcript[Parent] \in Seq(Message)  BY DEF TypeOK, Conversations
    <2> QED  BY <2>1 DEF Active
  <1>5. prefix' \in [Spawns -> SUBSET Nat]  BY <1>1, <1>4 DEF TypeOK
  <1>6. failures' \in Nat  BY DEF ResolveAnchor, Breaks, TypeOK
  <1> QED  BY <1>3, <1>5, <1>6 DEF ResolveAnchor, TypeOK, storeVars, requestVars

LEMMA AwaitTyped ==
    ASSUME TypeOK, NEW a \in Awaiters,
           \/ PollStatus(a)
           \/ \E t \in Spawns, blocking \in BOOLEAN : BeginAwait(a, t, blocking)
    PROVE  TypeOK'
  <1>1. CASE PollStatus(a)
    <2>1. await[a] \in Polling
      <3>1. await[a].at = "polls" /\ await[a] \in {Silent} \cup Polling \cup Returned
          BY <1>1 DEF PollStatus, TypeOK
      <3> QED  BY <3>1, AwaitStates
    <2>2. rows[await[a].of] \in {NoRow} \cup Row  BY <2>1 DEF TypeOK, Polling, Conversations
    <2>3. \A what \in {"none", "running", "error"} \cup Outcomes :
            [at |-> "returned", of |-> await[a].of, answer |-> what] \in Returned
        BY <2>1 DEF Polling, Returned
    <2>4. rows[await[a].of].there => rows[await[a].of].status \in {"none", "running", "error"} \cup Outcomes
        BY <2>2, RowStates
    <2>5. await' \in [Awaiters -> {Silent} \cup Polling \cup Returned]
      <3>1. PICK what \in {"none", "running", "error"} \cup Outcomes :
                await' = [await EXCEPT ![a] = [at |-> "returned", of |-> await[a].of, answer |-> what]]
          BY <1>1, <2>4 DEF PollStatus, Answers
      <3> QED  BY <2>3, <3>1 DEF TypeOK
    <2>6. failures' \in Nat  BY <1>1 DEF PollStatus, Breaks, TypeOK
    <2> QED  BY <1>1, <2>5, <2>6 DEF PollStatus, TypeOK, storeVars, historyVars, requestVars
  <1>2. ASSUME NEW t \in Spawns, NEW blocking \in BOOLEAN, BeginAwait(a, t, blocking) PROVE TypeOK'
    <2>1. [at |-> "polls", of |-> t, blocking |-> blocking, cancelled |-> FALSE] \in Polling  BY DEF Polling
    <2>2. await' \in [Awaiters -> {Silent} \cup Polling \cup Returned]
        BY <1>2, <2>1 DEF BeginAwait, TypeOK
    <2> QED  BY <1>2, <2>2 DEF BeginAwait, TypeOK, storeVars, historyVars, requestVars
  <1> QED  BY <1>1, <1>2

\* A branch archives the messages after one of the user's.
LEMMA BranchTyped ==
    ASSUME TypeOK, NEW m \in 1 .. MaxParent, BranchParent(m)
    PROVE  /\ TypeOK' /\ m \in 1 .. Len(transcript[Parent])
           /\ Len(transcript'[Parent]) = Len(transcript[Parent])
           /\ \A i \in 1 .. Len(transcript[Parent]) :
                transcript'[Parent][i].arch <=> i > m \/ transcript[Parent][i].arch
           /\ rows[Parent] \in Row => rows'[Parent] = [rows[Parent] EXCEPT !.head = m]
           /\ \A c \in Spawns : rows'[c] = rows[c] /\ transcript'[c] = transcript[c]
  <1> DEFINE s == transcript[Parent]
             b == [i \in DOMAIN s |-> IF i > m THEN [s[i] EXCEPT !.arch = TRUE] ELSE s[i]]
  <1>1. s \in Seq(Message) /\ DOMAIN s = 1 .. Len(s) /\ Len(s) \in Nat  BY DEF TypeOK, Conversations
  <1>2. m \in 1 .. Len(s) /\ m \in Nat  BY <1>1, ThreadsAssumption DEF BranchParent
  <1>3. \A i \in 1 .. Len(s) : b[i] \in Message /\ (b[i].arch <=> i > m \/ s[i].arch)
    <2> SUFFICES ASSUME NEW i \in 1 .. Len(s) PROVE b[i] \in Message /\ (b[i].arch <=> i > m \/ s[i].arch)  OBVIOUS
    <2>1. s[i] \in Message  BY <1>1, ElementOfSeq
    <2>2. b[i] = IF i > m THEN [s[i] EXCEPT !.arch = TRUE] ELSE s[i]  BY <1>1
    <2>3. s[i].arch \in BOOLEAN /\ [s[i] EXCEPT !.arch = TRUE] \in Message /\ [s[i] EXCEPT !.arch = TRUE].arch = TRUE
        BY <2>1 DEF Message
    <2>4. CASE i > m  BY <2>2, <2>3, <2>4
    <2>5. CASE ~(i > m)  BY <2>1, <2>2, <2>5
    <2> QED  BY <2>4, <2>5
  <1>4. b \in [1 .. Len(s) -> Message]  BY <1>1, <1>3
  <1>5. b \in Seq(Message) /\ Len(b) = Len(s)  BY <1>1, <1>4, SeqDef
  <1>6. transcript' = [transcript EXCEPT ![Parent] = b]  BY DEF BranchParent
  <1> HIDE DEF b
  <1>7. transcript'[Parent] = b /\ transcript' \in [Conversations -> Seq(Message)]
        /\ \A c \in Spawns : transcript'[c] = transcript[c]
      BY <1>5, <1>6, ThreadsAssumption DEF TypeOK, Conversations
  <1>8. rows' = [rows EXCEPT ![Parent].head = m]  BY DEF BranchParent
  <1>9. rows[Parent] \in {NoRow} \cup Row  BY DEF TypeOK, Conversations
  <1>10. [rows[Parent] EXCEPT !.head = m] \in {NoRow} \cup Row
    <2>1. CASE rows[Parent] = NoRow
      <3>1. [rows[Parent] EXCEPT !.head = m] = NoRow  BY <2>1 DEF NoRow
      <3> QED  BY <3>1
    <2>2. CASE rows[Parent] \in Row  BY <1>2, <2>2 DEF Row
    <2> QED  BY <1>9, <2>1, <2>2
  <1>11. /\ rows' \in [Conversations -> {NoRow} \cup Row] /\ rows'[Parent] = [rows[Parent] EXCEPT !.head = m]
         /\ \A c \in Spawns : rows'[c] = rows[c]
      BY <1>8, <1>10, ThreadsAssumption DEF TypeOK, Conversations
  <1>12. TypeOK'  BY <1>7, <1>11 DEF BranchParent, TypeOK, historyVars, requestVars
  <1> QED  BY <1>1, <1>2, <1>3, <1>5, <1>7, <1>11, <1>12

LEMMA UsersTyped ==
    ASSUME TypeOK,
           \/ \E by \in {"user", "agent"} : ParentAppends(by)
           \/ \E c \in Spawns \cup {Parent} : ReadRow(c) \/ BeginDelete(c) \/ DeleteRow(c)
           \/ WriteRow \/ DeleteFails \/ CancelTurn \/ ServerDies
    PROVE  TypeOK'
  <1>1. ASSUME NEW by \in {"user", "agent"}, ParentAppends(by) PROVE TypeOK'
    <2>1. rows' \in [Conversations -> {NoRow} \cup Row] /\ transcript' \in [Conversations -> Seq(Message)]
        BY <1>1, AppendTyped DEF ParentAppends, Conversations
    <2> QED  BY <1>1, <2>1 DEF ParentAppends, TypeOK, historyVars, requestVars
  <1>2. ASSUME NEW c \in Conversations, ReadRow(c) PROVE TypeOK'
    <2>1. copied' \in [of : Conversations, row : {NoRow} \cup Row]  BY <1>2 DEF ReadRow, TypeOK
    <2> QED  BY <1>2, <2>1 DEF ReadRow, TypeOK, storeVars, historyVars
  <1>3. ASSUME NEW c \in Conversations, BeginDelete(c) PROVE TypeOK'
      BY <1>3 DEF BeginDelete, TypeOK, Conversations, storeVars, historyVars
  <1>4. ASSUME NEW c \in Conversations, DeleteRow(c) PROVE TypeOK'
    <2>1. <<>> \in Seq(Message) /\ <<>> \in Seq({"spawned", "started", "none"} \cup Outcomes)  BY EmptySeq
    <2>2. noted' \in [Spawns -> Seq({"spawned", "started", "none"} \cup Outcomes)]
        BY <1>4, <2>1 DEF DeleteRow, TypeOK
    <2>3. transcript' \in [Conversations -> Seq(Message)]  BY <1>4, <2>1 DEF DeleteRow, TypeOK
    <2> QED  BY <1>4, <2>2, <2>3 DEF DeleteRow, TypeOK, historyVars
  <1>5. CASE WriteRow
    <2>1. rows' \in [Conversations -> {NoRow} \cup Row]  BY <1>5 DEF WriteRow, TypeOK
    <2>2. copied' \in [of : Conversations, row : {NoRow} \cup Row]  BY <1>5 DEF WriteRow, NoCopy, Conversations
    <2> QED  BY <1>5, <2>1, <2>2 DEF WriteRow, TypeOK, historyVars
  <1>6. CASE DeleteFails  BY <1>6 DEF DeleteFails, Breaks, TypeOK, storeVars, historyVars
  <1>7. CASE CancelTurn
    <2>1. \A t \in Spawns : run[t].at \in Driven => [run[t] EXCEPT !.cancelled = TRUE] \in Busy
      <3>1. \A t \in Spawns : run[t].at \in Driven => run[t] \in Busy  BY BusyStates
      <3> QED  BY <3>1 DEF Busy
    <2>2. run' \in [Spawns -> {Unborn} \cup Busy \cup Ended]
      <3> SUFFICES ASSUME NEW t \in Spawns PROVE run'[t] \in {Unborn} \cup Busy \cup Ended
          BY <1>7 DEF CancelTurn
      <3>1. run[t] \in {Unborn} \cup Busy \cup Ended  BY DEF TypeOK
      <3>2. run'[t] = run[t] \/ (run[t].at \in Driven /\ run'[t] = [run[t] EXCEPT !.cancelled = TRUE])
          BY <1>7, BusyStates DEF CancelTurn
      <3> QED  BY <2>1, <3>1, <3>2
    <2>3. await' \in [Awaiters -> {Silent} \cup Polling \cup Returned]
      <3> SUFFICES ASSUME NEW a \in Awaiters PROVE await'[a] \in {Silent} \cup Polling \cup Returned
          BY <1>7 DEF CancelTurn
      <3>1. await[a] \in {Silent} \cup Polling \cup Returned  BY DEF TypeOK
      <3>2. await[a].at = "polls" => await[a] \in Polling  BY <3>1, AwaitStates
      <3>3. await[a].at = "polls" => [await[a] EXCEPT !.cancelled = TRUE] \in Polling  BY <3>2 DEF Polling
      <3>4. await'[a] = IF await[a].at = "polls" THEN [await[a] EXCEPT !.cancelled = TRUE] ELSE await[a]
          BY <1>7 DEF CancelTurn
      <3> QED  BY <3>1, <3>3, <3>4
    <2> QED  BY <1>7, <2>2, <2>3 DEF CancelTurn, TypeOK, storeVars, historyVars, requestVars
  <1>8. CASE ServerDies
    <2>1. run' \in [Spawns -> {Unborn} \cup Busy \cup Ended]
      <3> SUFFICES ASSUME NEW t \in Spawns PROVE run'[t] \in {Unborn} \cup Busy \cup Ended
          BY <1>8 DEF ServerDies
      <3>1. run[t] \in {Unborn} \cup Busy \cup Ended  BY DEF TypeOK
      <3>2. \/ run'[t] = run[t]
            \/ run[t].at # "none" /\ run'[t] = [at |-> "dead", outcome |-> run[t].outcome]
          BY <1>8 DEF ServerDies
      <3>3. run[t].at # "none" => run[t].outcome \in {"none"} \cup Outcomes  BY <3>1 DEF Unborn, Busy, Ended
      <3> QED  BY <3>1, <3>2, <3>3 DEF Ended
    <2>2. await' \in [Awaiters -> {Silent} \cup Polling \cup Returned]  BY <1>8 DEF ServerDies, TypeOK
    <2>3. copied' \in [of : Conversations, row : {NoRow} \cup Row]  BY <1>8 DEF ServerDies, NoCopy, Conversations
    <2>4. prefix' \in [Spawns -> SUBSET Nat] /\ given' \in [Spawns -> SUBSET Nat]  BY <1>8 DEF ServerDies
    <2> QED  BY <1>8, <2>1, <2>2, <2>3, <2>4 DEF ServerDies, Breaks, TypeOK, storeVars
  <1> QED  BY <1>1, <1>2, <1>3, <1>4, <1>5, <1>6, <1>7, <1>8 DEF Conversations

LEMMA NextTyped == ASSUME TypeOK, \A u \in Spawns : OutcomeSound(u), [ThreadNext]_threadVars PROVE TypeOK'
  <1>1. CASE UNCHANGED threadVars  BY <1>1 DEF threadVars, TypeOK
  <1> QED  BY <1>1, SpawnTyped, ResolveTyped, AwaitTyped, BranchTyped, UsersTyped DEF ThreadNext

-----------------------------------------------------------------------------
(* Steps of a call and of its goroutine. *)

LEMMA InitInv == ThreadInit => ThreadsInv
  <1> SUFFICES ASSUME ThreadInit PROVE ThreadsInv  OBVIOUS
  <1>1. TypeOK  BY InitTyped
  <1>2. rows[Parent].there /\ rows[Parent].head = 2 /\ Len(transcript[Parent]) = 2
      BY DEF ThreadInit
  <1>3. \/ copied = NoCopy /\ patches = 0
        \/ copied.of = Parent /\ copied.row.there /\ copied.row.head = 0
      BY DEF ThreadInit
  <1>4. ParentKept  BY <1>2, <1>3 DEF ParentKept
  <1>5. CopiesCounted  BY <1>3 DEF CopiesCounted, NoCopy
  <1>6. AnswersKept  BY DEF ThreadInit, AnswersKept, Silent
  <1>7. ASSUME NEW t \in Spawns PROVE ThreadSound(t)
    <2>1. run[t].at = "none" /\ given[t] = {} /\ noted[t] = <<>> /\ rows[t] = NoRow /\ t # Parent
        BY ThreadsAssumption DEF ThreadInit
    <2>2. copied.of = Parent  BY <1>3 DEF NoCopy
    <2>3. ~rows[t].there  BY <2>1 DEF NoRow
    <2> QED  BY <2>1, <2>2, <2>3 DEF ThreadSound, PrefixSound, GivenSound, OutcomeSound, NotedSound
  <1> QED  BY <1>1, <1>4, <1>5, <1>6, <1>7 DEF ThreadsInv

\* A step that leaves a thread and its parent alone
LEMMA OtherThread ==
    ASSUME ThreadsInv, TypeOK', NEW t \in Spawns, run'[t] = run[t], rows'[t] = rows[t],
           prefix'[t] = prefix[t], given'[t] = given[t], noted'[t] = noted[t],
           rows'[Parent] = rows[Parent], transcript'[Parent] = transcript[Parent],
           UNCHANGED copied, patches' = 0 => patches = 0, failures' = 0 => failures = 0
    PROVE  ThreadSound(t)'
  <1>1. ThreadSound(t)  BY DEF ThreadsInv
  <1>2. PrefixSound(t)'  BY <1>1 DEF ThreadSound, PrefixSound, Active
  <1>3. GivenSound(t)'  BY <1>1 DEF ThreadSound, GivenSound
  <1>4. OutcomeSound(t)'  BY <1>1 DEF ThreadSound, OutcomeSound
  <1>5. NotedSound(t)'  BY <1>1 DEF ThreadSound, NotedSound
  <1> QED  BY <1>2, <1>3, <1>4, <1>5 DEF ThreadSound

\* A step of one thread, which has not ended before
LEMMA OneThread ==
    ASSUME ThreadsInv, TypeOK', NEW t \in Spawns, run[t].at # "done",
           \A u \in Spawns \ {t} : /\ run'[u] = run[u] /\ rows'[u] = rows[u] /\ prefix'[u] = prefix[u]
                                   /\ given'[u] = given[u] /\ noted'[u] = noted[u],
           rows'[Parent] = rows[Parent], transcript'[Parent] = transcript[Parent],
           UNCHANGED <<await, copied, patches>>, failures' = 0 => failures = 0,
           ThreadSound(t)'
    PROVE  ThreadsInv'
  <1>1. ParentKept'  BY DEF ThreadsInv, ParentKept
  <1>2. \A u \in Spawns \ {t} : ThreadSound(u)'  BY OtherThread
  <1>3. AnswersKept'
    <2> SUFFICES ASSUME NEW a \in Awaiters, await[a].at = "returned", await[a].answer \in Outcomes
                 PROVE  run'[await[a].of].at = "done" /\ run'[await[a].of].outcome = await[a].answer
        BY DEF AnswersKept
    <2>1. run[await[a].of].at = "done" /\ run[await[a].of].outcome = await[a].answer
        BY DEF ThreadsInv, AnswersKept
    <2>2. await[a] \in Returned
      <3>1. await[a] \in {Silent} \cup Polling \cup Returned  BY DEF ThreadsInv, TypeOK
      <3> QED  BY <3>1, AwaitStates
    <2>3. await[a].of \in Spawns \ {t}  BY <2>1, <2>2 DEF Returned
    <2> QED  BY <2>1, <2>3
  <1>4. CopiesCounted'  BY DEF ThreadsInv, CopiesCounted
  <1> QED  BY <1>1, <1>2, <1>3, <1>4 DEF ThreadsInv

\* A goroutine moves to another step of its thread, with the same anchor.
LEMMA MovesOn ==
    ASSUME ThreadsInv, NEW t \in Spawns, run[t].at \in Driven, run'[t].at \in Driven,
           run'[t].anchor = run[t].anchor, rows'[Parent] = rows[Parent], transcript'[Parent] = transcript[Parent],
           prefix'[t] = prefix[t]
    PROVE  /\ PrefixSound(t)'
           /\ given'[t] = given[t] /\ (run[t].at \in Reading => run'[t].at \in Reading) => GivenSound(t)'
  <1>1. ThreadSound(t)  BY DEF ThreadsInv
  <1>2. PrefixSound(t)'  BY <1>1 DEF ThreadSound, PrefixSound, Active
  <1>3. given'[t] = given[t] /\ (run[t].at \in Reading => run'[t].at \in Reading) => GivenSound(t)'
      BY <1>1 DEF ThreadSound, GivenSound
  <1> QED  BY <1>2, <1>3

\* What a goroutine puts on the timeline of the parent
LEMMA NoteSteps ==
    ASSUME TypeOK, NEW t \in Spawns, NEW status, Note(t, status)
    PROVE  /\ \A u \in Spawns \ {t} : noted'[u] = noted[u]
           /\ failures' = 0 => failures = 0
           /\ failures' = 0 /\ rows[Parent].there => noted'[t] = Append(noted[t], status)
  BY DEF Note, Breaks, TypeOK

LEMMA CreateSound == ASSUME ThreadsInv, NEW t \in Spawns, CreateThread(t) PROVE ThreadsInv'
  <1>1. TypeOK /\ TypeOK' /\ ThreadSound(t)
    <2>1. TypeOK'  BY SpawnTyped DEF ThreadsInv, ThreadSound, SpawnStep
    <2> QED  BY <2>1 DEF ThreadsInv
  <1>2. run[t].at = "create" /\ t # Parent /\ Parent \in Conversations /\ t \in Conversations
      BY ThreadsAssumption DEF CreateThread, Conversations
  <1>3. /\ run'[t].at \in {"spawned", "refused"} /\ run'[t].anchor = run[t].anchor
        /\ run'[t].at = "spawned" =>
              rows'[t] = [there |-> TRUE, head |-> 0, status |-> "running"] /\ rows'[Parent] = rows[Parent]
        /\ run'[t].at = "refused" => UNCHANGED rows
        /\ \A u \in Spawns \ {t} : run'[u] = run[u] /\ rows'[u] = rows[u]
        /\ rows'[Parent] = rows[Parent]
    <2>1. CASE /\ rows' = [rows EXCEPT ![t] = [there |-> TRUE, head |-> 0, status |-> "running"]]
               /\ Moves(t, "spawned")
      <3>1. run'[t].at = "spawned" /\ run'[t].anchor = run[t].anchor /\ \A u \in Spawns \ {t} : run'[u] = run[u]
          BY <1>1, <1>2, <2>1, MovesTo
      <3>2. /\ rows'[t] = [there |-> TRUE, head |-> 0, status |-> "running"] /\ rows'[Parent] = rows[Parent]
            /\ \A u \in Spawns \ {t} : rows'[u] = rows[u]
          BY <1>1, <1>2, <2>1 DEF TypeOK, Conversations
      <3> QED  BY <3>1, <3>2
    <2>2. CASE Moves(t, "refused") /\ UNCHANGED rows
      <3>1. run'[t].at = "refused" /\ run'[t].anchor = run[t].anchor /\ \A u \in Spawns \ {t} : run'[u] = run[u]
          BY <1>1, <1>2, <2>2, MovesTo
      <3> QED  BY <2>2, <3>1
    <2> QED  BY <2>1, <2>2 DEF CreateThread
  <1>4. /\ UNCHANGED <<transcript, noted, prefix, given, await, copied, patches>>
        /\ failures' = 0 => failures = 0
      BY <1>1 DEF CreateThread, Breaks, TypeOK, historyVars, requestVars
  <1>5. copied.of # t \/ copied.row.status = "running"  BY <1>1, <1>2 DEF ThreadSound, OutcomeSound
  <1>6. given[t] = {} /\ ~rows[t].there  BY <1>1, <1>2 DEF ThreadSound, GivenSound, OutcomeSound
  <1>7. ThreadSound(t)'
    <2>1. PrefixSound(t)'
      <3>1. CASE run'[t].at = "refused"  BY <3>1 DEF PrefixSound
      <3>2. CASE run'[t].at = "spawned"  BY <1>2, <1>3, <1>4, <3>2, MovesOn
      <3> QED  BY <1>3, <3>1, <3>2
    <2>2. GivenSound(t)'  BY <1>4, <1>6 DEF GivenSound
    <2>3. OutcomeSound(t)'  BY <1>1, <1>2, <1>3, <1>4, <1>5, <1>6 DEF ThreadSound, OutcomeSound
    <2>4. NotedSound(t)'  BY <1>1, <1>2, <1>3, <1>4 DEF ThreadSound, NotedSound
    <2> QED  BY <2>1, <2>2, <2>3, <2>4 DEF ThreadSound
  <1> QED  BY <1>1, <1>2, <1>3, <1>4, <1>7, OneThread

LEMMA AnnounceSound == ASSUME ThreadsInv, NEW t \in Spawns, Announce(t) PROVE ThreadsInv'
  <1>1. TypeOK /\ TypeOK' /\ ThreadSound(t)
    <2>1. TypeOK'  BY SpawnTyped DEF ThreadsInv, ThreadSound, SpawnStep
    <2> QED  BY <2>1 DEF ThreadsInv
  <1>2. run[t] \in Busy /\ run[t].at \in {"spawned", "started"}  BY <1>1, BusyStates DEF Announce
  <1>3. /\ UNCHANGED <<rows, transcript, prefix, given, await, copied, patches>>
        /\ \A u \in Spawns \ {t} : noted'[u] = noted[u]
        /\ failures' = 0 => failures = 0
        /\ failures' = 0 /\ rows[Parent].there => noted'[t] = Append(noted[t], run[t].at)
      BY <1>1, NoteSteps DEF Announce, storeVars, historyVars, requestVars
  <1>4. /\ run'[t].at = (IF run[t].at = "spawned" THEN "started" ELSE "task")
        /\ run'[t].anchor = run[t].anchor /\ \A u \in Spawns \ {t} : run'[u] = run[u]
    <2>1. CASE run[t].at = "spawned"
      <3>1. Moves(t, "started")  BY <2>1 DEF Announce
      <3> QED  BY <1>1, <2>1, <3>1, MovesTo
    <2>2. CASE run[t].at = "started"
      <3> DEFINE next == [run[t] EXCEPT !.at = "task", !.cancelled = @ /\ run[t].blocking]
      <3>1. RunTo(t, next) /\ next \in Busy /\ next.at = "task" /\ next.anchor = run[t].anchor
          BY <1>2, <2>2 DEF Announce, Busy
      <3> HIDE DEF next
      <3> QED  BY <1>1, <2>2, <3>1, RunTyped
    <2> QED  BY <1>2, <2>1, <2>2
  <1>5. ThreadSound(t)'
    <2>1. PrefixSound(t)' /\ GivenSound(t)'  BY <1>2, <1>3, <1>4, MovesOn
    <2>2. OutcomeSound(t)'  BY <1>1, <1>2, <1>3, <1>4 DEF ThreadSound, OutcomeSound
    <2>3. NotedSound(t)'
      <3>1. Append(<<>>, "spawned") = <<"spawned">> /\ Append(<<"spawned">>, "started") = <<"spawned", "started">>
          BY ShortSequences
      <3> QED  BY <1>1, <1>2, <1>3, <1>4, <3>1 DEF ThreadSound, NotedSound
    <2> QED  BY <2>1, <2>2, <2>3 DEF ThreadSound
  <1> QED  BY <1>1, <1>2, <1>3, <1>4, <1>5, OneThread

LEMMA AppendTaskSound == ASSUME ThreadsInv, NEW t \in Spawns, AppendTask(t) PROVE ThreadsInv'
  <1>1. TypeOK /\ TypeOK' /\ ThreadSound(t)
    <2>1. TypeOK'  BY SpawnTyped DEF ThreadsInv, ThreadSound, SpawnStep
    <2> QED  BY <2>1 DEF ThreadsInv
  <1>2. /\ run[t].at = "task" /\ t # Parent /\ Parent \in Conversations /\ t \in Conversations
        /\ Spawns \subseteq Conversations
      BY ThreadsAssumption DEF AppendTask, Conversations
  <1>3. /\ UNCHANGED <<noted, prefix, given, await, copied, patches>>
        /\ failures' = 0 => failures = 0
      BY <1>1 DEF AppendTask, Breaks, TypeOK, historyVars, requestVars
  <1>4. /\ rows'[Parent] = rows[Parent] /\ transcript'[Parent] = transcript[Parent]
        /\ \A u \in Spawns \ {t} : rows'[u] = rows[u]
        /\ rows'[t].there = rows[t].there /\ rows'[t].status = rows[t].status
    <2>1. CASE AppendMessage(t, "user")
      <3>1. /\ rows[t].there /\ rows'[t].there /\ rows'[t].status = rows[t].status
            /\ \A d \in Conversations \ {t} : rows'[d] = rows[d] /\ transcript'[d] = transcript[d]
          BY <1>1, <1>2, <2>1, AppendTyped
      <3>2. rows[t] \in Row /\ rows'[t] \in Row  BY <1>1, <1>2, <3>1, RowStates DEF TypeOK
      <3> QED  BY <1>2, <3>1, <3>2 DEF Row
    <2>2. CASE UNCHANGED storeVars  BY <2>2 DEF storeVars
    <2> QED  BY <2>1, <2>2 DEF AppendTask
  <1>5. /\ run'[t].at \in {"anchor", "outcome"} /\ run'[t].anchor = run[t].anchor
        /\ run'[t].at = "outcome" => run'[t].outcome = "failed"
        /\ \A u \in Spawns \ {t} : run'[u] = run[u]
    <2>1. CASE Moves(t, "anchor")  BY <1>1, <1>2, <2>1, MovesTo
    <2>2. CASE ChildFails(t)  BY <1>1, <1>2, <2>2, FailsTo
    <2> QED  BY <2>1, <2>2 DEF AppendTask
  <1>6. ThreadSound(t)'
    <2>1. PrefixSound(t)' /\ GivenSound(t)'  BY <1>2, <1>3, <1>4, <1>5, MovesOn
    <2>2. OutcomeSound(t)'  BY <1>1, <1>2, <1>3, <1>4, <1>5 DEF ThreadSound, OutcomeSound
    <2>3. NotedSound(t)'  BY <1>1, <1>2, <1>3, <1>4, <1>5 DEF ThreadSound, NotedSound
    <2> QED  BY <2>1, <2>2, <2>3 DEF ThreadSound
  <1> QED  BY <1>1, <1>2, <1>3, <1>4, <1>5, <1>6, OneThread

LEMMA FindAnchorSound == ASSUME ThreadsInv, NEW t \in Spawns, FindAnchor(t) PROVE ThreadsInv'
  <1>1. TypeOK /\ TypeOK' /\ ThreadSound(t)
    <2>1. TypeOK'  BY SpawnTyped DEF ThreadsInv, ThreadSound, SpawnStep
    <2> QED  BY <2>1 DEF ThreadsInv
  <1>2. /\ run[t].at = "anchor"
        /\ UNCHANGED <<rows, transcript, noted, prefix, given, await, copied, patches>>
        /\ failures' = 0 => failures = 0
      BY <1>1 DEF FindAnchor, Breaks, TypeOK, storeVars, historyVars, requestVars
  <1>3. /\ run'[t].at \in {"history", "model", "outcome"} /\ run'[t].anchor = run[t].anchor
        /\ run'[t].at = "outcome" => run'[t].outcome = "failed"
        /\ \A u \in Spawns \ {t} : run'[u] = run[u]
    <2>1. CASE Moves(t, "history")  BY <1>1, <1>2, <2>1, MovesTo
    <2>2. CASE Moves(t, "model")  BY <1>1, <1>2, <2>2, MovesTo
    <2>3. CASE ChildFails(t)  BY <1>1, <1>2, <2>3, FailsTo
    <2> QED  BY <2>1, <2>2, <2>3 DEF FindAnchor
  <1>4. ThreadSound(t)'
    <2>1. PrefixSound(t)' /\ GivenSound(t)'  BY <1>2, <1>3, MovesOn
    <2>2. OutcomeSound(t)'  BY <1>1, <1>2, <1>3 DEF ThreadSound, OutcomeSound
    <2>3. NotedSound(t)'  BY <1>1, <1>2, <1>3 DEF ThreadSound, NotedSound
    <2> QED  BY <2>1, <2>2, <2>3 DEF ThreadSound
  <1> QED  BY <1>1, <1>2, <1>3, <1>4, OneThread

\* What is read of the parent is the prefix, or begins as it does and the anchor is archived.
LEMMA ReadChainSound == ASSUME ThreadsInv, NEW t \in Spawns, ReadChain(t) PROVE ThreadsInv'
  <1>1. TypeOK /\ TypeOK' /\ ThreadSound(t)
    <2>1. TypeOK'  BY SpawnTyped DEF ThreadsInv, ThreadSound, SpawnStep
    <2> QED  BY <2>1 DEF ThreadsInv
  <1>2. /\ run[t].at = "history"
        /\ UNCHANGED <<rows, transcript, noted, prefix, await, copied, patches>>
        /\ failures' = 0 => failures = 0
        /\ \A u \in Spawns \ {t} : given'[u] = given[u]
      BY <1>1 DEF ReadChain, Breaks, TypeOK, storeVars, requestVars
  <1>3. /\ run'[t].at \in {"model", "outcome"} /\ run'[t].anchor = run[t].anchor
        /\ run'[t].at = "outcome" => run'[t].outcome = "failed"
        /\ \A u \in Spawns \ {t} : run'[u] = run[u]
    <2>1. CASE Moves(t, "model")  BY <1>1, <1>2, <2>1, MovesTo
    <2>2. CASE ChildFails(t)  BY <1>1, <1>2, <2>2, FailsTo
    <2> QED  BY <2>1, <2>2 DEF ReadChain
  <1>4. ThreadSound(t)'
    <2>1. PrefixSound(t)'  BY <1>2, <1>3, MovesOn
    <2>2. GivenSound(t)'
      <3>1. CASE UNCHANGED given  BY <1>2, <1>3, <3>1, MovesOn
      <3>2. CASE given' = [given EXCEPT ![t] = ChainOf(t)]
        <4>1. given'[t] = Active(Parent, run[t].anchor)  BY <1>1, <3>2 DEF TypeOK, ChainOf
        <4>2. transcript[Parent] \in Seq(Message) /\ run[t].anchor \in Nat
          <5>1. run[t] \in Busy  BY <1>1, <1>2, BusyStates
          <5> QED  BY <1>1, <5>1 DEF TypeOK, Conversations, Busy
        <4>3. Active(Parent, run[t].anchor) # {} => rows[Parent].there /\ run[t].anchor # 0
          <5>1. ~rows[Parent].there => DOMAIN transcript[Parent] = {}  BY DEF ThreadsInv, ParentKept
          <5> QED  BY <4>2, <5>1 DEF Active
        <4> QED  BY <1>1, <1>2, <1>3, <4>1, <4>3 DEF ThreadSound, PrefixSound, GivenSound
      <3> QED  BY <3>1, <3>2 DEF ReadChain
    <2>3. OutcomeSound(t)'  BY <1>1, <1>2, <1>3 DEF ThreadSound, OutcomeSound
    <2>4. NotedSound(t)'  BY <1>1, <1>2, <1>3 DEF ThreadSound, NotedSound
    <2> QED  BY <2>1, <2>2, <2>3, <2>4 DEF ThreadSound
  <1> QED  BY <1>1, <1>2, <1>3, <1>4, OneThread

LEMMA ModelAnswersSound == ASSUME ThreadsInv, NEW t \in Spawns, ModelAnswers(t) PROVE ThreadsInv'
  <1>1. TypeOK /\ TypeOK' /\ ThreadSound(t)
    <2>1. TypeOK'  BY SpawnTyped DEF ThreadsInv, ThreadSound, SpawnStep
    <2> QED  BY <2>1 DEF ThreadsInv
  <1>2. /\ run[t].at = "model" /\ t # Parent /\ Parent \in Conversations /\ t \in Conversations
        /\ Spawns \subseteq Conversations
        /\ UNCHANGED <<noted, prefix, given, await, copied, patches, failures>>
      BY ThreadsAssumption DEF ModelAnswers, Conversations, historyVars, requestVars
  <1>3. /\ rows'[Parent] = rows[Parent] /\ transcript'[Parent] = transcript[Parent]
        /\ \A u \in Spawns \ {t} : rows'[u] = rows[u]
        /\ rows'[t].there = rows[t].there /\ rows'[t].status = rows[t].status
    <2>1. CASE AppendMessage(t, "agent")
      <3>1. /\ rows[t].there /\ rows'[t].there /\ rows'[t].status = rows[t].status
            /\ \A d \in Conversations \ {t} : rows'[d] = rows[d] /\ transcript'[d] = transcript[d]
          BY <1>1, <1>2, <2>1, AppendTyped
      <3>2. rows[t] \in Row /\ rows'[t] \in Row  BY <1>1, <1>2, <3>1, RowStates DEF TypeOK
      <3> QED  BY <1>2, <3>1, <3>2 DEF Row
    <2>2. CASE UNCHANGED storeVars  BY <2>2 DEF storeVars
    <2> QED  BY <2>1, <2>2 DEF ModelAnswers
  <1>4. /\ run'[t].at \in {"anchor", "outcome"} /\ run'[t].anchor = run[t].anchor
        /\ run'[t].at = "outcome" => run'[t].outcome \in Outcomes
        /\ \A u \in Spawns \ {t} : run'[u] = run[u]
    <2>1. CASE Moves(t, "anchor")  BY <1>1, <1>2, <2>1, MovesTo
    <2>2. CASE ChildFails(t)  BY <1>1, <1>2, <2>2, FailsTo
    <2>3. CASE RunTo(t, [run[t] EXCEPT !.at = "outcome", !.outcome = "completed"])
      <3> DEFINE next == [run[t] EXCEPT !.at = "outcome", !.outcome = "completed"]
      <3>1. /\ RunTo(t, next) /\ next \in Busy /\ next.at = "outcome" /\ next.anchor = run[t].anchor
            /\ next.outcome = "completed"
          BY <1>1, <1>2, <2>3, MovesTyped
      <3> HIDE DEF next
      <3> QED  BY <1>1, <3>1, RunTyped
    <2> QED  BY <2>1, <2>2, <2>3 DEF ModelAnswers
  <1>5. ThreadSound(t)'
    <2>1. PrefixSound(t)' /\ GivenSound(t)'  BY <1>2, <1>3, <1>4, MovesOn
    <2>2. OutcomeSound(t)'  BY <1>1, <1>2, <1>3, <1>4 DEF ThreadSound, OutcomeSound
    <2>3. NotedSound(t)'  BY <1>1, <1>2, <1>3, <1>4 DEF ThreadSound, NotedSound
    <2> QED  BY <2>1, <2>2, <2>3 DEF ThreadSound
  <1> QED  BY <1>1, <1>2, <1>3, <1>4, <1>5, OneThread

LEMMA NoteOutcomeSound == ASSUME ThreadsInv, NEW t \in Spawns, NoteOutcome(t) PROVE ThreadsInv'
  <1>1. TypeOK /\ TypeOK' /\ ThreadSound(t)
    <2>1. TypeOK'  BY SpawnTyped DEF ThreadsInv, ThreadSound, SpawnStep
    <2> QED  BY <2>1 DEF ThreadsInv
  <1>2. /\ run[t].at = "outcome"
        /\ UNCHANGED <<rows, transcript, prefix, given, await, copied, patches>>
        /\ \A u \in Spawns \ {t} : noted'[u] = noted[u]
        /\ failures' = 0 => failures = 0
        /\ failures' = 0 /\ rows[Parent].there => noted'[t] = Append(noted[t], run[t].outcome)
      BY <1>1, NoteSteps DEF NoteOutcome, storeVars, historyVars, requestVars
  <1>3. /\ run'[t].at = "update" /\ run'[t].anchor = run[t].anchor /\ run'[t].outcome = run[t].outcome
        /\ \A u \in Spawns \ {t} : run'[u] = run[u]
      BY <1>1, <1>2, MovesTo DEF NoteOutcome
  <1>4. ThreadSound(t)'
    <2>1. PrefixSound(t)' /\ GivenSound(t)'  BY <1>2, <1>3, MovesOn
    <2>2. OutcomeSound(t)'  BY <1>1, <1>2, <1>3 DEF ThreadSound, OutcomeSound
    <2>3. NotedSound(t)'
      <3>1. Append(<<"spawned", "started">>, run[t].outcome) = <<"spawned", "started", run[t].outcome>>
          BY ShortSequences
      <3> QED  BY <1>1, <1>2, <1>3, <3>1 DEF ThreadSound, NotedSound
    <2> QED  BY <2>1, <2>2, <2>3 DEF ThreadSound
  <1> QED  BY <1>1, <1>2, <1>3, <1>4, OneThread

LEMMA StoreOutcomeSound == ASSUME ThreadsInv, NEW t \in Spawns, StoreOutcome(t) PROVE ThreadsInv'
  <1>1. TypeOK /\ TypeOK' /\ ThreadSound(t)
    <2>1. TypeOK'  BY SpawnTyped DEF ThreadsInv, ThreadSound, SpawnStep
    <2> QED  BY <2>1 DEF ThreadsInv
  <1>2. /\ run[t].at = "update" /\ t # Parent /\ Parent \in Conversations /\ t \in Conversations
        /\ Spawns \subseteq Conversations
        /\ UNCHANGED <<transcript, noted, await, copied, patches>>
        /\ failures' = 0 => failures = 0
      BY <1>1, ThreadsAssumption DEF StoreOutcome, Conversations, requestVars, Breaks, TypeOK
  <1>3. /\ run'[t].at = "done" /\ run'[t].outcome = run[t].outcome /\ run[t].outcome \in Outcomes
        /\ given'[t] = {}
        /\ \A u \in Spawns \ {t} : run'[u] = run[u] /\ prefix'[u] = prefix[u] /\ given'[u] = given[u]
      BY <1>1, <1>2 DEF StoreOutcome, RunTo, TypeOK, ThreadSound, OutcomeSound
  <1>4. /\ rows'[Parent] = rows[Parent] /\ \A u \in Spawns \ {t} : rows'[u] = rows[u]
        /\ \/ rows[t].there /\ rows'[t].there /\ rows'[t].status = run[t].outcome
           \/ rows'[t] = rows[t] /\ (rows[t].there => failures' # 0)
    <2>1. CASE rows[t].there /\ rows' = [rows EXCEPT ![t].status = run[t].outcome, ![t].head = 0]
      <3>1. rows[t] \in Row  BY <1>1, <1>2, <2>1, RowStates DEF TypeOK
      <3>2. rows'[t] = [rows[t] EXCEPT !.status = run[t].outcome, !.head = 0]  BY <1>1, <1>2, <2>1 DEF TypeOK
      <3>3. rows'[t].there /\ rows'[t].status = run[t].outcome  BY <3>1, <3>2 DEF Row
      <3> QED  BY <1>1, <1>2, <2>1, <3>3 DEF TypeOK
    <2>2. CASE UNCHANGED rows /\ (~rows[t].there \/ Breaks)  BY <1>1, <2>2 DEF Breaks, TypeOK
    <2> QED  BY <2>1, <2>2 DEF StoreOutcome
  <1>5. ThreadSound(t)'
    <2>1. PrefixSound(t)' /\ GivenSound(t)'  BY <1>3 DEF PrefixSound, GivenSound
    <2>2. OutcomeSound(t)'  BY <1>1, <1>2, <1>3, <1>4 DEF ThreadSound, OutcomeSound
    <2>3. NotedSound(t)'  BY <1>1, <1>2, <1>3, <1>4 DEF ThreadSound, NotedSound
    <2> QED  BY <2>1, <2>2, <2>3 DEF ThreadSound
  <1> QED  BY <1>1, <1>2, <1>3, <1>4, <1>5, OneThread

\* The anchor is one of the parent's messages, or the parent is gone.
LEMMA ResolveSound ==
    ASSUME ThreadsInv, NEW t \in Spawns, NEW full \in BOOLEAN, NEW blocking \in BOOLEAN, ResolveAnchor(t, full, blocking)
    PROVE  ThreadsInv'
  <1>1. TypeOK /\ TypeOK' /\ ThreadSound(t)
    <2>1. TypeOK'  BY ResolveTyped DEF ThreadsInv
    <2> QED  BY <2>1 DEF ThreadsInv
  <1>2. PICK head \in 0 .. MaxParent, anchor \in 0 .. MaxParent :
            /\ \/ rows[Parent].there /\ head = rows[Parent].head /\ UNCHANGED failures
               \/ rows[Parent].there /\ head < Len(transcript[Parent]) /\ Breaks
               \/ ~rows[Parent].there /\ UNCHANGED failures
            /\ IF head # 0 THEN anchor = head ELSE IsLast(AllActive(Parent), anchor)
            /\ RunTo(t, [at |-> "create", anchor |-> anchor, full |-> full, blocking |-> blocking,
                         cancelled |-> FALSE, outcome |-> "none"])
            /\ prefix' = [prefix EXCEPT ![t] = Active(Parent, anchor)]
      BY DEF ResolveAnchor
  <1>3. /\ run[t].at = "none" /\ UNCHANGED <<rows, transcript, noted, given, await, copied, patches>>
        /\ failures' = 0 => failures = 0
      BY <1>1 DEF ResolveAnchor, storeVars, requestVars, Breaks, TypeOK
  <1>4. /\ run'[t].at = "create" /\ run'[t].anchor = anchor /\ run'[t].outcome = "none"
        /\ prefix'[t] = Active(Parent, anchor)
        /\ \A u \in Spawns \ {t} : run'[u] = run[u] /\ prefix'[u] = prefix[u]
      BY <1>1, <1>2 DEF RunTo, TypeOK
  <1>5. rows[Parent].there => anchor <= Len(transcript[Parent])
    <2> SUFFICES ASSUME rows[Parent].there PROVE anchor <= Len(transcript[Parent])  OBVIOUS
    <2>1. transcript[Parent] \in Seq(Message)  BY <1>1 DEF TypeOK, Conversations
    <2>2. head <= Len(transcript[Parent])
      <3>1. rows[Parent].head <= Len(transcript[Parent])  BY DEF ThreadsInv, ParentKept
      <3> QED  BY <1>2, <2>1, <3>1
    <2>3. CASE head # 0  BY <1>2, <2>2, <2>3
    <2>4. CASE IsLast(AllActive(Parent), anchor)  BY <2>1, <2>4 DEF IsLast, AllActive, Active
    <2> QED  BY <1>2, <2>3, <2>4
  <1>6. given[t] = {} /\ ~rows[t].there  BY <1>1, <1>3 DEF ThreadSound, GivenSound, OutcomeSound
  <1>7. ThreadSound(t)'
    <2>1. PrefixSound(t)'
      <3>1. Active(Parent, anchor)' = prefix'[t]  BY <1>3, <1>4 DEF Active
      <3>2. Active(Parent, run[t].anchor)' = prefix'[t]  BY <1>4, <3>1 DEF Active
      <3> QED  BY <1>3, <1>4, <1>5, <3>2 DEF PrefixSound
    <2>2. GivenSound(t)'  BY <1>3, <1>6 DEF GivenSound
    <2>3. OutcomeSound(t)'  BY <1>1, <1>3, <1>4, <1>6 DEF ThreadSound, OutcomeSound
    <2>4. NotedSound(t)'  BY <1>1, <1>3, <1>4 DEF ThreadSound, NotedSound
    <2> QED  BY <2>1, <2>2, <2>3, <2>4 DEF ThreadSound
  <1> QED  BY <1>1, <1>3, <1>4, <1>7, OneThread

-----------------------------------------------------------------------------
(* Steps of await_thread and of others. *)

LEMMA BeginAwaitSound ==
    ASSUME ThreadsInv, NEW a \in Awaiters, NEW t \in Spawns, NEW blocking \in BOOLEAN, BeginAwait(a, t, blocking)
    PROVE  ThreadsInv'
  <1>1. TypeOK /\ TypeOK'
    <2>1. TypeOK'  BY AwaitTyped DEF ThreadsInv
    <2> QED  BY <2>1 DEF ThreadsInv
  <1>2. UNCHANGED <<rows, transcript, run, noted, prefix, given, copied, patches, failures>>
      BY DEF BeginAwait, storeVars, historyVars, requestVars
  <1>3. ParentKept' /\ CopiesCounted'  BY <1>2 DEF ThreadsInv, ParentKept, CopiesCounted
  <1>4. \A u \in Spawns : ThreadSound(u)'  BY <1>1, <1>2, OtherThread
  <1>5. await'[a].at = "polls" /\ \A b \in Awaiters \ {a} : await'[b] = await[b]
      BY <1>1 DEF BeginAwait, TypeOK
  <1>6. AnswersKept'  BY <1>2, <1>5 DEF ThreadsInv, AnswersKept
  <1> QED  BY <1>1, <1>3, <1>4, <1>6 DEF ThreadsInv

\* A row that is not running any more has the outcome.
LEMMA PollSound == ASSUME ThreadsInv, NEW a \in Awaiters, PollStatus(a) PROVE ThreadsInv'
  <1>1. TypeOK /\ TypeOK'
    <2>1. TypeOK'  BY AwaitTyped DEF ThreadsInv
    <2> QED  BY <2>1 DEF ThreadsInv
  <1>2. /\ UNCHANGED <<rows, transcript, run, noted, prefix, given, copied, patches>>
        /\ failures' = 0 => failures = 0
      BY <1>1 DEF PollStatus, storeVars, historyVars, requestVars, Breaks, TypeOK
  <1>3. ParentKept' /\ CopiesCounted'  BY <1>2 DEF ThreadsInv, ParentKept, CopiesCounted
  <1>4. \A u \in Spawns : ThreadSound(u)'  BY <1>1, <1>2, OtherThread
  <1>5. await[a] \in Polling
    <2>1. await[a].at = "polls" /\ await[a] \in {Silent} \cup Polling \cup Returned
        BY <1>1 DEF PollStatus, TypeOK
    <2> QED  BY <2>1, AwaitStates
  <1> DEFINE of == await[a].of
  <1>6. of \in Spawns /\ OutcomeSound(of)  BY <1>5 DEF Polling, ThreadsInv, ThreadSound
  <1>7. PICK what : /\ await' = [await EXCEPT ![a] = [at |-> "returned", of |-> of, answer |-> what]]
                    /\ what = "error" \/ (rows[of].there /\ what = rows[of].status)
      BY DEF PollStatus, Answers
  <1>8. /\ await'[a].at = "returned" /\ await'[a].of = of /\ await'[a].answer = what
        /\ \A b \in Awaiters \ {a} : await'[b] = await[b]
    <2> HIDE DEF of
    <2> QED  BY <1>1, <1>7 DEF TypeOK
  <1>9. what \in Outcomes => run[of].at = "done" /\ run[of].outcome = what
    <2> HIDE DEF of
    <2> QED  BY <1>6, <1>7 DEF OutcomeSound
  <1>10. AnswersKept'
    <2> SUFFICES ASSUME NEW b \in Awaiters, (await[b].at = "returned" /\ await[b].answer \in Outcomes)'
                 PROVE  run[await'[b].of].at = "done" /\ run[await'[b].of].outcome = await'[b].answer
        BY <1>2 DEF AnswersKept
    <2> HIDE DEF of
    <2>1. CASE b = a  BY <1>8, <1>9, <2>1
    <2>2. CASE b # a  BY <1>8, <2>2 DEF ThreadsInv, AnswersKept
    <2> QED  BY <2>1, <2>2
  <1> QED  BY <1>1, <1>3, <1>4, <1>10 DEF ThreadsInv

\* A step that changes the parent: its active messages up to an anchor stay, or those after
\* some message are archived.
LEMMA ParentSteps ==
    ASSUME ThreadsInv, TypeOK', UNCHANGED <<run, noted, prefix, given, await, copied, patches>>,
           \A t \in Spawns : rows'[t] = rows[t], failures' = 0 => failures = 0,
           rows'[Parent].there => rows[Parent].there, ParentKept',
           Len(transcript'[Parent]) >= Len(transcript[Parent]),
           NEW m \in Nat,
           \A i \in 1 .. Len(transcript[Parent]) :
              transcript'[Parent][i].arch <=> i > m \/ transcript[Parent][i].arch
    PROVE  ThreadsInv'
  <1>1. TypeOK /\ transcript[Parent] \in Seq(Message) /\ transcript'[Parent] \in Seq(Message)
      BY DEF ThreadsInv, TypeOK, Conversations
  <1>2. ASSUME NEW t \in Spawns PROVE ThreadSound(t)'
    <2> DEFINE anchor == run[t].anchor
    <2>1. ThreadSound(t)  BY DEF ThreadsInv
    <2>2. OutcomeSound(t)' /\ NotedSound(t)'  BY <2>1 DEF ThreadSound, OutcomeSound, NotedSound
    <2>3. run[t].at \in Driven => anchor \in Nat
      <3>1. run[t].at \in Driven => run[t] \in Busy  BY <1>1, BusyStates
      <3> QED  BY <3>1 DEF Busy
    <2>4. ASSUME run[t].at \in Driven, rows'[Parent].there
          PROVE  /\ anchor <= Len(transcript[Parent])
                 /\ Active(Parent, anchor)' = {i \in Active(Parent, anchor) : i <= m}
                 /\ anchor > m => (transcript[Parent][anchor].arch)' /\ anchor # 0
                 /\ anchor # 0 /\ transcript[Parent][anchor].arch => (transcript[Parent][anchor].arch)'
      <3>1. anchor \in Nat /\ anchor <= Len(transcript[Parent]) /\ rows[Parent].there
          BY <2>1, <2>3, <2>4 DEF ThreadSound, PrefixSound
      <3>2. \A i \in Nat : i <= anchor /\ i # 0 => i \in DOMAIN transcript[Parent] /\ i \in DOMAIN transcript'[Parent]
                                        /\ i \in 1 .. Len(transcript[Parent])
          BY <1>1, <3>1
      <3>3. Active(Parent, anchor)' = {i \in Active(Parent, anchor) : i <= m}
          BY <1>1, <3>1, <3>2 DEF Active
      <3> QED  BY <3>1, <3>2, <3>3
    <2>5. PrefixSound(t)'
      <3> SUFFICES ASSUME (run[t].at \in Driven /\ rows[Parent].there)'
                   PROVE  (/\ run[t].anchor <= Len(transcript[Parent])
                           /\ \/ Active(Parent, run[t].anchor) = prefix[t]
                              \/ /\ BeginsAs(Active(Parent, run[t].anchor), prefix[t])
                                 /\ run[t].anchor # 0 /\ transcript[Parent][run[t].anchor].arch)'
          BY DEF PrefixSound
      <3>1. run[t].at \in Driven /\ rows[Parent].there  OBVIOUS
      <3>2. anchor \in Nat /\ anchor <= Len(transcript'[Parent])  BY <1>1, <2>3, <2>4, <3>1
      <3>3. CASE anchor <= m
        <4>1. Active(Parent, anchor)' = Active(Parent, anchor)
          <5>1. \A i \in Active(Parent, anchor) : i <= m  BY <1>1, <3>2, <3>3 DEF Active
          <5> QED  BY <2>4, <3>1, <5>1
        <4> QED  BY <2>1, <2>4, <3>1, <3>2, <4>1 DEF ThreadSound, PrefixSound
      <3>4. CASE anchor > m
        <4>1. BeginsAs(Active(Parent, anchor), prefix[t])  BY <2>1, <3>1 DEF ThreadSound, PrefixSound, BeginsAs
        <4>2. prefix[t] \subseteq Nat  BY <1>1 DEF TypeOK
        <4>3. BeginsAs(Active(Parent, anchor)', prefix[t])  BY <2>4, <3>1, <4>1, <4>2 DEF BeginsAs
        <4> QED  BY <2>4, <3>1, <3>2, <3>4, <4>3 DEF BeginsAs
      <3> QED  BY <3>2, <3>3, <3>4
    <2>6. GivenSound(t)'  BY <2>1, <2>4 DEF ThreadSound, GivenSound, BeginsAs
    <2> QED  BY <2>2, <2>5, <2>6 DEF ThreadSound
  <1>3. AnswersKept' /\ CopiesCounted'  BY DEF ThreadsInv, AnswersKept, CopiesCounted
  <1> QED  BY <1>2, <1>3 DEF ThreadsInv

LEMMA ParentAppendsSound == ASSUME ThreadsInv, NEW by \in {"user", "agent"}, ParentAppends(by) PROVE ThreadsInv'
  <1>1. TypeOK /\ TypeOK' /\ Parent \in Conversations
    <2>1. TypeOK'  BY UsersTyped DEF ThreadsInv
    <2> QED  BY <2>1 DEF ThreadsInv, Conversations
  <1>2. transcript[Parent] \in Seq(Message) /\ Len(transcript[Parent]) \in Nat  BY <1>1 DEF TypeOK
  <1>3. /\ rows[Parent].there /\ rows'[Parent].there
        /\ rows'[Parent].head = Len(transcript[Parent]) + 1
        /\ Len(transcript'[Parent]) = Len(transcript[Parent]) + 1
        /\ \A i \in 1 .. Len(transcript[Parent]) : transcript'[Parent][i] = transcript[Parent][i]
        /\ \A t \in Spawns : rows'[t] = rows[t]
    <2>1. \A t \in Spawns : t \in Conversations \ {Parent}  BY ThreadsAssumption DEF Conversations
    <2> QED  BY <1>1, <2>1, AppendTyped DEF ParentAppends
  <1>4. UNCHANGED <<run, noted, prefix, given, await, copied, patches, failures>>
      BY DEF ParentAppends, historyVars, requestVars
  <1>5. ParentKept'
    <2>1. copied # NoCopy /\ copied.of = Parent => copied.row.there /\ copied.row.head <= Len(transcript[Parent])
        BY <1>3 DEF ThreadsInv, ParentKept
    <2>2. copied.row \in {NoRow} \cup Row  BY <1>1 DEF TypeOK
    <2>3. copied.row.there => copied.row.head \in Nat  BY <2>2, RowStates
    <2>4. copied # NoCopy /\ copied.of = Parent => copied.row.head <= Len(transcript'[Parent])
        BY <1>2, <1>3, <2>1, <2>3
    <2> QED  BY <1>2, <1>3, <1>4, <2>1, <2>4 DEF ParentKept, NoCopy
  <1>6. \A i \in 1 .. Len(transcript[Parent]) :
           transcript'[Parent][i].arch <=> i > Len(transcript[Parent]) \/ transcript[Parent][i].arch
      BY <1>2, <1>3
  <1>7. Len(transcript'[Parent]) >= Len(transcript[Parent])  BY <1>2, <1>3
  <1> QED  BY <1>1, <1>2, <1>3, <1>4, <1>5, <1>6, <1>7, ParentSteps

LEMMA BranchSound == ASSUME ThreadsInv, NEW m \in 1 .. MaxParent, BranchParent(m) PROVE ThreadsInv'
  <1>1. TypeOK /\ TypeOK' /\ Parent \in Conversations
    <2>1. TypeOK'  BY BranchTyped DEF ThreadsInv
    <2> QED  BY <2>1 DEF ThreadsInv, Conversations
  <1>2. transcript[Parent] \in Seq(Message) /\ Len(transcript[Parent]) \in Nat /\ m \in Nat
      BY <1>1, ThreadsAssumption DEF TypeOK
  <1>3. /\ m \in 1 .. Len(transcript[Parent]) /\ Len(transcript'[Parent]) = Len(transcript[Parent])
        /\ \A i \in 1 .. Len(transcript[Parent]) :
             transcript'[Parent][i].arch <=> i > m \/ transcript[Parent][i].arch
        /\ rows[Parent] \in Row => rows'[Parent] = [rows[Parent] EXCEPT !.head = m]
        /\ \A t \in Spawns : rows'[t] = rows[t]
      BY <1>1, BranchTyped
  <1>4. rows[Parent].there
    <2>1. transcript[Parent] # <<>>  BY <1>2, <1>3, EmptySeq
    <2> QED  BY <2>1 DEF ThreadsInv, ParentKept
  <1>5. rows'[Parent].head = m /\ rows'[Parent].there
    <2>1. rows[Parent] \in Row  BY <1>1, <1>4, RowStates DEF TypeOK
    <2> QED  BY <1>3, <2>1 DEF Row
  <1>6. UNCHANGED <<run, noted, prefix, given, await, copied, patches, failures>>
      BY DEF BranchParent, historyVars, requestVars
  <1>7. ParentKept'  BY <1>2, <1>3, <1>4, <1>5, <1>6 DEF ThreadsInv, ParentKept, NoCopy
  <1>8. Len(transcript'[Parent]) >= Len(transcript[Parent])  BY <1>2, <1>3
  <1> QED  BY <1>1, <1>2, <1>3, <1>4, <1>6, <1>7, <1>8, ParentSteps

LEMMA ReadRowSound == ASSUME ThreadsInv, NEW c \in Conversations, ReadRow(c) PROVE ThreadsInv'
  <1>1. TypeOK /\ TypeOK'
    <2>1. TypeOK'  BY UsersTyped DEF ThreadsInv, Conversations
    <2> QED  BY <2>1 DEF ThreadsInv
  <1>2. /\ UNCHANGED <<rows, transcript, run, noted, prefix, given, await, failures>>
        /\ rows[c].there /\ copied'.of = c /\ copied'.row = rows[c] /\ patches' # 0
      BY <1>1 DEF ReadRow, storeVars, historyVars, TypeOK
  <1>3. ParentKept'  BY <1>2 DEF ThreadsInv, ParentKept
  <1>4. ASSUME NEW t \in Spawns PROVE ThreadSound(t)'
    <2>1. ThreadSound(t)  BY DEF ThreadsInv
    <2>2. PrefixSound(t)' /\ GivenSound(t)' /\ NotedSound(t)'
        BY <1>2, <2>1 DEF ThreadSound, PrefixSound, GivenSound, NotedSound, Active
    <2>3. OutcomeSound(t)'  BY <1>2, <2>1 DEF ThreadSound, OutcomeSound
    <2> QED  BY <2>2, <2>3 DEF ThreadSound
  <1>5. AnswersKept' /\ CopiesCounted'  BY <1>2 DEF ThreadsInv, AnswersKept, CopiesCounted
  <1> QED  BY <1>1, <1>3, <1>4, <1>5 DEF ThreadsInv

\* A row that is written back may be an earlier one.
LEMMA WriteRowSound == ASSUME ThreadsInv, WriteRow PROVE ThreadsInv'
  <1>1. TypeOK /\ TypeOK'
    <2>1. TypeOK'  BY UsersTyped DEF ThreadsInv
    <2> QED  BY <2>1 DEF ThreadsInv
  <1>2. /\ UNCHANGED <<transcript, run, noted, prefix, given, await, patches, failures>>
        /\ copied # NoCopy /\ copied' = NoCopy /\ copied'.of = Parent
      BY DEF WriteRow, historyVars, NoCopy
  <1> DEFINE c == copied.of
  <1>3. c \in Conversations /\ Spawns \subseteq Conversations /\ Parent \in Conversations /\ Parent \notin Spawns
      BY <1>1, ThreadsAssumption DEF TypeOK, Conversations
  <1>4. /\ \A d \in Conversations \ {c} : rows'[d] = rows[d]
        /\ rows'[c] = IF rows[c].there THEN copied.row ELSE rows[c]
      BY <1>1, <1>3 DEF WriteRow, TypeOK
  <1> HIDE DEF c
  <1>5. ParentKept' /\ (rows'[Parent].there <=> rows[Parent].there)
    <2>1. CASE c = Parent  BY <1>2, <1>4, <2>1 DEF ThreadsInv, ParentKept, c
    <2>2. CASE c # Parent  BY <1>2, <1>3, <1>4, <2>2 DEF ThreadsInv, ParentKept
    <2> QED  BY <2>1, <2>2
  <1>6. ASSUME NEW t \in Spawns PROVE ThreadSound(t)'
    <2>1. ThreadSound(t)  BY DEF ThreadsInv
    <2>2. PrefixSound(t)' /\ GivenSound(t)' /\ NotedSound(t)'
        BY <1>2, <1>5, <2>1 DEF ThreadSound, PrefixSound, GivenSound, NotedSound, Active
    <2>3. OutcomeSound(t)'
      <3>1. CASE c = t /\ rows[t].there
        <4>1. rows'[t] = copied.row /\ patches # 0
            BY <1>3, <1>4, <3>1 DEF ThreadsInv, CopiesCounted, c
        <4> QED  BY <1>2, <1>3, <2>1, <3>1, <4>1 DEF ThreadSound, OutcomeSound, c
      <3>2. CASE c # t \/ ~rows[t].there
        <4>1. rows'[t] = rows[t]  BY <1>3, <1>4, <3>2
        <4> QED  BY <1>2, <1>3, <2>1, <4>1 DEF ThreadSound, OutcomeSound
      <3> QED  BY <3>1, <3>2
    <2> QED  BY <2>2, <2>3 DEF ThreadSound
  <1>7. AnswersKept' /\ CopiesCounted'  BY <1>2 DEF ThreadsInv, AnswersKept, CopiesCounted
  <1> QED  BY <1>1, <1>5, <1>6, <1>7 DEF ThreadsInv

LEMMA DeleteRowSound == ASSUME ThreadsInv, NEW c \in Conversations, DeleteRow(c) PROVE ThreadsInv'
  <1>1. TypeOK /\ TypeOK'
    <2>1. TypeOK'  BY UsersTyped DEF ThreadsInv, Conversations
    <2> QED  BY <2>1 DEF ThreadsInv
  <1>2. /\ UNCHANGED <<run, prefix, given, await, copied, patches, failures>>
        /\ c # Parent => UNCHANGED noted
      BY DEF DeleteRow, historyVars
  <1>3. /\ rows'[c] = NoRow /\ transcript'[c] = <<>> /\ ~rows'[c].there
        /\ \A d \in Conversations \ {c} : rows'[d] = rows[d] /\ transcript'[d] = transcript[d]
      BY <1>1 DEF DeleteRow, TypeOK, NoRow
  <1>4. Spawns \subseteq Conversations /\ Parent \in Conversations /\ Parent \notin Spawns
      BY ThreadsAssumption DEF Conversations
  <1>5. \/ ~rows'[Parent].there /\ transcript'[Parent] = <<>>
        \/ rows'[Parent] = rows[Parent] /\ transcript'[Parent] = transcript[Parent] /\ UNCHANGED noted
      BY <1>2, <1>3, <1>4
  <1>6. ParentKept'
    <2>1. CASE ~rows'[Parent].there /\ transcript'[Parent] = <<>>  BY <2>1 DEF ParentKept
    <2>2. CASE rows'[Parent] = rows[Parent] /\ transcript'[Parent] = transcript[Parent]
        BY <1>2, <2>2 DEF ThreadsInv, ParentKept
    <2> QED  BY <1>5, <2>1, <2>2
  <1>7. ASSUME NEW t \in Spawns PROVE ThreadSound(t)'
    <2>1. ThreadSound(t)  BY DEF ThreadsInv
    <2>2. rows'[t] = rows[t] \/ ~rows'[t].there  BY <1>3, <1>4
    <2>3. PrefixSound(t)' /\ GivenSound(t)' /\ NotedSound(t)'
      <3>1. CASE ~rows'[Parent].there
          BY <1>2, <2>1, <3>1 DEF ThreadSound, PrefixSound, GivenSound, NotedSound
      <3>2. CASE rows'[Parent] = rows[Parent] /\ transcript'[Parent] = transcript[Parent] /\ UNCHANGED noted
          BY <1>2, <2>1, <3>2 DEF ThreadSound, PrefixSound, GivenSound, NotedSound, Active
      <3> QED  BY <1>5, <3>1, <3>2
    <2>4. OutcomeSound(t)'  BY <1>2, <2>1, <2>2 DEF ThreadSound, OutcomeSound
    <2> QED  BY <2>3, <2>4 DEF ThreadSound
  <1>8. AnswersKept' /\ CopiesCounted'  BY <1>2 DEF ThreadsInv, AnswersKept, CopiesCounted
  <1> QED  BY <1>1, <1>6, <1>7, <1>8 DEF ThreadsInv

\* Steps that no part of the invariant reads
LEMMA DeletesSound ==
    ASSUME ThreadsInv, TypeOK',
           UNCHANGED <<rows, transcript, run, noted, prefix, given, await, copied, patches>>,
           failures' = 0 => failures = 0
    PROVE  ThreadsInv'
  <1>1. ParentKept' /\ AnswersKept' /\ CopiesCounted'  BY DEF ThreadsInv, ParentKept, AnswersKept, CopiesCounted
  <1>2. \A t \in Spawns : ThreadSound(t)'  BY OtherThread
  <1> QED  BY <1>1, <1>2 DEF ThreadsInv

LEMMA CancelSound == ASSUME ThreadsInv, CancelTurn PROVE ThreadsInv'
  <1>1. TypeOK /\ TypeOK'
    <2>1. TypeOK'  BY UsersTyped DEF ThreadsInv
    <2> QED  BY <2>1 DEF ThreadsInv
  <1>2. UNCHANGED <<rows, transcript, noted, prefix, given, copied, patches, failures>>
      BY DEF CancelTurn, storeVars, historyVars, requestVars
  <1>3. ASSUME NEW t \in Spawns
        PROVE  run'[t].at = run[t].at /\ run'[t].anchor = run[t].anchor /\ run'[t].outcome = run[t].outcome
    <2>1. run'[t] = run[t] \/ (run[t].at \in Driven /\ run'[t] = [run[t] EXCEPT !.cancelled = TRUE])
        BY <1>1, BusyStates DEF CancelTurn
    <2>2. CASE run'[t] = run[t]  BY <2>2
    <2>3. CASE run[t].at \in Driven /\ run'[t] = [run[t] EXCEPT !.cancelled = TRUE]
      <3>1. run[t] \in Busy  BY <1>1, <2>3, BusyStates
      <3> QED  BY <2>3, <3>1 DEF Busy
    <2> QED  BY <2>1, <2>2, <2>3
  <1>4. ASSUME NEW t \in Spawns PROVE ThreadSound(t)'
    <2>1. ThreadSound(t)  BY DEF ThreadsInv
    <2>2. run'[t].at = run[t].at /\ run'[t].anchor = run[t].anchor /\ run'[t].outcome = run[t].outcome  BY <1>3
    <2>3. PrefixSound(t)'  BY <1>2, <2>1, <2>2 DEF ThreadSound, PrefixSound, Active
    <2>4. GivenSound(t)'  BY <1>2, <2>1, <2>2 DEF ThreadSound, GivenSound
    <2>5. OutcomeSound(t)'  BY <1>2, <2>1, <2>2 DEF ThreadSound, OutcomeSound
    <2>6. NotedSound(t)'  BY <1>2, <2>1, <2>2 DEF ThreadSound, NotedSound
    <2> QED  BY <2>3, <2>4, <2>5, <2>6 DEF ThreadSound
  <1>5. AnswersKept'
    <2> SUFFICES ASSUME NEW a \in Awaiters, (await[a].at = "returned" /\ await[a].answer \in Outcomes)'
                 PROVE  run'[await'[a].of].at = "done" /\ run'[await'[a].of].outcome = await'[a].answer
        BY DEF AnswersKept
    <2>1. await[a] \in {Silent} \cup Polling \cup Returned  BY <1>1 DEF TypeOK
    <2>2. await'[a] = IF await[a].at = "polls" THEN [await[a] EXCEPT !.cancelled = TRUE] ELSE await[a]
        BY DEF CancelTurn
    <2>3. await[a].at # "polls"
      <3>1. await[a].at = "polls" => await[a] \in Polling  BY <2>1, AwaitStates
      <3>2. await[a] \in Polling => [await[a] EXCEPT !.cancelled = TRUE].at = "polls"  BY DEF Polling
      <3> QED  BY <2>2, <3>1, <3>2
    <2>4. await'[a] = await[a]  BY <2>2, <2>3
    <2>5. await[a].of \in Spawns
      <3>1. await[a] \in Returned  BY <2>1, <2>4, AwaitStates
      <3> QED  BY <3>1 DEF Returned
    <2>6. run[await[a].of].at = "done" /\ run[await[a].of].outcome = await[a].answer
        BY <2>4 DEF ThreadsInv, AnswersKept
    <2> QED  BY <1>3, <2>4, <2>5, <2>6
  <1>6. ParentKept' /\ CopiesCounted'  BY <1>2 DEF ThreadsInv, ParentKept, CopiesCounted
  <1> QED  BY <1>1, <1>4, <1>5, <1>6 DEF ThreadsInv

\* A crash ends the goroutines; what they had stored stays.
LEMMA DiesSound == ASSUME ThreadsInv, ServerDies PROVE ThreadsInv'
  <1>1. TypeOK /\ TypeOK'
    <2>1. TypeOK'  BY UsersTyped DEF ThreadsInv
    <2> QED  BY <2>1 DEF ThreadsInv
  <1>2. /\ UNCHANGED <<rows, transcript, noted, patches>> /\ failures' # 0
        /\ copied' = NoCopy /\ copied'.of = Parent /\ Parent \notin Spawns
        /\ \A t \in Spawns : given'[t] = {}
      BY <1>1, ThreadsAssumption DEF ServerDies, storeVars, Breaks, TypeOK, NoCopy
  <1>3. ASSUME NEW t \in Spawns
        PROVE  \/ run'[t] = run[t] /\ run[t].at \in {"none", "refused", "done"}
               \/ run[t].at \notin {"none", "refused", "done"} /\ run'[t].at = "dead"
      BY <1>1 DEF ServerDies
  <1>4. ASSUME NEW t \in Spawns PROVE ThreadSound(t)'
    <2>1. ThreadSound(t)  BY DEF ThreadsInv
    <2>2. PrefixSound(t)'  BY <1>3 DEF PrefixSound
    <2>3. GivenSound(t)'  BY <1>2 DEF GivenSound
    <2>4. OutcomeSound(t)'  BY <1>2, <1>3, <2>1 DEF ThreadSound, OutcomeSound
    <2>5. NotedSound(t)'  BY <1>2 DEF NotedSound
    <2> QED  BY <2>2, <2>3, <2>4, <2>5 DEF ThreadSound
  <1>5. AnswersKept'
    <2> SUFFICES ASSUME NEW a \in Awaiters, (await[a].at = "returned" /\ await[a].answer \in Outcomes)'
                 PROVE  run'[await'[a].of].at = "done" /\ run'[await'[a].of].outcome = await'[a].answer
        BY DEF AnswersKept
    <2>1. await'[a] = await[a]  BY DEF ServerDies, Silent
    <2>2. await[a].of \in Spawns
      <3>1. await[a] \in {Silent} \cup Polling \cup Returned  BY <1>1 DEF TypeOK
      <3>2. await[a] \in Returned  BY <2>1, <3>1, AwaitStates
      <3> QED  BY <3>2 DEF Returned
    <2>3. run[await[a].of].at = "done" /\ run[await[a].of].outcome = await[a].answer
        BY <2>1 DEF ThreadsInv, AnswersKept
    <2> QED  BY <1>3, <2>1, <2>2, <2>3
  <1>6. ParentKept' /\ CopiesCounted'  BY <1>2 DEF ThreadsInv, ParentKept, CopiesCounted
  <1> QED  BY <1>1, <1>4, <1>5, <1>6 DEF ThreadsInv

-----------------------------------------------------------------------------
(* The theorems. *)

LEMMA NextInv == ASSUME ThreadsInv, [ThreadNext]_threadVars PROVE ThreadsInv'
  <1>1. TypeOK'  BY NextTyped DEF ThreadsInv, ThreadSound
  <1>2. ASSUME NEW t \in Spawns, SpawnStep(t) PROVE ThreadsInv'
    <2>1. CASE CreateThread(t)  BY <2>1, CreateSound
    <2>2. CASE Announce(t)  BY <2>2, AnnounceSound
    <2>3. CASE AppendTask(t)  BY <2>3, AppendTaskSound
    <2>4. CASE FindAnchor(t)  BY <2>4, FindAnchorSound
    <2>5. CASE ReadChain(t)  BY <2>5, ReadChainSound
    <2>6. CASE ModelAnswers(t)  BY <2>6, ModelAnswersSound
    <2>7. CASE NoteOutcome(t)  BY <2>7, NoteOutcomeSound
    <2>8. CASE StoreOutcome(t)  BY <2>8, StoreOutcomeSound
    <2> QED  BY <1>2, <2>1, <2>2, <2>3, <2>4, <2>5, <2>6, <2>7, <2>8 DEF SpawnStep
  <1>3. ASSUME NEW t \in Spawns, NEW full \in BOOLEAN, NEW blocking \in BOOLEAN, ResolveAnchor(t, full, blocking)
        PROVE  ThreadsInv'
      BY <1>3, ResolveSound
  <1>4. ASSUME NEW a \in Awaiters, PollStatus(a) PROVE ThreadsInv'  BY <1>4, PollSound
  <1>5. ASSUME NEW a \in Awaiters, NEW t \in Spawns, NEW blocking \in BOOLEAN, BeginAwait(a, t, blocking)
        PROVE  ThreadsInv'
      BY <1>5, BeginAwaitSound
  <1>6. ASSUME NEW by \in {"user", "agent"}, ParentAppends(by) PROVE ThreadsInv'  BY <1>6, ParentAppendsSound
  <1>7. ASSUME NEW m \in 1 .. MaxParent, BranchParent(m) PROVE ThreadsInv'  BY <1>7, BranchSound
  <1>8. ASSUME NEW c \in Spawns \cup {Parent}, ReadRow(c) \/ BeginDelete(c) \/ DeleteRow(c) PROVE ThreadsInv'
    <2>1. c \in Conversations  BY DEF Conversations
    <2>2. CASE ReadRow(c)  BY <2>1, <2>2, ReadRowSound
    <2>3. CASE BeginDelete(c)  BY <1>1, <2>3, DeletesSound DEF BeginDelete, storeVars, historyVars
    <2>4. CASE DeleteRow(c)  BY <2>1, <2>4, DeleteRowSound
    <2> QED  BY <1>8, <2>2, <2>3, <2>4
  <1>9. CASE WriteRow  BY <1>9, WriteRowSound
  <1>10. CASE DeleteFails
    <2>1. failures' = 0 => failures = 0  BY <1>10 DEF DeleteFails, Breaks, ThreadsInv, TypeOK
    <2> QED  BY <1>1, <1>10, <2>1, DeletesSound DEF DeleteFails, storeVars, historyVars
  <1>11. CASE CancelTurn  BY <1>11, CancelSound
  <1>12. CASE ServerDies  BY <1>12, DiesSound
  <1>13. CASE UNCHANGED threadVars  BY <1>1, <1>13, DeletesSound DEF threadVars
  <1> QED  BY <1>2, <1>3, <1>4, <1>5, <1>6, <1>7, <1>8, <1>9, <1>10, <1>11, <1>12, <1>13 DEF ThreadNext

LEMMA InvHolds == ThreadSpec => []ThreadsInv
  BY InitInv, NextInv, PTL DEF ThreadSpec

\* The rows, transcripts, goroutines and requests have their types in every state that spawn_thread,
\* await_thread and the handlers of conversations reach.
THEOREM TypesKept == ThreadSpec => []TypeOK
  <1>1. ThreadsInv => TypeOK  BY DEF ThreadsInv
  <1> QED  BY <1>1, InvHolds, PTL

\* A thread reads the parent's messages up to its anchor as they were when the anchor was resolved
\* (buildHistory), a terminal status and an answer of await_thread are the outcome of its turn
\* (driveChildSession), and nothing but a failure or a row written back loses it.
THEOREM ThreadsAreSound == ThreadSpec => []ThreadsSound
  <1>1. ThreadsInv => ThreadsSound
    <2> SUFFICES ASSUME ThreadsInv PROVE ThreadsSound  OBVIOUS
    <2>1. HistoryAnchored
      <3> SUFFICES ASSUME NEW t \in Spawns PROVE GivenSound(t)  BY DEF HistoryAnchored, GivenSound
      <3> QED  BY DEF ThreadsInv, ThreadSound
    <2>2. ASSUME NEW t \in Spawns, rows[t].there, rows[t].status # "running"
          PROVE  /\ rows[t].status = run[t].outcome
                 /\ failures = 0 /\ rows[Parent].there => noted[t] = <<"spawned", "started", rows[t].status>>
        BY <2>2 DEF ThreadsInv, ThreadSound, OutcomeSound, NotedSound
    <2>3. \A a \in Awaiters : await[a].at = "returned" /\ await[a].answer \in {"completed", "failed"} =>
              run[await[a].of].outcome = await[a].answer
        BY DEF ThreadsInv, AnswersKept
    <2>4. OutcomeTold  BY <2>2, <2>3 DEF OutcomeTold
    <2>5. OutcomeKept  BY DEF ThreadsInv, ThreadSound, OutcomeSound, OutcomeKept
    <2> QED  BY <2>1, <2>4, <2>5 DEF ThreadsSound
  <1> QED  BY <1>1, InvHolds, PTL
=============================================================================
