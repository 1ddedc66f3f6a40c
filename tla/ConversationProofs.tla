------------------------- MODULE ConversationProofs -------------------------
(***************************************************************************)
(* Proofs about Conversation, for every finite set of requests and any     *)
(* number of rows, versions and restarts: the numbers of the timeline, the *)
(* pointers of the conversation, what a branch leaves and loses, and that  *)
(* Conversation implements Transcript.                                     *)
(***************************************************************************)
EXTENDS Conversation, FiniteSetTheorems, SequenceTheorems, WellFoundedInduction, TLAPS

-----------------------------------------------------------------------------
(* Finite sets of numbers. *)

\* A finite set of numbers has a largest one.
LEMMA MaxOf ==
    ASSUME NEW S \in SUBSET Nat, IsFiniteSet(S), S # {}
    PROVE  Max(S) \in S /\ \A y \in S : y <= Max(S)
  <1> DEFINE HasMax(U) == \E x \in U : \A y \in U : x >= y
             F == FiniteSubsetsOf(S)
             Bad == {U \in F : U # {} /\ ~HasMax(U)}
  <1>1. Bad = {}
    <2> SUFFICES ASSUME Bad # {} PROVE FALSE  OBVIOUS
    <2>1. IsWellFoundedOn(StrictSubsetOrdering(S), F)  BY FS_StrictSubsetOrderingWellFounded
    <2>2. Bad \subseteq F  OBVIOUS
    <2>3. PICK U \in Bad : \A V \in Bad : ~(<<V, U>> \in StrictSubsetOrdering(S))  BY <2>1, <2>2, WFMin
    <2>4. U \in SUBSET S /\ IsFiniteSet(U) /\ U # {}  BY <2>3 DEF FiniteSubsetsOf
    <2>5. PICK x \in U : TRUE  BY <2>4
    <2> DEFINE V == U \ {x}
    <2>6. V \in F
      <3>1. IsFiniteSet(V)  BY <2>4, FS_RemoveElement
      <3> QED  BY <2>4, <3>1 DEF FiniteSubsetsOf
    <2>7. V \notin Bad
      <3>1. <<V, U>> \in StrictSubsetOrdering(S)
        <4>1. V \in SUBSET U /\ V # U  BY <2>5
        <4> QED  BY <2>4, <2>6, <4>1 DEF StrictSubsetOrdering, FiniteSubsetsOf
      <3> QED  BY <2>3, <3>1
    <2>8. CASE V = {}
      <3>1. U = {x} /\ x \in Nat  BY <2>4, <2>5, <2>8
      <3>2. HasMax(U)  BY <3>1
      <3> QED  BY <2>3, <3>2
    <2>9. CASE V # {}
      <3>1. PICK z \in V : \A y \in V : z >= y  BY <2>6, <2>7, <2>9
      <3>2. \A y \in U : y \in V \/ y = x  OBVIOUS
      <3>3. x \in Nat /\ z \in Nat /\ z \in U /\ \A y \in U : y \in Nat  BY <2>4, <2>5, <3>1
      <3>4. CASE x >= z
        <4>1. \A y \in U : x >= y  BY <3>1, <3>2, <3>3, <3>4
        <4> QED  BY <2>3, <2>5, <4>1
      <3>5. CASE z >= x
        <4>1. \A y \in U : z >= y  BY <3>1, <3>2, <3>3, <3>5
        <4> QED  BY <2>3, <3>3, <4>1
      <3> QED  BY <3>3, <3>4, <3>5
    <2> QED  BY <2>8, <2>9
  <1>2. S \in F  BY DEF FiniteSubsetsOf
  <1>3. HasMax(S)  BY <1>1, <1>2
  <1>4. PICK x \in S : \A y \in S : x >= y  BY <1>3
  <1>5. Max(S) \in S /\ \A y \in S : Max(S) >= y  BY <1>4 DEF Max
  <1> QED  BY <1>5

\* The values of a function on a finite set are no more than its arguments.
LEMMA ImageIsFinite ==
    ASSUME NEW S, IsFiniteSet(S), NEW f
    PROVE  IsFiniteSet({f[x] : x \in S}) /\ Cardinality({f[x] : x \in S}) <= Cardinality(S)
  <1> DEFINE T == {f[x] : x \in S}
             g == [x \in S |-> f[x]]
  <1>1. g \in Surjection(S, T)  BY DEF Surjection
  <1> HIDE DEF T, g
  <1>2. IsFiniteSet(T) /\ Cardinality(T) <= Cardinality(S)  BY <1>1, FS_Surjection
  <1> QED  BY <1>2 DEF T

\* The numbers from 1 to n are n numbers.
LEMMA OneTo == ASSUME NEW n \in Nat PROVE IsFiniteSet(1 .. n) /\ Cardinality(1 .. n) = n
  <1>1. 1 \in Int /\ n \in Int  OBVIOUS
  <1>2. IsFiniteSet(1 .. n) /\ Cardinality(1 .. n) = IF 1 > n THEN 0 ELSE n - 1 + 1  BY <1>1, FS_Interval
  <1> QED  BY <1>2

-----------------------------------------------------------------------------
(* The inductive invariant. *)

\* A request that may write back its copy, or looks at it, has one.
Copies ==
    \A r \in Requests :
        pc[r] \in {"retry", "edit", "ensure", "update", "append", "ensureAgain", "updateAgain", "title"} =>
            copy[r] \in Conv

\* No two rows were stamped alike, those on their way included.
Stamped ==
    /\ \A m, n \in DOMAIN messages : messages[m].at = messages[n].at => m = n
    /\ \A e, f \in DOMAIN events : events[e].at = events[f].at => e = f
    /\ \A m \in DOMAIN messages, e \in DOMAIN events : messages[m].at # events[e].at
    /\ \A r, s \in Requests : row[r] # NoRow /\ row[s] # NoRow /\ row[r].at = row[s].at => r = s
    /\ \A r \in Requests : row[r] # NoRow => row[r].at \notin RowStamps

\* The cursor counts the rows, of which every one has moved it on; numbers start at 1.
Numbered ==
    /\ \A m \in DOMAIN messages : messages[m].tl # 0
    /\ \A e \in DOMAIN events : events[e].tl # 0
    /\ cursor = NoCursor => messages = <<>> /\ events = <<>>
    /\ cursor # NoCursor => cursor = Len(messages) + Len(events) + 1

TimelineInv == TypeOK /\ Copies /\ Stamped /\ OneTimeline /\ Numbered

-----------------------------------------------------------------------------
(* Rows and stamps. *)

LEMMA Tables ==
    ASSUME TypeOK
    PROVE  /\ Len(messages) \in Nat /\ DOMAIN messages = 1 .. Len(messages)
           /\ Len(events) \in Nat /\ DOMAIN events = 1 .. Len(events)
           /\ \A m \in DOMAIN messages : /\ messages[m] \in Message /\ messages[m].at \in Nat /\ messages[m].tl \in Nat
                                         /\ messages[m].ver \in Nat \ {0} /\ messages[m].text \in Nat
                                         /\ messages[m].by \in Sender /\ messages[m].arch \in BOOLEAN
           /\ \A e \in DOMAIN events : /\ events[e] \in UIEvent /\ events[e].at \in Nat /\ events[e].tl \in Nat
                                       /\ events[e].arch \in BOOLEAN
           /\ conv.head \in Nat /\ conv.root \in Nat /\ conv.prompt \in Prompt
  <1>1. messages \in Seq(Message) /\ events \in Seq(UIEvent) /\ conv \in Conv  BY DEF TypeOK
  <1>2. /\ Len(messages) \in Nat /\ DOMAIN messages = 1 .. Len(messages)
        /\ Len(events) \in Nat /\ DOMAIN events = 1 .. Len(events)
      BY <1>1
  <1>3. \A m \in DOMAIN messages : messages[m] \in Message  BY <1>1
  <1>4. \A e \in DOMAIN events : events[e] \in UIEvent  BY <1>1
  <1> QED  BY <1>1, <1>2, <1>3, <1>4 DEF Message, UIEvent, Conv

LEMMA FiniteStamps ==
    ASSUME TypeOK
    PROVE  /\ IsFiniteSet({messages[m].at : m \in DOMAIN messages})
           /\ Cardinality({messages[m].at : m \in DOMAIN messages}) <= Len(messages)
           /\ IsFiniteSet({events[e].at : e \in DOMAIN events})
           /\ Cardinality({events[e].at : e \in DOMAIN events}) <= Len(events)
           /\ IsFiniteSet(RowStamps) /\ RowStamps \subseteq Nat
           /\ Cardinality(RowStamps) \in Nat /\ Cardinality(RowStamps) <= Len(messages) + Len(events)
           /\ IsFiniteSet(Stamps) /\ Stamps \subseteq Nat
  <1> DEFINE M == {messages[m].at : m \in DOMAIN messages}
             E == {events[e].at : e \in DOMAIN events}
             W == {s \in Requests : row[s] # NoRow}
             P == {row[r].at : r \in W}
  <1>1. IsFiniteSet(M) /\ Cardinality(M) <= Len(messages)
    <2>1. PICK f : f = [m \in DOMAIN messages |-> messages[m].at]  OBVIOUS
    <2>2. M = {f[m] : m \in 1 .. Len(messages)}  BY <2>1, Tables
    <2>3. IsFiniteSet(1 .. Len(messages)) /\ Cardinality(1 .. Len(messages)) = Len(messages)  BY Tables, OneTo
    <2> HIDE DEF M
    <2> QED  BY <2>2, <2>3, ImageIsFinite
  <1>2. IsFiniteSet(E) /\ Cardinality(E) <= Len(events)
    <2>1. PICK f : f = [e \in DOMAIN events |-> events[e].at]  OBVIOUS
    <2>2. E = {f[e] : e \in 1 .. Len(events)}  BY <2>1, Tables
    <2>3. IsFiniteSet(1 .. Len(events)) /\ Cardinality(1 .. Len(events)) = Len(events)  BY Tables, OneTo
    <2> HIDE DEF E
    <2> QED  BY <2>2, <2>3, ImageIsFinite
  <1>3. IsFiniteSet(P)
    <2>1. IsFiniteSet(W)
      <3>1. W \subseteq Requests  OBVIOUS
      <3> QED  BY <3>1, RequestsAssumption, FS_Subset
    <2>2. PICK f : f = [r \in W |-> row[r].at]  OBVIOUS
    <2>3. P = {f[r] : r \in W}  BY <2>2
    <2> HIDE DEF P, W
    <2> QED  BY <2>1, <2>3, ImageIsFinite
  <1>4. M \subseteq Nat /\ E \subseteq Nat /\ P \subseteq Nat
    <2>1. \A r \in W : row[r] \in Row
      <3>1. row \in [Requests -> Row \cup {NoRow}]  BY DEF TypeOK
      <3> QED  BY <3>1
    <2> QED  BY <2>1, Tables DEF Row
  <1>5. RowStamps = M \cup E /\ Stamps = RowStamps \cup P  BY DEF RowStamps, Stamps
  <1>6. Len(messages) \in Nat /\ Len(events) \in Nat  BY Tables
  <1> HIDE DEF M, E, P, W
  <1>7. /\ IsFiniteSet(M \cup E)
        /\ Cardinality(M \cup E) = Cardinality(M) + Cardinality(E) - Cardinality(M \cap E)
      BY <1>1, <1>2, FS_Union
  <1>8. /\ Cardinality(M \cap E) \in Nat /\ Cardinality(M) \in Nat /\ Cardinality(E) \in Nat
        /\ Cardinality(M \cup E) \in Nat
    <2>1. IsFiniteSet(M \cap E)  BY <1>1, FS_Intersection
    <2> QED  BY <1>1, <1>2, <1>7, <2>1, FS_CardinalityType
  <1>9. Cardinality(M \cup E) <= Len(messages) + Len(events)  BY <1>1, <1>2, <1>6, <1>7, <1>8
  <1>10. IsFiniteSet((M \cup E) \cup P)  BY <1>3, <1>7, FS_Union
  <1> QED  BY <1>1, <1>2, <1>4, <1>5, <1>7, <1>8, <1>9, <1>10 DEF M, E

\* The clock is later than every stamp.
LEMMA NowIsLater == ASSUME TypeOK PROVE Now \in Nat /\ \A a \in Stamps : a # Now
  <1> DEFINE S == Stamps \cup {0}
  <1>1. IsFiniteSet(S) /\ S \subseteq Nat /\ S # {}
    <2>1. IsFiniteSet(Stamps) /\ Stamps \subseteq Nat  BY FiniteStamps
    <2>2. IsFiniteSet(S)  BY <2>1, FS_AddElement
    <2>3. S \subseteq Nat /\ S # {}  BY <2>1
    <2> QED  BY <2>2, <2>3
  <1> HIDE DEF S
  <1>2. Max(S) \in Nat /\ \A a \in S : a <= Max(S)  BY <1>1, MaxOf
  <1>3. Now = 1 + Max(S)  BY DEF Now, S
  <1>4. \A a \in Stamps : a \in S /\ a \in Nat  BY <1>1 DEF S
  <1>5. \A a \in Stamps : a # Now  BY <1>2, <1>3, <1>4
  <1> QED  BY <1>2, <1>3, <1>5

\* A version that has not been used
LEMMA NextVersionIsNew ==
    ASSUME TypeOK
    PROVE  NextVersion \in Nat \ {0} /\ \A m \in DOMAIN messages : messages[m].ver < NextVersion
  <1> DEFINE V == {messages[m].ver : m \in DOMAIN messages}
             S == V \cup {1}
  <1>1. IsFiniteSet(V) /\ V \subseteq Nat
    <2>1. PICK f : f = [m \in DOMAIN messages |-> messages[m].ver]  OBVIOUS
    <2>2. V = {f[m] : m \in 1 .. Len(messages)} /\ V \subseteq Nat  BY <2>1, Tables
    <2>3. IsFiniteSet(1 .. Len(messages))  BY Tables, OneTo
    <2> HIDE DEF V
    <2> QED  BY <2>2, <2>3, ImageIsFinite
  <1>2. IsFiniteSet(S) /\ S \subseteq Nat /\ S # {}
    <2>1. 1 \in Nat  OBVIOUS
    <2> HIDE DEF V
    <2> QED  BY <1>1, <2>1, FS_AddElement
  <1>3. \A m \in DOMAIN messages : messages[m].ver \in S /\ messages[m].ver \in Nat  BY Tables
  <1>4. NextVersion = 1 + Max(S)  BY DEF NextVersion
  <1> HIDE DEF S
  <1>5. Max(S) \in Nat /\ \A a \in S : a <= Max(S)  BY <1>2, MaxOf
  <1> QED  BY <1>3, <1>4, <1>5

\* The cursor, or 1 while there is no row
LEMMA NextNumber ==
    ASSUME TimelineInv
    PROVE  /\ NextTimelineSeq = Len(messages) + Len(events) + 1
           /\ \A m \in DOMAIN messages : messages[m].tl < NextTimelineSeq
           /\ \A e \in DOMAIN events : events[e].tl < NextTimelineSeq
  <1>1. CASE cursor # NoCursor  BY <1>1 DEF NextTimelineSeq, TimelineInv, Numbered, OneTimeline
  <1>2. CASE cursor = NoCursor
    <2>1. messages = <<>> /\ events = <<>>  BY <1>2 DEF TimelineInv, Numbered
    <2>2. DOMAIN messages = {} /\ DOMAIN events = {} /\ Len(messages) = 0 /\ Len(events) = 0  BY <2>1
    <2>3. {messages[m].tl : m \in DOMAIN messages} \cup {events[e].tl : e \in DOMAIN events} \cup {0} = {0}
        BY <2>2
    <2>4. Max({0}) = 0
      <3>1. {0} \in SUBSET Nat /\ IsFiniteSet({0}) /\ {0} # {}  BY FS_Singleton
      <3>2. Max({0}) \in {0}  BY <3>1, MaxOf
      <3> QED  BY <3>2
    <2>5. NextTimelineSeq = 1 + Max({0})  BY <1>2, <2>3 DEF NextTimelineSeq
    <2> QED  BY <2>2, <2>4, <2>5
  <1> QED  BY <1>1, <1>2

-----------------------------------------------------------------------------
(* Steps that leave the numbers and the stamps alone. *)

LEMMA SameRows ==
    ASSUME TimelineInv, TypeOK', Copies', cursor' = cursor, row' = row,
           DOMAIN messages' = DOMAIN messages, Len(messages') = Len(messages),
           DOMAIN events' = DOMAIN events, Len(events') = Len(events),
           \A m \in DOMAIN messages : messages'[m].at = messages[m].at /\ messages'[m].tl = messages[m].tl,
           \A e \in DOMAIN events : events'[e].at = events[e].at /\ events'[e].tl = events[e].tl
    PROVE  TimelineInv'
  <1>1. RowStamps' = RowStamps  BY DEF RowStamps
  <1>2. Stamped'  BY <1>1 DEF TimelineInv, Stamped
  <1>3. OneTimeline'  BY DEF TimelineInv, OneTimeline
  <1>4. Numbered'
    <2>1. \A m \in DOMAIN messages' : messages'[m].tl # 0  BY DEF TimelineInv, Numbered
    <2>2. \A e \in DOMAIN events' : events'[e].tl # 0  BY DEF TimelineInv, Numbered
    <2>3. cursor' # NoCursor => cursor' = Len(messages') + Len(events') + 1  BY DEF TimelineInv, Numbered
    <2>4. cursor' = NoCursor => messages' = <<>> /\ events' = <<>>
      <3>1. SUFFICES ASSUME cursor = NoCursor PROVE messages' = <<>> /\ events' = <<>>  OBVIOUS
      <3>2. messages = <<>> /\ events = <<>>  BY <3>1 DEF TimelineInv, Numbered
      <3>3. Len(messages') = 0 /\ Len(events') = 0  BY <3>2
      <3>4. messages' \in Seq(Message) /\ events' \in Seq(UIEvent)  BY DEF TypeOK
      <3> QED  BY <3>3, <3>4, EmptySeq
    <2> QED  BY <2>1, <2>2, <2>3, <2>4 DEF Numbered
  <1> QED  BY <1>2, <1>3, <1>4 DEF TimelineInv

LEMMA SameTables ==
    ASSUME TimelineInv, TypeOK', Copies', UNCHANGED <<messages, events, cursor, row>>
    PROVE  TimelineInv'
  BY SameRows

LEMMA LoadKeeps == ASSUME TimelineInv, NEW r \in Requests, Load(r) PROVE TimelineInv'
  <1>1. Loaded \in Conv /\ conv \in Conv  BY DEF TimelineInv, TypeOK, Loaded, Seen, Conv, NoMsg
  <1>2. TypeOK'
    <2>1. pc' \in [Requests -> PC]  BY DEF TimelineInv, TypeOK, Load, GoTo, PC
    <2>2. copy' \in [Requests -> Conv \cup {NoCopy}]  BY <1>1 DEF TimelineInv, TypeOK, Load
    <2>3. served' \in Nat  BY DEF TimelineInv, TypeOK, Load, Arrives
    <2> QED  BY <2>1, <2>2, <2>3 DEF TimelineInv, TypeOK, Load, dbVars
  <1>3. Copies'
    <2> SUFFICES ASSUME NEW s \in Requests,
                        pc'[s] \in {"retry", "edit", "ensure", "update", "append",
                                    "ensureAgain", "updateAgain", "title"}
                 PROVE  copy'[s] \in Conv
        BY DEF Copies
    <2> QED  BY <1>1 DEF TimelineInv, TypeOK, Copies, Load, GoTo
  <1> QED  BY <1>2, <1>3, SameTables DEF Load, dbVars

LEMMA LoadBranchKeeps ==
    ASSUME TimelineInv, NEW r \in Requests, NEW t \in DOMAIN messages, LoadBranch(r, t)
    PROVE  TimelineInv'
  <1>1. Loaded \in Conv  BY DEF TimelineInv, TypeOK, Loaded, Seen, Conv, NoMsg
  <1>2. t \in Nat  BY Tables DEF TimelineInv
  <1>3. TypeOK'
    <2>1. pc' \in [Requests -> PC]  BY DEF TimelineInv, TypeOK, LoadBranch, GoTo, PC
    <2>2. copy' \in [Requests -> Conv \cup {NoCopy}]  BY <1>1 DEF TimelineInv, TypeOK, LoadBranch
    <2>3. target' \in [Requests -> Nat]  BY <1>2 DEF TimelineInv, TypeOK, LoadBranch
    <2>4. served' \in Nat  BY DEF TimelineInv, TypeOK, LoadBranch, Arrives
    <2> QED  BY <2>1, <2>2, <2>3, <2>4 DEF TimelineInv, TypeOK, LoadBranch, dbVars
  <1>4. Copies'
    <2> SUFFICES ASSUME NEW s \in Requests,
                        pc'[s] \in {"retry", "edit", "ensure", "update", "append",
                                    "ensureAgain", "updateAgain", "title"}
                 PROVE  copy'[s] \in Conv
        BY DEF Copies
    <2> QED  BY <1>1 DEF TimelineInv, TypeOK, Copies, LoadBranch, GoTo
  <1> QED  BY <1>3, <1>4, SameTables DEF LoadBranch, dbVars

LEMMA BranchFailsKeeps == ASSUME TimelineInv, NEW r \in Requests, BranchFails(r) PROVE TimelineInv'
  <1>1. TypeOK'
    <2>1. pc' \in [Requests -> PC]  BY DEF TimelineInv, TypeOK, BranchFails, GoTo, PC
    <2>2. copy' \in [Requests -> Conv \cup {NoCopy}]  BY DEF TimelineInv, TypeOK, BranchFails
    <2>3. target' \in [Requests -> Nat]  BY DEF TimelineInv, TypeOK, BranchFails, NoMsg
    <2> QED  BY <2>1, <2>2, <2>3 DEF TimelineInv, TypeOK, BranchFails, dbVars
  <1>2. Copies'
    <2> SUFFICES ASSUME NEW s \in Requests,
                        pc'[s] \in {"retry", "edit", "ensure", "update", "append",
                                    "ensureAgain", "updateAgain", "title"}
                 PROVE  copy'[s] \in Conv
        BY DEF Copies
    <2> QED  BY DEF TimelineInv, TypeOK, Copies, BranchFails, GoTo
  <1> QED  BY <1>1, <1>2, SameTables DEF BranchFails, dbVars

LEMMA EnsurePromptKeeps ==
    ASSUME TimelineInv, NEW r \in Requests,
           \/ EnsurePrompt(r, "ensure", "update", "append")
           \/ EnsurePrompt(r, "ensureAgain", "updateAgain", "turn")
    PROVE  TimelineInv'
  <1>1. conv \in Conv /\ Seen("current") \in Conv /\ Kept("current", "append") = Seen("current")
        /\ Kept("current", "turn") = NoCopy
      BY DEF TimelineInv, TypeOK, Seen, Kept, Conv, Prompt, NoMsg
  <1>2. UNCHANGED <<dbVars, target, row, served, restarts, overwrote>>  BY DEF EnsurePrompt
  <1>3. \/ \E p \in {"update", "updateAgain"} : pc' = [pc EXCEPT ![r] = p] /\ copy' = [copy EXCEPT ![r] = conv]
        \/ pc' = [pc EXCEPT ![r] = "append"] /\ copy' = [copy EXCEPT ![r] = Seen("current")]
        \/ pc' = [pc EXCEPT ![r] = "turn"] /\ copy' = [copy EXCEPT ![r] = NoCopy]
      BY <1>1 DEF EnsurePrompt, GoTo
  <1>4. TypeOK'
    <2>1. pc' \in [Requests -> PC]  BY <1>3 DEF TimelineInv, TypeOK, PC
    <2>2. copy' \in [Requests -> Conv \cup {NoCopy}]  BY <1>1, <1>3 DEF TimelineInv, TypeOK
    <2> QED  BY <1>2, <2>1, <2>2 DEF TimelineInv, TypeOK, dbVars
  <1>5. Copies'
    <2> SUFFICES ASSUME NEW s \in Requests,
                        pc'[s] \in {"retry", "edit", "ensure", "update", "append",
                                    "ensureAgain", "updateAgain", "title"}
                 PROVE  copy'[s] \in Conv
        BY DEF Copies
    <2> QED  BY <1>1, <1>3 DEF TimelineInv, TypeOK, Copies
  <1> QED  BY <1>2, <1>4, <1>5, SameTables DEF dbVars

LEMMA UpdatePromptKeeps ==
    ASSUME TimelineInv, NEW r \in Requests,
           UpdatePrompt(r, "update", "append") \/ UpdatePrompt(r, "updateAgain", "turn")
    PROVE  TimelineInv'
  <1> DEFINE c == copy[r]
             w == [c EXCEPT !.prompt = "current"]
  <1>1. c \in Conv  BY DEF TimelineInv, Copies, UpdatePrompt, At
  <1>2. w \in Conv /\ Seen("current") \in Conv /\ Seen(c.prompt) \in Conv
      BY <1>1 DEF Conv, Prompt, Seen, NoMsg
  <1>3. UNCHANGED <<messages, events, cursor, history, target, row, served, restarts>>
      BY DEF UpdatePrompt
  <1>4. conv' \in Conv /\ overwrote' \in BOOLEAN
      BY <1>2 DEF UpdatePrompt, WriteBack, TimelineInv, TypeOK
  <1>5. \/ pc' = [pc EXCEPT ![r] = "append"]
           /\ copy' \in {[copy EXCEPT ![r] = Seen("current")], [copy EXCEPT ![r] = Seen(c.prompt)]}
        \/ pc' = [pc EXCEPT ![r] = "turn"] /\ copy' = [copy EXCEPT ![r] = NoCopy]
      BY DEF UpdatePrompt, GoTo, Kept
  <1> HIDE DEF c, w
  <1>6. TypeOK'
    <2>1. pc' \in [Requests -> PC]  BY <1>5 DEF TimelineInv, TypeOK, PC
    <2>2. copy' \in [Requests -> Conv \cup {NoCopy}]  BY <1>2, <1>5 DEF TimelineInv, TypeOK
    <2> QED  BY <1>3, <1>4, <2>1, <2>2 DEF TimelineInv, TypeOK
  <1>7. Copies'
    <2> SUFFICES ASSUME NEW s \in Requests,
                        pc'[s] \in {"retry", "edit", "ensure", "update", "append",
                                    "ensureAgain", "updateAgain", "title"}
                 PROVE  copy'[s] \in Conv
        BY DEF Copies
    <2> QED  BY <1>2, <1>5 DEF TimelineInv, TypeOK, Copies
  <1> QED  BY <1>3, <1>6, <1>7, SameTables

LEMMA WriteTitleKeeps == ASSUME TimelineInv, NEW r \in Requests, WriteTitle(r) PROVE TimelineInv'
  <1>1. copy[r] \in Conv  BY DEF TimelineInv, Copies, WriteTitle, At
  <1>2. conv' \in Conv /\ overwrote' \in BOOLEAN
      BY <1>1 DEF WriteTitle, WriteBack, TimelineInv, TypeOK
  <1>3. TypeOK'
    <2>1. pc' \in [Requests -> PC]  BY DEF TimelineInv, TypeOK, WriteTitle, GoTo, PC
    <2>2. copy' \in [Requests -> Conv \cup {NoCopy}]  BY DEF TimelineInv, TypeOK, WriteTitle
    <2> QED  BY <1>2, <2>1, <2>2 DEF TimelineInv, TypeOK, WriteTitle
  <1>4. Copies'
    <2> SUFFICES ASSUME NEW s \in Requests,
                        pc'[s] \in {"retry", "edit", "ensure", "update", "append",
                                    "ensureAgain", "updateAgain", "title"}
                 PROVE  copy'[s] \in Conv
        BY DEF Copies
    <2> QED  BY DEF TimelineInv, TypeOK, Copies, WriteTitle, GoTo
  <1> QED  BY <1>3, <1>4, SameTables DEF WriteTitle

-----------------------------------------------------------------------------
(* A row on its way. *)

\* A row takes a stamp that no row has.
LEMMA BeginKeeps ==
    ASSUME TimelineInv, NEW r \in Requests, row[r] = NoRow,
           NEW to \in {"messages", "events"}, NEW by \in Sender, Begin(r, to, by),
           NEW next \in PC, GoTo(r, next),
           next \in {"idle", "turn", "model", "finish"} \/ (next = "ensureAgain" /\ pc[r] = "append")
    PROVE  TimelineInv'
  <1>1. PICK now : now = Now  OBVIOUS
  <1>2. now \in Nat /\ \A a \in Stamps : a # now  BY <1>1, NowIsLater DEF TimelineInv
  <1> DEFINE new == [to |-> to, by |-> by, at |-> now]
  <1>3. new \in Row /\ new # NoRow /\ new.at = now  BY <1>2 DEF Row, NoRow
  <1>4. row' = [row EXCEPT ![r] = new] /\ row \in [Requests -> Row \cup {NoRow}]
      BY <1>1 DEF Begin, TimelineInv, TypeOK
  <1> HIDE DEF new
  <1>5. UNCHANGED <<messages, events, cursor, conv, history, target, copy, served, restarts, overwrote>>
      BY DEF Begin, dbVars
  <1>6. TypeOK'
    <2>1. pc' \in [Requests -> PC]  BY DEF TimelineInv, TypeOK, GoTo
    <2>2. row' \in [Requests -> Row \cup {NoRow}]  BY <1>3, <1>4
    <2> QED  BY <1>5, <2>1, <2>2 DEF TimelineInv, TypeOK
  <1>7. Copies'
    <2> SUFFICES ASSUME NEW s \in Requests,
                        pc'[s] \in {"retry", "edit", "ensure", "update", "append",
                                    "ensureAgain", "updateAgain", "title"}
                 PROVE  copy[s] \in Conv
        BY <1>5 DEF Copies
    <2> QED  BY DEF TimelineInv, TypeOK, Copies, GoTo
  <1>8. Stamped'
    <2>1. RowStamps' = RowStamps  BY <1>5 DEF RowStamps
    <2>2. \A s \in Requests : s # r => row'[s] = row[s]  BY <1>4
    <2>3. row'[r] = new  BY <1>4
    <2>4. \A s \in Requests : row[s] # NoRow => row[s].at # now /\ row[s].at \in Stamps
        BY <1>2 DEF Stamps
    <2>5. now \notin RowStamps  BY <1>2 DEF Stamps
    <2>6. ASSUME NEW s \in Requests, NEW u \in Requests, row'[s] # NoRow, row'[u] # NoRow, row'[s].at = row'[u].at
          PROVE  s = u
        BY <1>3, <2>2, <2>3, <2>4, <2>6 DEF TimelineInv, Stamped
    <2>7. ASSUME NEW s \in Requests, row'[s] # NoRow PROVE row'[s].at \notin RowStamps
        BY <1>3, <2>2, <2>3, <2>5, <2>7 DEF TimelineInv, Stamped
    <2>8. /\ \A m, n \in DOMAIN messages' : messages'[m].at = messages'[n].at => m = n
          /\ \A e, f \in DOMAIN events' : events'[e].at = events'[f].at => e = f
          /\ \A m \in DOMAIN messages', e \in DOMAIN events' : messages'[m].at # events'[e].at
        BY <1>5 DEF TimelineInv, Stamped
    <2> QED  BY <2>1, <2>6, <2>7, <2>8 DEF Stamped
  <1>9. OneTimeline' /\ Numbered'  BY <1>5 DEF TimelineInv, OneTimeline, Numbered
  <1> QED  BY <1>6, <1>7, <1>8, <1>9 DEF TimelineInv

LEMMA FailKeeps ==
    ASSUME TimelineInv, NEW r \in Requests, NEW next \in {"idle", "model", "finish"}, Fail(r, next)
    PROVE  TimelineInv'
  <1>1. TypeOK'
    <2>1. pc' \in [Requests -> PC]  BY DEF TimelineInv, TypeOK, Fail, GoTo, PC
    <2>2. copy' \in [Requests -> Conv \cup {NoCopy}]  BY DEF TimelineInv, TypeOK, Fail
    <2> QED  BY <2>1, <2>2 DEF TimelineInv, TypeOK, Fail, dbVars
  <1>2. Copies'
    <2> SUFFICES ASSUME NEW s \in Requests,
                        pc'[s] \in {"retry", "edit", "ensure", "update", "append",
                                    "ensureAgain", "updateAgain", "title"}
                 PROVE  copy'[s] \in Conv
        BY DEF Copies
    <2> QED  BY DEF TimelineInv, TypeOK, Copies, Fail, GoTo
  <1> QED  BY <1>1, <1>2, SameTables DEF Fail, dbVars

LEMMA AppendKeeps ==
    ASSUME TimelineInv, NEW r \in Requests,
           AppendPrompt(r) \/ AppendPatch(r) \/ RecordProgress(r) \/ AppendAnswer(r) \/ RecordEnd(r)
    PROVE  TimelineInv'
  <1> USE DEF At, PC, Sender
  <1>1. CASE AppendPrompt(r)  BY <1>1, BeginKeeps, FailKeeps DEF AppendPrompt
  <1>2. CASE AppendPatch(r)  BY <1>2, BeginKeeps, FailKeeps DEF AppendPatch
  <1>3. CASE RecordProgress(r)  BY <1>3, BeginKeeps, FailKeeps DEF RecordProgress
  <1>4. CASE AppendAnswer(r)  BY <1>4, BeginKeeps, FailKeeps DEF AppendAnswer
  <1>5. CASE RecordEnd(r)  BY <1>5, BeginKeeps, FailKeeps DEF RecordEnd
  <1> QED  BY <1>1, <1>2, <1>3, <1>4, <1>5

-----------------------------------------------------------------------------
(* A branch archives and stamps versions; it moves no row. *)

LEMMA BranchKeeps == ASSUME TimelineInv, NEW r \in Requests, BranchFromMessage(r) PROVE TimelineInv'
  <1> DEFINE t == target[r]
             edited == pc[r] = "edit"
  <1>1. PICK v : v = NextVersion  OBVIOUS
  <1>2. v \in Nat \ {0}  BY <1>1, NextVersionIsNew DEF TimelineInv
  <1>3. t \in DOMAIN messages /\ Branch(t, edited)  BY DEF BranchFromMessage, MayBranch, IsActive
  <1>4. UNCHANGED <<row, served, restarts, overwrote, cursor, copy>>  BY <1>3 DEF BranchFromMessage, Branch
  <1>5. messages' = [m \in DOMAIN messages |->
                      IF m > t THEN [messages[m] EXCEPT !.arch = TRUE]
                      ELSE IF m < t THEN messages[m]
                      ELSE [messages[m] EXCEPT !.ver = v, !.arch = FALSE,
                                !.text = IF edited THEN v ELSE @]]
      BY <1>1, <1>3 DEF Branch
  <1>6. events' = [e \in DOMAIN events |->
                      [events[e] EXCEPT !.arch = @ \/ events[e].tl > messages[t].tl]]
      BY <1>3 DEF Branch, EventsPast
  <1>7. history' = (IF edited THEN Append(history, SnapshotOf(t)) ELSE history)
        /\ conv' = [conv EXCEPT !.head = t]
      BY <1>3 DEF Branch
  <1>8. /\ Len(messages) \in Nat /\ DOMAIN messages = 1 .. Len(messages)
        /\ Len(events) \in Nat /\ DOMAIN events = 1 .. Len(events)
        /\ t \in Nat
      BY <1>3, Tables DEF TimelineInv
  <1> HIDE DEF t, edited
  <1>9. ASSUME NEW m \in DOMAIN messages
        PROVE  messages'[m] \in Message /\ messages'[m].at = messages[m].at /\ messages'[m].tl = messages[m].tl
    <2>1. messages[m] \in Message  BY Tables DEF TimelineInv
    <2>2. m \in Nat  BY <1>8
    <2>3. CASE m > t
      <3>1. messages'[m] = [messages[m] EXCEPT !.arch = TRUE]  BY <1>5, <2>3
      <3> QED  BY <2>1, <3>1 DEF Message
    <2>4. CASE m < t
      <3>1. ~(m > t)  BY <1>8, <2>2, <2>4
      <3>2. messages'[m] = messages[m]  BY <1>5, <2>4, <3>1, Zenon
      <3> QED  BY <2>1, <3>2
    <2>5. CASE m = t
      <3>1. messages'[m] = [messages[m] EXCEPT !.ver = v, !.arch = FALSE, !.text = IF edited THEN v ELSE @]
        <4>1. ~(m > t) /\ ~(m < t)  BY <1>8, <2>2, <2>5
        <4> QED  BY <1>5, <2>5, <4>1, Zenon
      <3> QED  BY <1>2, <2>1, <3>1 DEF Message
    <2> QED  BY <1>8, <2>2, <2>3, <2>4, <2>5
  <1>10. ASSUME NEW e \in DOMAIN events
         PROVE  events'[e] \in UIEvent /\ events'[e].at = events[e].at /\ events'[e].tl = events[e].tl
    <2>1. events[e] \in UIEvent  BY Tables DEF TimelineInv
    <2>2. events'[e] = [events[e] EXCEPT !.arch = events[e].arch \/ events[e].tl > messages[t].tl]  BY <1>6
    <2>3. (events[e].arch \/ events[e].tl > messages[t].tl) \in BOOLEAN  BY <2>1 DEF UIEvent
    <2> QED  BY <2>1, <2>2, <2>3 DEF UIEvent
  <1>11. DOMAIN messages' = DOMAIN messages /\ DOMAIN events' = DOMAIN events  BY <1>5, <1>6
  <1>12. messages' \in Seq(Message) /\ Len(messages') = Len(messages)
    <2>1. messages' \in [1 .. Len(messages) -> Message]  BY <1>5, <1>8, <1>9
    <2> QED  BY <1>8, <2>1
  <1>13. events' \in Seq(UIEvent) /\ Len(events') = Len(events)
    <2>1. events' \in [1 .. Len(events) -> UIEvent]  BY <1>6, <1>8, <1>10
    <2> QED  BY <1>8, <2>1
  <1>14. history' \in Seq(Snapshot) /\ conv' \in Conv
    <2>1. SnapshotOf(t) \in Snapshot  BY <1>3, <1>8, Tables DEF TimelineInv, SnapshotOf, Snapshot
    <2>2. history' \in Seq(Snapshot)  BY <1>7, <2>1 DEF TimelineInv, TypeOK
    <2>3. conv' \in Conv  BY <1>7, <1>8 DEF TimelineInv, TypeOK, Conv
    <2> QED  BY <2>2, <2>3
  <1>15. TypeOK'
    <2>1. pc' \in [Requests -> PC]  BY DEF TimelineInv, TypeOK, BranchFromMessage, GoTo, PC
    <2>2. target' \in [Requests -> Nat]  BY DEF TimelineInv, TypeOK, BranchFromMessage, NoMsg
    <2> QED  BY <1>4, <1>12, <1>13, <1>14, <2>1, <2>2 DEF TimelineInv, TypeOK
  <1>16. Copies'
    <2>1. pc[r] \in {"retry", "edit"} /\ pc' = [pc EXCEPT ![r] = "ensureAgain"]
        BY DEF BranchFromMessage, At, GoTo
    <2> SUFFICES ASSUME NEW s \in Requests,
                        pc'[s] \in {"retry", "edit", "ensure", "update", "append",
                                    "ensureAgain", "updateAgain", "title"}
                 PROVE  copy'[s] \in Conv
        BY DEF Copies
    <2> QED  BY <1>4, <2>1 DEF TimelineInv, TypeOK, Copies
  <1> QED  BY <1>4, <1>9, <1>10, <1>11, <1>12, <1>13, <1>15, <1>16, SameRows

-----------------------------------------------------------------------------
(* A row arrives. *)

LEMMA InsertMessageKeeps ==
    ASSUME TimelineInv, NEW r \in Requests, Insert(r), row[r].to = "messages", InsertMessage(row[r])
    PROVE  TimelineInv'
  <1> DEFINE p == row[r]
  <1>1. PICK n : n = NextTimelineSeq  OBVIOUS
  <1>2. PICK h : h = HeadVersion  OBVIOUS
  <1> DEFINE new == [by |-> p.by, at |-> p.at, tl |-> n, ver |-> h, arch |-> FALSE, text |-> 0]
             M == Len(messages)
             E == Len(events)
  <1>3. TypeOK  BY DEF TimelineInv
  <1>4. M \in Nat /\ E \in Nat /\ DOMAIN messages = 1 .. M /\ DOMAIN events = 1 .. E  BY <1>3, Tables
  <1>5. n = M + E + 1 /\ n \in Nat  BY <1>1, <1>4, NextNumber
  <1>6. /\ \A m \in DOMAIN messages : messages[m].tl < n
        /\ \A e \in DOMAIN events : events[e].tl < n
      BY <1>1, NextNumber
  <1>7. h \in Nat \ {0}  BY <1>2, <1>3, Tables DEF HeadVersion
  <1>8. p \in Row /\ p # NoRow /\ row' = [row EXCEPT ![r] = NoRow] /\ row \in [Requests -> Row \cup {NoRow}]
      BY <1>3 DEF Insert, TypeOK
  <1>9. new \in Message /\ new.at = p.at /\ new.tl = n  BY <1>5, <1>7, <1>8 DEF Message, Row
  <1>10. messages' = Append(messages, new) /\ cursor' = n + 1 /\ UNCHANGED <<events, history>>
      BY <1>1, <1>2 DEF InsertMessage, CursorAfter
  <1>11. conv' \in Conv
    <2>1. PICK id : id = M + 1  OBVIOUS
    <2>2. PICK root : root = IF id = 1 /\ conv.root = NoMsg THEN id ELSE conv.root  OBVIOUS
    <2>3. conv \in Conv /\ conv.root \in Nat  BY <1>3, Tables DEF TypeOK
    <2>4. id \in Nat /\ root \in Nat  BY <1>4, <2>1, <2>2, <2>3
    <2>5. conv' = [conv EXCEPT !.head = id, !.root = root]  BY <2>1, <2>2 DEF InsertMessage, PointersAfter
    <2> QED  BY <2>3, <2>4, <2>5 DEF Conv
  <1> HIDE DEF new, p
  <1>12. /\ messages' \in Seq(Message) /\ Len(messages') = M + 1 /\ DOMAIN messages' = 1 .. M + 1
         /\ \A m \in 1 .. M : messages'[m] = messages[m]
         /\ messages'[M + 1] = new
      BY <1>3, <1>4, <1>9, <1>10 DEF TypeOK
  <1> HIDE DEF M, E
  <1>13. \A m \in DOMAIN messages' : m \in DOMAIN messages \/ m = M + 1  BY <1>4, <1>12
  <1>14. TypeOK'
    <2>1. row' \in [Requests -> Row \cup {NoRow}]  BY <1>8
    <2>2. cursor' \in Nat  BY <1>5, <1>10
    <2> QED  BY <1>3, <1>10, <1>11, <1>12, <2>1, <2>2 DEF TypeOK, Insert
  <1>15. Copies'  BY DEF TimelineInv, Copies, Insert
  <1>16. Stamped'
    <2>1. p.at \notin RowStamps  BY <1>8 DEF TimelineInv, Stamped, p
    <2>2. /\ \A m \in DOMAIN messages : messages[m].at # p.at
          /\ \A e \in DOMAIN events : events[e].at # p.at
        BY <2>1 DEF RowStamps
    <2>3. RowStamps' = RowStamps \cup {p.at}
      <3>1. \A a : (\E m \in DOMAIN messages' : a = messages'[m].at)
                     <=> (\E m \in DOMAIN messages : a = messages[m].at) \/ a = p.at
          BY <1>4, <1>9, <1>12, <1>13
      <3>2. {messages'[m].at : m \in DOMAIN messages'} = {messages[m].at : m \in DOMAIN messages} \cup {p.at}
          BY <3>1
      <3>3. {events'[e].at : e \in DOMAIN events'} = {events[e].at : e \in DOMAIN events}  BY <1>10
      <3> QED  BY <3>2, <3>3 DEF RowStamps
    <2>4. \A m, k \in DOMAIN messages' : messages'[m].at = messages'[k].at => m = k
        BY <1>4, <1>9, <1>12, <1>13, <2>2 DEF TimelineInv, Stamped
    <2>5. \A e, f \in DOMAIN events' : events'[e].at = events'[f].at => e = f
        BY <1>10 DEF TimelineInv, Stamped
    <2>6. \A m \in DOMAIN messages', e \in DOMAIN events' : messages'[m].at # events'[e].at
        BY <1>4, <1>9, <1>10, <1>12, <1>13, <2>2 DEF TimelineInv, Stamped
    <2>7. \A s \in Requests : row'[s] # NoRow => row'[s] = row[s] /\ s # r  BY <1>8
    <2>8. \A s, u \in Requests : row'[s] # NoRow /\ row'[u] # NoRow /\ row'[s].at = row'[u].at => s = u
        BY <2>7 DEF TimelineInv, Stamped
    <2>9. \A s \in Requests : row'[s] # NoRow => row'[s].at \notin RowStamps'
        BY <1>8, <2>3, <2>7 DEF TimelineInv, Stamped, p
    <2> QED  BY <2>4, <2>5, <2>6, <2>8, <2>9 DEF Stamped
  <1>17. OneTimeline'
    <2>1. /\ \A m \in DOMAIN messages : messages[m].tl \in Nat
          /\ \A e \in DOMAIN events : events[e].tl \in Nat
        BY <1>3, Tables
    <2>2. \A m \in DOMAIN messages' : messages'[m].tl < cursor'
        BY <1>4, <1>5, <1>6, <1>9, <1>10, <1>12, <1>13, <2>1
    <2>3. \A e \in DOMAIN events' : events'[e].tl < cursor'
        BY <1>5, <1>6, <1>10, <2>1
    <2>4. \A m, k \in DOMAIN messages' : messages'[m].tl = messages'[k].tl => m = k
        BY <1>4, <1>5, <1>6, <1>9, <1>12, <1>13, <2>1 DEF TimelineInv, OneTimeline
    <2>5. \A e, f \in DOMAIN events' : events'[e].tl = events'[f].tl => e = f
        BY <1>10 DEF TimelineInv, OneTimeline
    <2>6. \A m \in DOMAIN messages', e \in DOMAIN events' : messages'[m].tl # events'[e].tl
        BY <1>4, <1>5, <1>6, <1>9, <1>10, <1>12, <1>13, <2>1 DEF TimelineInv, OneTimeline
    <2> QED  BY <2>2, <2>3, <2>4, <2>5, <2>6 DEF OneTimeline
  <1>18. Numbered'
    <2>1. \A m \in DOMAIN messages' : messages'[m].tl # 0
        BY <1>4, <1>5, <1>9, <1>12, <1>13 DEF TimelineInv, Numbered, M, E
    <2>2. \A e \in DOMAIN events' : events'[e].tl # 0  BY <1>10 DEF TimelineInv, Numbered
    <2>3. cursor' = Len(messages') + Len(events') + 1 /\ cursor' # NoCursor
        BY <1>4, <1>5, <1>10, <1>12 DEF E, NoCursor
    <2> QED  BY <2>1, <2>2, <2>3 DEF Numbered
  <1> QED  BY <1>14, <1>15, <1>16, <1>17, <1>18 DEF TimelineInv

LEMMA InsertEventKeeps ==
    ASSUME TimelineInv, NEW r \in Requests, Insert(r), row[r].to = "events", InsertEvent(row[r])
    PROVE  TimelineInv'
  <1> DEFINE p == row[r]
  <1>1. PICK n : n = NextTimelineSeq  OBVIOUS
  <1> DEFINE new == [at |-> p.at, tl |-> n, arch |-> FALSE]
             M == Len(messages)
             E == Len(events)
  <1>3. TypeOK  BY DEF TimelineInv
  <1>4. M \in Nat /\ E \in Nat /\ DOMAIN messages = 1 .. M /\ DOMAIN events = 1 .. E  BY <1>3, Tables
  <1>5. n = M + E + 1 /\ n \in Nat  BY <1>1, <1>4, NextNumber
  <1>6. /\ \A m \in DOMAIN messages : messages[m].tl < n
        /\ \A e \in DOMAIN events : events[e].tl < n
      BY <1>1, NextNumber
  <1>8. p \in Row /\ p # NoRow /\ row' = [row EXCEPT ![r] = NoRow] /\ row \in [Requests -> Row \cup {NoRow}]
      BY <1>3 DEF Insert, TypeOK
  <1>9. new \in UIEvent /\ new.at = p.at /\ new.tl = n  BY <1>5, <1>8 DEF UIEvent, Row
  <1>10. events' = Append(events, new) /\ cursor' = n + 1 /\ UNCHANGED <<messages, conv, history>>
      BY <1>1 DEF InsertEvent, CursorAfter
  <1> HIDE DEF new, p
  <1>12. /\ events' \in Seq(UIEvent) /\ Len(events') = E + 1 /\ DOMAIN events' = 1 .. E + 1
         /\ \A e \in 1 .. E : events'[e] = events[e]
         /\ events'[E + 1] = new
      BY <1>3, <1>4, <1>9, <1>10 DEF TypeOK
  <1> HIDE DEF M, E
  <1>13. \A e \in DOMAIN events' : e \in DOMAIN events \/ e = E + 1  BY <1>4, <1>12
  <1>14. TypeOK'
    <2>1. row' \in [Requests -> Row \cup {NoRow}]  BY <1>8
    <2>2. cursor' \in Nat  BY <1>5, <1>10
    <2> QED  BY <1>3, <1>10, <1>12, <2>1, <2>2 DEF TypeOK, Insert
  <1>15. Copies'  BY DEF TimelineInv, Copies, Insert
  <1>16. Stamped'
    <2>1. p.at \notin RowStamps  BY <1>8 DEF TimelineInv, Stamped, p
    <2>2. /\ \A m \in DOMAIN messages : messages[m].at # p.at
          /\ \A e \in DOMAIN events : events[e].at # p.at
        BY <2>1 DEF RowStamps
    <2>3. RowStamps' = RowStamps \cup {p.at}
      <3>1. \A a : (\E e \in DOMAIN events' : a = events'[e].at)
                     <=> (\E e \in DOMAIN events : a = events[e].at) \/ a = p.at
          BY <1>4, <1>9, <1>12, <1>13
      <3>2. {events'[e].at : e \in DOMAIN events'} = {events[e].at : e \in DOMAIN events} \cup {p.at}
          BY <3>1
      <3>3. {messages'[m].at : m \in DOMAIN messages'} = {messages[m].at : m \in DOMAIN messages}  BY <1>10
      <3> QED  BY <3>2, <3>3 DEF RowStamps
    <2>4. \A m, k \in DOMAIN messages' : messages'[m].at = messages'[k].at => m = k
        BY <1>10 DEF TimelineInv, Stamped
    <2>5. \A e, f \in DOMAIN events' : events'[e].at = events'[f].at => e = f
        BY <1>4, <1>9, <1>12, <1>13, <2>2 DEF TimelineInv, Stamped
    <2>6. \A m \in DOMAIN messages', e \in DOMAIN events' : messages'[m].at # events'[e].at
        BY <1>4, <1>9, <1>10, <1>12, <1>13, <2>2 DEF TimelineInv, Stamped
    <2>7. \A s \in Requests : row'[s] # NoRow => row'[s] = row[s] /\ s # r  BY <1>8
    <2>8. \A s, u \in Requests : row'[s] # NoRow /\ row'[u] # NoRow /\ row'[s].at = row'[u].at => s = u
        BY <2>7 DEF TimelineInv, Stamped
    <2>9. \A s \in Requests : row'[s] # NoRow => row'[s].at \notin RowStamps'
        BY <1>8, <2>3, <2>7 DEF TimelineInv, Stamped, p
    <2> QED  BY <2>4, <2>5, <2>6, <2>8, <2>9 DEF Stamped
  <1>17. OneTimeline'
    <2>1. /\ \A m \in DOMAIN messages : messages[m].tl \in Nat
          /\ \A e \in DOMAIN events : events[e].tl \in Nat
        BY <1>3, Tables
    <2>2. \A m \in DOMAIN messages' : messages'[m].tl < cursor'
        BY <1>5, <1>6, <1>10, <2>1
    <2>3. \A e \in DOMAIN events' : events'[e].tl < cursor'
        BY <1>4, <1>5, <1>6, <1>9, <1>10, <1>12, <1>13, <2>1
    <2>4. \A m, k \in DOMAIN messages' : messages'[m].tl = messages'[k].tl => m = k
        BY <1>10 DEF TimelineInv, OneTimeline
    <2>5. \A e, f \in DOMAIN events' : events'[e].tl = events'[f].tl => e = f
        BY <1>4, <1>5, <1>6, <1>9, <1>12, <1>13, <2>1 DEF TimelineInv, OneTimeline
    <2>6. \A m \in DOMAIN messages', e \in DOMAIN events' : messages'[m].tl # events'[e].tl
        BY <1>4, <1>5, <1>6, <1>9, <1>10, <1>12, <1>13, <2>1 DEF TimelineInv, OneTimeline
    <2> QED  BY <2>2, <2>3, <2>4, <2>5, <2>6 DEF OneTimeline
  <1>18. Numbered'
    <2>1. \A m \in DOMAIN messages' : messages'[m].tl # 0  BY <1>10 DEF TimelineInv, Numbered
    <2>2. \A e \in DOMAIN events' : events'[e].tl # 0
        BY <1>4, <1>5, <1>9, <1>12, <1>13 DEF TimelineInv, Numbered, M, E
    <2>3. cursor' = Len(messages') + Len(events') + 1 /\ cursor' # NoCursor
      <3>1. Len(messages') = M  BY <1>10 DEF M
      <3> QED  BY <1>4, <1>5, <1>10, <1>12, <3>1 DEF NoCursor
    <2> QED  BY <2>1, <2>2, <2>3 DEF Numbered
  <1> QED  BY <1>14, <1>15, <1>16, <1>17, <1>18 DEF TimelineInv

LEMMA InsertKeeps == ASSUME TimelineInv, NEW r \in Requests, Insert(r) PROVE TimelineInv'
  BY InsertMessageKeeps, InsertEventKeeps DEF Insert

-----------------------------------------------------------------------------
(* A restart numbers every row anew. *)

\* The rank of a stamp counts the stamps up to it.
LEMMA RanksRise ==
    ASSUME TypeOK
    PROVE  /\ \A a \in RowStamps : Rank(a) \in Nat \ {0} /\ Rank(a) <= Cardinality(RowStamps)
           /\ \A a, b \in RowStamps : a < b => Rank(a) < Rank(b)
           /\ \A a, b \in RowStamps : Rank(a) = Rank(b) => a = b
  <1> DEFINE Below(a) == {b \in RowStamps : b <= a}
  <1>1. IsFiniteSet(RowStamps) /\ RowStamps \subseteq Nat  BY FiniteStamps
  <1>2. ASSUME NEW a \in RowStamps
        PROVE  /\ IsFiniteSet(Below(a)) /\ Rank(a) = Cardinality(Below(a))
               /\ Rank(a) \in Nat \ {0} /\ Rank(a) <= Cardinality(RowStamps)
    <2>1. Below(a) \subseteq RowStamps /\ a \in Below(a)  BY <1>1
    <2>2. Rank(a) = Cardinality(Below(a))  BY DEF Rank
    <2> HIDE DEF Below
    <2>3. IsFiniteSet(Below(a)) /\ Cardinality(Below(a)) <= Cardinality(RowStamps)  BY <1>1, <2>1, FS_Subset
    <2>4. Cardinality(Below(a)) \in Nat /\ Cardinality(Below(a)) # 0
        BY <2>1, <2>3, FS_CardinalityType, FS_EmptySet
    <2> QED  BY <2>2, <2>3, <2>4
  <1>3. ASSUME NEW a \in RowStamps, NEW b \in RowStamps, a < b PROVE Rank(a) < Rank(b)
    <2>1. a \in Nat /\ b \in Nat  BY <1>1
    <2>2. Below(a) \subseteq Below(b) /\ Below(a) # Below(b)
      <3>1. \A c \in Nat : c <= a => c <= b  BY <1>3, <2>1
      <3>2. b \in Below(b) /\ b \notin Below(a)  BY <1>3, <2>1
      <3> QED  BY <1>1, <3>1, <3>2
    <2> HIDE DEF Below
    <2>3. Cardinality(Below(a)) <= Cardinality(Below(b)) /\ Cardinality(Below(a)) # Cardinality(Below(b))
        BY <1>2, <2>2, FS_Subset
    <2> QED  BY <1>2, <2>3
  <1>4. ASSUME NEW a \in RowStamps, NEW b \in RowStamps, Rank(a) = Rank(b) PROVE a = b
    <2>1. a \in Nat /\ b \in Nat /\ Rank(a) \in Nat  BY <1>1, <1>2
    <2>2. ~(a < b) /\ ~(b < a)  BY <1>3, <1>4, <2>1
    <2> QED  BY <2>1, <2>2
  <1> QED  BY <1>2, <1>3, <1>4

LEMMA RestartKeeps == ASSUME TimelineInv, Restart PROVE TimelineInv'
  <1> DEFINE M == Len(messages)
             E == Len(events)
  <1>1. TypeOK  BY DEF TimelineInv
  <1>2. M \in Nat /\ E \in Nat /\ DOMAIN messages = 1 .. M /\ DOMAIN events = 1 .. E  BY <1>1, Tables
  <1>3. PICK rank : rank = [a \in RowStamps |-> Rank(a)]  OBVIOUS
  <1>4. /\ \A a \in RowStamps : rank[a] \in Nat \ {0} /\ rank[a] <= M + E
        /\ \A a, b \in RowStamps : rank[a] = rank[b] => a = b
    <2>1. Cardinality(RowStamps) \in Nat /\ Cardinality(RowStamps) <= M + E  BY <1>1, FiniteStamps
    <2> QED  BY <1>1, <1>2, <1>3, <2>1, RanksRise
  <1>5. /\ \A m \in DOMAIN messages : messages[m].at \in RowStamps
        /\ \A e \in DOMAIN events : events[e].at \in RowStamps
      BY DEF RowStamps
  <1>6. /\ messages' = [m \in DOMAIN messages |-> [messages[m] EXCEPT !.tl = rank[messages[m].at]]]
        /\ events' = [e \in DOMAIN events |-> [events[e] EXCEPT !.tl = rank[events[e].at]]]
      BY <1>3, <1>5 DEF Restart
  <1>7. /\ \A m \in DOMAIN messages : messages[m] \in Message
        /\ \A e \in DOMAIN events : events[e] \in UIEvent
      BY <1>1, Tables
  <1>8. \A m \in DOMAIN messages : messages'[m] \in Message /\ messages'[m].at = messages[m].at
                                    /\ messages'[m].tl = rank[messages[m].at]
    <2> TAKE m \in DOMAIN messages
    <2>1. messages'[m] = [messages[m] EXCEPT !.tl = rank[messages[m].at]]  BY <1>6
    <2> QED  BY <1>4, <1>5, <1>7, <2>1 DEF Message
  <1>9. \A e \in DOMAIN events : events'[e] \in UIEvent /\ events'[e].at = events[e].at
                                  /\ events'[e].tl = rank[events[e].at]
    <2> TAKE e \in DOMAIN events
    <2>1. events'[e] = [events[e] EXCEPT !.tl = rank[events[e].at]]  BY <1>6
    <2> QED  BY <1>4, <1>5, <1>7, <2>1 DEF UIEvent
  <1>10. messages' \in Seq(Message) /\ Len(messages') = M /\ DOMAIN messages' = DOMAIN messages
    <2>1. messages' \in [1 .. M -> Message]  BY <1>2, <1>6, <1>8
    <2> HIDE DEF M
    <2> QED  BY <1>2, <2>1
  <1>11. events' \in Seq(UIEvent) /\ Len(events') = E /\ DOMAIN events' = DOMAIN events
    <2>1. events' \in [1 .. E -> UIEvent]  BY <1>2, <1>6, <1>9
    <2> HIDE DEF E
    <2> QED  BY <1>2, <2>1
  <1>12. RowStamps = {} => cursor' = cursor /\ messages = <<>> /\ events = <<>> /\ M = 0 /\ E = 0
    <2> SUFFICES ASSUME RowStamps = {}
                 PROVE  cursor' = cursor /\ messages = <<>> /\ events = <<>> /\ M = 0 /\ E = 0
        OBVIOUS
    <2>1. DOMAIN messages = {} /\ DOMAIN events = {}  BY <1>5
    <2>2. M = 0 /\ E = 0  BY <1>2, <2>1
    <2>3. messages = <<>> /\ events = <<>>  BY <1>1, <2>2, EmptySeq DEF TypeOK
    <2> QED  BY <2>2, <2>3 DEF Restart
  <1>13. RowStamps # {} => cursor' = M + E + 1  BY DEF Restart
  <1> HIDE DEF M, E
  <1>14. TypeOK'
    <2>1. cursor' \in Nat  BY <1>1, <1>2, <1>12, <1>13 DEF TypeOK
    <2>2. restarts' \in Nat  BY <1>1 DEF TypeOK, Restart
    <2>3. pc' \in [Requests -> PC] /\ target' \in [Requests -> Nat]  BY DEF Restart, PC, NoMsg
    <2>4. copy' \in [Requests -> Conv \cup {NoCopy}] /\ row' \in [Requests -> Row \cup {NoRow}]
        BY DEF Restart
    <2> QED  BY <1>1, <1>10, <1>11, <2>1, <2>2, <2>3, <2>4 DEF TypeOK, Restart
  <1>15. Copies'  BY DEF Copies, Restart
  <1>16. Stamped'
    <2>1. \A s \in Requests : row'[s] = NoRow  BY DEF Restart
    <2> QED  BY <1>8, <1>9, <1>10, <1>11, <2>1 DEF TimelineInv, Stamped
  <1>17. /\ \A m \in DOMAIN messages' : messages'[m].tl \in Nat \ {0} /\ messages'[m].tl <= M + E
         /\ \A e \in DOMAIN events' : events'[e].tl \in Nat \ {0} /\ events'[e].tl <= M + E
      BY <1>4, <1>5, <1>8, <1>9, <1>10, <1>11
  <1>18. OneTimeline'
    <2>1. /\ \A m \in DOMAIN messages' : messages'[m].tl < cursor'
          /\ \A e \in DOMAIN events' : events'[e].tl < cursor'
        BY <1>2, <1>5, <1>10, <1>11, <1>13, <1>17
    <2>2. \A m, k \in DOMAIN messages' : messages'[m].tl = messages'[k].tl => m = k
        BY <1>4, <1>5, <1>8, <1>10 DEF TimelineInv, Stamped
    <2>3. \A e, f \in DOMAIN events' : events'[e].tl = events'[f].tl => e = f
        BY <1>4, <1>5, <1>9, <1>11 DEF TimelineInv, Stamped
    <2>4. \A m \in DOMAIN messages', e \in DOMAIN events' : messages'[m].tl # events'[e].tl
        BY <1>4, <1>5, <1>8, <1>9, <1>10, <1>11 DEF TimelineInv, Stamped
    <2> QED  BY <2>1, <2>2, <2>3, <2>4 DEF OneTimeline
  <1>19. Numbered'
    <2>1. CASE RowStamps = {}
      <3>1. messages' = <<>> /\ events' = <<>>
          BY <1>10, <1>11, <1>12, <2>1, EmptySeq
      <3>2. cursor # NoCursor => cursor = M + E + 1  BY DEF TimelineInv, Numbered, M, E
      <3> QED  BY <1>10, <1>11, <1>12, <1>17, <2>1, <3>1, <3>2 DEF Numbered
    <2>2. CASE RowStamps # {}
      <3>1. cursor' = Len(messages') + Len(events') + 1 /\ cursor' # NoCursor
          BY <1>2, <1>10, <1>11, <1>13, <2>2 DEF NoCursor
      <3> QED  BY <1>17, <3>1 DEF Numbered
    <2> QED  BY <2>1, <2>2
  <1> QED  BY <1>14, <1>15, <1>16, <1>18, <1>19 DEF TimelineInv

-----------------------------------------------------------------------------
(* The timeline. *)

LEMMA TimelineInit == Init => TimelineInv
  <1> SUFFICES ASSUME Init PROVE TimelineInv  OBVIOUS
  <1>1. TypeOK
    <2>1. messages \in Seq(Message) /\ events \in Seq(UIEvent) /\ history \in Seq(Snapshot)
        BY EmptySeq DEF Init
    <2>2. conv \in Conv /\ cursor \in Nat  BY DEF Init, Conv, Prompt, NoMsg, NoCursor
    <2> QED  BY <2>1, <2>2 DEF Init, TypeOK, PC, NoMsg
  <1>2. Copies  BY DEF Init, Copies
  <1>3. DOMAIN messages = {} /\ DOMAIN events = {}  BY DEF Init
  <1>4. Stamped  BY <1>3 DEF Init, Stamped
  <1>5. OneTimeline  BY <1>3 DEF OneTimeline
  <1>6. Numbered  BY <1>3 DEF Init, Numbered
  <1> QED  BY <1>1, <1>2, <1>4, <1>5, <1>6 DEF TimelineInv

LEMMA TimelineNext == TimelineInv /\ [Next]_vars => TimelineInv'
  <1> SUFFICES ASSUME TimelineInv, [Next]_vars PROVE TimelineInv'  OBVIOUS
  <1>1. ASSUME NEW r \in Requests, RequestStep(r) PROVE TimelineInv'
    <2>1. CASE Load(r)  BY <2>1, LoadKeeps
    <2>2. CASE \E t \in DOMAIN messages : LoadBranch(r, t)  BY <2>2, LoadBranchKeeps
    <2>3. CASE BranchFromMessage(r)  BY <2>3, BranchKeeps
    <2>4. CASE BranchFails(r)  BY <2>4, BranchFailsKeeps
    <2>5. CASE EnsurePrompt(r, "ensure", "update", "append") \/ EnsurePrompt(r, "ensureAgain", "updateAgain", "turn")
        BY <2>5, EnsurePromptKeeps
    <2>6. CASE UpdatePrompt(r, "update", "append") \/ UpdatePrompt(r, "updateAgain", "turn")
        BY <2>6, UpdatePromptKeeps
    <2>7. CASE AppendPrompt(r) \/ AppendPatch(r) \/ RecordProgress(r) \/ AppendAnswer(r) \/ RecordEnd(r)
        BY <2>7, AppendKeeps
    <2>8. CASE Insert(r)  BY <2>8, InsertKeeps
    <2>9. CASE WriteTitle(r)  BY <2>9, WriteTitleKeeps
    <2> QED  BY <1>1, <2>1, <2>2, <2>3, <2>4, <2>5, <2>6, <2>7, <2>8, <2>9 DEF RequestStep
  <1>2. CASE Restart  BY <1>2, RestartKeeps
  <1>3. CASE UNCHANGED vars
    <2>1. TypeOK' /\ Copies'
        BY <1>3 DEF TimelineInv, TypeOK, Copies, vars, dbVars, requestVars
    <2> QED  BY <1>3, <2>1, SameTables DEF vars, dbVars, requestVars
  <1> QED  BY <1>1, <1>2, <1>3 DEF Next

LEMMA TimelineIsKept == Spec => []TimelineInv
  BY TimelineInit, TimelineNext, PTL DEF Spec

\* Every variable keeps its type: rows, copies and pointers, whatever the requests.
THEOREM TypesKept == Spec => []TypeOK
  BY TimelineIsKept, PTL DEF TimelineInv

\* No two rows ever share a number and the next number is larger than all of them, for any
\* number of requests, rows and restarts.
THEOREM NumbersAreUnique == Spec => []TimelineSound
  <1>1. TimelineInv => TimelineSound  BY DEF TimelineInv, TimelineSound
  <1> QED  BY <1>1, TimelineIsKept, PTL

-----------------------------------------------------------------------------
(* What a step does to the messages: it branches, inserts one, or leaves all *)
(* that the model and the client replay as it is.                            *)

\* The messages, and the pointers unless an update wrote others back, stay as they are.
Quiet ==
    /\ history' = history /\ DOMAIN messages' = DOMAIN messages /\ Len(messages') = Len(messages)
    /\ \A m \in DOMAIN messages : /\ messages'[m].by = messages[m].by /\ messages'[m].text = messages[m].text
                                  /\ messages'[m].arch = messages[m].arch /\ messages'[m].ver = messages[m].ver
    /\ ~overwrote' => ~overwrote /\ conv'.head = conv.head /\ conv'.root = conv.root

\* The request that branches, and where.
Branches(r, t) ==
    /\ IsActive(t) /\ messages[t].by = "user"
    /\ Branch(t, pc[r] = "edit")
    /\ overwrote' = overwrote

\* A request stores a message.
Stores(r) == Insert(r) /\ row[r].to = "messages" /\ InsertMessage(row[r])

LEMMA BranchShape ==
    ASSUME TimelineInv, NEW t \in DOMAIN messages, NEW edited \in BOOLEAN, Branch(t, edited)
    PROVE  /\ DOMAIN messages' = DOMAIN messages /\ Len(messages') = Len(messages)
           /\ DOMAIN events' = DOMAIN events
           /\ \A m \in DOMAIN messages : messages'[m].by = messages[m].by /\ messages'[m].tl = messages[m].tl
           /\ \A m \in DOMAIN messages : m > t => messages'[m].arch = TRUE /\ messages'[m].text = messages[m].text
           /\ \A m \in DOMAIN messages : m < t => messages'[m] = messages[m]
           /\ messages'[t].arch = FALSE /\ messages'[t].ver = NextVersion
           /\ ~edited => messages'[t].text = messages[t].text
           /\ \A e \in DOMAIN events : /\ events'[e].arch = (events[e].arch \/ events[e].tl > messages[t].tl)
                                       /\ events'[e].tl = events[e].tl
           /\ conv'.head = t /\ conv'.root = conv.root
           /\ edited => history' = Append(history, SnapshotOf(t))
           /\ ~edited => history' = history
  <1>1. PICK v : v = NextVersion  OBVIOUS
  <1>2. messages' = [m \in DOMAIN messages |->
                      IF m > t THEN [messages[m] EXCEPT !.arch = TRUE]
                      ELSE IF m < t THEN messages[m]
                      ELSE [messages[m] EXCEPT !.ver = v, !.arch = FALSE,
                                !.text = IF edited THEN v ELSE @]]
      BY <1>1 DEF Branch
  <1>3. events' = [e \in DOMAIN events |->
                      [events[e] EXCEPT !.arch = @ \/ events[e].tl > messages[t].tl]]
      BY DEF Branch, EventsPast
  <1>4. /\ Len(messages) \in Nat /\ DOMAIN messages = 1 .. Len(messages) /\ t \in Nat
        /\ \A m \in DOMAIN messages : messages[m] \in Message
        /\ \A e \in DOMAIN events : events[e] \in UIEvent
        /\ conv \in Conv
      BY Tables DEF TimelineInv, TypeOK
  <1>5. DOMAIN messages' = DOMAIN messages /\ DOMAIN events' = DOMAIN events  BY <1>2, <1>3
  <1>6. Len(messages') = Len(messages)
    <2>1. PICK M : M = Len(messages)  OBVIOUS
    <2>2. messages' \in [1 .. M -> {messages'[m] : m \in 1 .. M}]  BY <1>2, <1>4, <2>1
    <2> QED  BY <1>4, <2>1, <2>2
  <1>7. \A m \in DOMAIN messages : m > t => messages'[m] = [messages[m] EXCEPT !.arch = TRUE]
      BY <1>2, Zenon
  <1>8. \A m \in DOMAIN messages : m < t => messages'[m] = messages[m]
    <2> SUFFICES ASSUME NEW m \in DOMAIN messages, m < t PROVE messages'[m] = messages[m]  OBVIOUS
    <2>1. ~(m > t)  BY <1>4
    <2> QED  BY <1>2, <2>1, Zenon
  <1>9. messages'[t] = [messages[t] EXCEPT !.ver = v, !.arch = FALSE, !.text = IF edited THEN v ELSE @]
    <2>1. ~(t > t) /\ ~(t < t)  BY <1>4
    <2> QED  BY <1>2, <2>1, Zenon
  <1>10. \A m \in DOMAIN messages : messages'[m].by = messages[m].by /\ messages'[m].tl = messages[m].tl
    <2> TAKE m \in DOMAIN messages
    <2>1. m > t \/ m < t \/ m = t  BY <1>4
    <2>2. messages[m] \in Message  BY <1>4
    <2>3. CASE m > t
      <3>1. messages'[m] = [messages[m] EXCEPT !.arch = TRUE]  BY <1>7, <2>3
      <3> QED  BY <2>2, <3>1 DEF Message
    <2>4. CASE m < t  BY <1>8, <2>4
    <2>5. CASE m = t
      <3>1. PICK x : x = IF edited THEN v ELSE messages[m].text  OBVIOUS
      <3>2. messages'[m] = [messages[m] EXCEPT !.ver = v, !.arch = FALSE, !.text = x]  BY <1>9, <2>5, <3>1
      <3> QED  BY <2>2, <3>2 DEF Message
    <2> QED  BY <2>1, <2>3, <2>4, <2>5
  <1>11. \A m \in DOMAIN messages : m > t => messages'[m].arch = TRUE /\ messages'[m].text = messages[m].text
      BY <1>4, <1>7 DEF Message
  <1>12. /\ messages'[t].arch = FALSE /\ messages'[t].ver = v
         /\ ~edited => messages'[t].text = messages[t].text
      BY <1>4, <1>9 DEF Message
  <1>13. \A e \in DOMAIN events : /\ events'[e].arch = (events[e].arch \/ events[e].tl > messages[t].tl)
                                  /\ events'[e].tl = events[e].tl
    <2> TAKE e \in DOMAIN events
    <2>1. events'[e] = [events[e] EXCEPT !.arch = (events[e].arch \/ events[e].tl > messages[t].tl)]  BY <1>3
    <2> QED  BY <1>4, <2>1 DEF UIEvent
  <1>14. conv'.head = t /\ conv'.root = conv.root
         /\ (edited => history' = Append(history, SnapshotOf(t))) /\ (~edited => history' = history)
      BY <1>4 DEF Branch, Conv
  <1> QED  BY <1>1, <1>5, <1>6, <1>8, <1>10, <1>11, <1>12, <1>13, <1>14

LEMMA StoresShape ==
    ASSUME TimelineInv, NEW r \in Requests, Stores(r)
    PROVE  /\ Len(messages') = Len(messages) + 1 /\ DOMAIN messages' = 1 .. Len(messages) + 1
           /\ \A m \in DOMAIN messages : m \in DOMAIN messages' /\ messages'[m] = messages[m]
           /\ messages'[Len(messages) + 1].ver = HeadVersion
           /\ messages'[Len(messages) + 1].arch = FALSE
           /\ conv'.head = Len(messages) + 1
           /\ conv'.root = IF Len(messages) = 0 /\ conv.root = NoMsg THEN 1 ELSE conv.root
           /\ UNCHANGED <<events, history, overwrote>>
  <1> DEFINE M == Len(messages)
  <1>1. PICK n : n = NextTimelineSeq  OBVIOUS
  <1>2. PICK h : h = HeadVersion  OBVIOUS
  <1>3. PICK new : new = [by |-> row[r].by, at |-> row[r].at, tl |-> n, ver |-> h, arch |-> FALSE, text |-> 0]
      OBVIOUS
  <1>4. M \in Nat /\ DOMAIN messages = 1 .. M /\ messages \in Seq(Message) /\ conv \in Conv
      BY Tables DEF TimelineInv, TypeOK
  <1>5. n \in Nat /\ h \in Nat \ {0}  BY <1>1, <1>2, NextNumber, Tables DEF TimelineInv, HeadVersion
  <1>6. row[r] \in Row  BY DEF TimelineInv, TypeOK, Stores, Insert
  <1>7. new \in Message /\ new.ver = h /\ new.arch = FALSE  BY <1>3, <1>5, <1>6 DEF Message, Row
  <1>8. messages' = Append(messages, new)  BY <1>1, <1>2, <1>3 DEF Stores, InsertMessage
  <1>9. conv' = PointersAfter(M + 1)  BY DEF Stores, InsertMessage
  <1>10. conv'.head = M + 1 /\ conv'.root = IF M = 0 /\ conv.root = NoMsg THEN 1 ELSE conv.root
    <2> HIDE DEF M
    <2>1. M + 1 = 1 <=> M = 0  BY <1>4
    <2> QED  BY <1>4, <1>9, <2>1 DEF PointersAfter, Conv
  <1> HIDE DEF M
  <1>11. Len(messages') = M + 1 /\ DOMAIN messages' = 1 .. M + 1 /\ messages'[M + 1] = new
         /\ \A m \in 1 .. M : m \in 1 .. M + 1 /\ messages'[m] = messages[m]
    <2>1. Len(messages') = M + 1 /\ DOMAIN messages' = 1 .. M + 1 /\ messages'[M + 1] = new
          /\ \A m \in 1 .. M : messages'[m] = messages[m]
        BY <1>4, <1>7, <1>8 DEF M
    <2>2. \A m \in 1 .. M : m \in 1 .. M + 1  BY <1>4
    <2> QED  BY <2>1, <2>2
  <1> QED  BY <1>2, <1>4, <1>7, <1>10, <1>11 DEF M, Stores, InsertMessage, Insert

LEMMA RestartIsQuiet == ASSUME TimelineInv, Restart PROVE Quiet
  <1>1. DOMAIN messages' = DOMAIN messages  BY DEF Restart
  <1>2. /\ \A m \in DOMAIN messages : messages[m] \in Message
        /\ Len(messages) \in Nat /\ DOMAIN messages = 1 .. Len(messages)
      BY Tables DEF TimelineInv
  <1>3. \A m \in DOMAIN messages : /\ messages'[m].by = messages[m].by /\ messages'[m].text = messages[m].text
                                   /\ messages'[m].arch = messages[m].arch /\ messages'[m].ver = messages[m].ver
    <2> TAKE m \in DOMAIN messages
    <2>1. messages'[m] = [messages[m] EXCEPT !.tl = Rank(messages[m].at)]  BY DEF Restart
    <2> QED  BY <1>2, <2>1 DEF Message
  <1>4. Len(messages') = Len(messages)
    <2>1. PICK M : M = Len(messages)  OBVIOUS
    <2>2. messages' \in Seq(Message)  BY RestartKeeps DEF TimelineInv, TypeOK
    <2>3. Len(messages') \in Nat /\ DOMAIN messages' = 1 .. Len(messages')  BY <2>2
    <2> QED  BY <1>1, <1>2, <2>1, <2>3
  <1> QED  BY <1>1, <1>3, <1>4 DEF Quiet, Restart

LEMMA StepKinds ==
    ASSUME TimelineInv, [Next]_vars
    PROVE  \/ Quiet
           \/ \E r \in Requests : Stores(r)
           \/ \E r \in Requests, t \in DOMAIN messages : Branches(r, t)
  <1>1. ASSUME NEW r \in Requests, RequestStep(r)
        PROVE  \/ Quiet \/ Stores(r) \/ \E t \in DOMAIN messages : Branches(r, t)
    <2>1. CASE \/ Load(r) \/ (\E t \in DOMAIN messages : LoadBranch(r, t)) \/ BranchFails(r)
               \/ EnsurePrompt(r, "ensure", "update", "append") \/ EnsurePrompt(r, "ensureAgain", "updateAgain", "turn")
      <3>1. UNCHANGED <<dbVars, overwrote>>
          BY <2>1 DEF Load, LoadBranch, BranchFails, EnsurePrompt
      <3> QED  BY <3>1 DEF Quiet, dbVars
    <2>2. CASE AppendPrompt(r) \/ AppendPatch(r) \/ RecordProgress(r) \/ AppendAnswer(r) \/ RecordEnd(r)
      <3>1. UNCHANGED <<dbVars, overwrote>>
          BY <2>2 DEF AppendPrompt, AppendPatch, RecordProgress, AppendAnswer, RecordEnd, Begin, Fail
      <3> QED  BY <3>1 DEF Quiet, dbVars
    <2>3. CASE BranchFromMessage(r)
        BY <2>3 DEF BranchFromMessage, MayBranch, IsActive, Branches
    <2>4. CASE UpdatePrompt(r, "update", "append") \/ UpdatePrompt(r, "updateAgain", "turn")
      <3>1. copy[r] \in Conv  BY <2>4 DEF TimelineInv, Copies, UpdatePrompt, At
      <3>2. PICK c : c = [copy[r] EXCEPT !.prompt = "current"]  OBVIOUS
      <3>3. UNCHANGED <<messages, history>> /\ (WriteBack(c) \/ UNCHANGED <<conv, overwrote>>)
          BY <2>4, <3>2 DEF UpdatePrompt
      <3> QED  BY <3>3 DEF Quiet, WriteBack
    <2>5. CASE WriteTitle(r)  BY <2>5 DEF WriteTitle, WriteBack, Quiet
    <2>6. CASE Insert(r)  BY <2>6 DEF Insert, Stores, InsertEvent, Quiet
    <2> QED  BY <1>1, <2>1, <2>2, <2>3, <2>4, <2>5, <2>6 DEF RequestStep
  <1>2. CASE Restart  BY <1>2, RestartIsQuiet
  <1>3. CASE UNCHANGED vars  BY <1>3 DEF vars, dbVars, Quiet
  <1> QED  BY <1>1, <1>2, <1>3 DEF Next

-----------------------------------------------------------------------------
(* The pointers. *)

LEMMA PointersNext == TimelineInv /\ PointersFollow /\ [Next]_vars => PointersFollow'
  <1> SUFFICES ASSUME TimelineInv, PointersFollow, [Next]_vars, ~overwrote' PROVE
        /\ IF messages' = <<>> THEN conv'.head = NoMsg /\ conv'.root = NoMsg
           ELSE conv'.root = 1 /\ IsActive(conv.head)'
        /\ \A m \in DOMAIN messages' : IsActive(m)' =>
              m <= conv'.head /\ messages'[m].ver <= messages'[conv'.head].ver
        /\ \A m, n \in DOMAIN messages' :
              IsActive(m)' /\ IsActive(n)' /\ m < n => messages'[m].ver <= messages'[n].ver
      BY DEF PointersFollow
  <1>1. /\ Len(messages) \in Nat /\ DOMAIN messages = 1 .. Len(messages)
        /\ \A m \in DOMAIN messages : messages[m].ver \in Nat
        /\ messages = <<>> <=> Len(messages) = 0
    <2>1. messages \in Seq(Message)  BY DEF TimelineInv, TypeOK
    <2>2. messages = <<>> <=> Len(messages) = 0  BY <2>1, EmptySeq
    <2> QED  BY <2>2, Tables DEF TimelineInv
  <1>2. messages' = <<>> <=> Len(messages') = 0
    <2>1. messages' \in Seq(Message)  BY TimelineNext DEF TimelineInv, TypeOK
    <2> QED  BY <2>1, EmptySeq
  <1>3. CASE Quiet
    <2>1. ~overwrote /\ conv'.head = conv.head /\ conv'.root = conv.root  BY <1>3 DEF Quiet
    <2>2. \A m : IsActive(m)' <=> IsActive(m)  BY <1>3 DEF Quiet, IsActive
    <2>3. \A m : IsActive(m) => m \in DOMAIN messages  BY DEF IsActive
    <2> QED  BY <1>1, <1>2, <1>3, <2>1, <2>2, <2>3 DEF Quiet, PointersFollow, IsActive
  <1>4. ASSUME NEW r \in Requests, Stores(r) PROVE
        /\ IF messages' = <<>> THEN conv'.head = NoMsg /\ conv'.root = NoMsg
           ELSE conv'.root = 1 /\ IsActive(conv.head)'
        /\ \A m \in DOMAIN messages' : IsActive(m)' =>
              m <= conv'.head /\ messages'[m].ver <= messages'[conv'.head].ver
        /\ \A m, n \in DOMAIN messages' :
              IsActive(m)' /\ IsActive(n)' /\ m < n => messages'[m].ver <= messages'[n].ver
    <2> DEFINE M == Len(messages)
    <2>1. /\ Len(messages') = M + 1 /\ DOMAIN messages' = 1 .. M + 1
          /\ \A m \in 1 .. M : messages'[m] = messages[m]
          /\ messages'[M + 1].ver = HeadVersion /\ messages'[M + 1].arch = FALSE
          /\ conv'.head = M + 1
          /\ conv'.root = IF M = 0 /\ conv.root = NoMsg THEN 1 ELSE conv.root
          /\ ~overwrote
        BY <1>1, <1>4, StoresShape
    <2> HIDE DEF M
    <2>2. M \in Nat /\ DOMAIN messages = 1 .. M /\ (messages = <<>> <=> M = 0)  BY <1>1 DEF M
    <2>3. messages' # <<>> /\ IsActive(conv.head)'  BY <1>2, <2>1, <2>2 DEF IsActive
    <2>4. conv'.root = 1
        BY <2>1, <2>2 DEF PointersFollow
    <2>5. \A m \in 1 .. M : IsActive(m)' <=> IsActive(m)  BY <2>1, <2>2 DEF IsActive
    <2>6. \A m \in 1 .. M : IsActive(m) => messages[m].ver <= HeadVersion
        BY <1>1, <2>1, <2>2 DEF PointersFollow, HeadVersion, IsActive
    <2>7. HeadVersion \in Nat  BY Tables DEF TimelineInv, HeadVersion
    <2>8. \A m \in 1 .. M + 1 : m \in 1 .. M \/ m = M + 1  BY <2>2
    <2>9. \A m \in DOMAIN messages' : IsActive(m)' =>
              m <= conv'.head /\ messages'[m].ver <= messages'[conv'.head].ver
        BY <1>1, <2>1, <2>2, <2>5, <2>6, <2>7, <2>8
    <2>10. \A m, n \in DOMAIN messages' :
              IsActive(m)' /\ IsActive(n)' /\ m < n => messages'[m].ver <= messages'[n].ver
      <3> SUFFICES ASSUME NEW m \in DOMAIN messages', NEW n \in DOMAIN messages',
                          IsActive(m)', IsActive(n)', m < n
                   PROVE  messages'[m].ver <= messages'[n].ver
          OBVIOUS
      <3>1. m \in 1 .. M  BY <2>1, <2>2
      <3>2. CASE n = M + 1  BY <2>1, <2>5, <2>6, <3>1, <3>2
      <3>3. CASE n \in 1 .. M  BY <2>1, <2>2, <2>5, <3>1, <3>3 DEF PointersFollow
      <3> QED  BY <2>1, <2>8, <3>2, <3>3
    <2> QED  BY <2>3, <2>4, <2>9, <2>10
  <1>5. ASSUME NEW r \in Requests, NEW t \in DOMAIN messages, Branches(r, t) PROVE
        /\ IF messages' = <<>> THEN conv'.head = NoMsg /\ conv'.root = NoMsg
           ELSE conv'.root = 1 /\ IsActive(conv.head)'
        /\ \A m \in DOMAIN messages' : IsActive(m)' =>
              m <= conv'.head /\ messages'[m].ver <= messages'[conv'.head].ver
        /\ \A m, n \in DOMAIN messages' :
              IsActive(m)' /\ IsActive(n)' /\ m < n => messages'[m].ver <= messages'[n].ver
    <2>1. PICK v : v = NextVersion  OBVIOUS
    <2>2. v \in Nat /\ \A m \in DOMAIN messages : messages[m].ver < v
        BY <2>1, NextVersionIsNew DEF TimelineInv
    <2>3. /\ DOMAIN messages' = DOMAIN messages /\ Len(messages') = Len(messages)
          /\ \A m \in DOMAIN messages : m > t => messages'[m].arch = TRUE
          /\ \A m \in DOMAIN messages : m < t => messages'[m] = messages[m]
          /\ messages'[t].arch = FALSE /\ messages'[t].ver = v
          /\ conv'.head = t /\ conv'.root = conv.root /\ ~overwrote
        BY <1>5, <2>1, BranchShape DEF Branches
    <2>4. messages # <<>> /\ messages' # <<>>  BY <1>1, <1>2, <2>3
    <2>5. conv'.root = 1 /\ IsActive(conv.head)'  BY <2>3, <2>4 DEF PointersFollow, IsActive
    <2>6. \A m \in DOMAIN messages : IsActive(m)' => m <= t /\ (m < t => IsActive(m))
        BY <1>1, <2>3 DEF IsActive
    <2>7. \A m \in DOMAIN messages' : IsActive(m)' =>
              m <= conv'.head /\ messages'[m].ver <= messages'[conv'.head].ver
        BY <1>1, <2>2, <2>3, <2>6
    <2>8. \A m, n \in DOMAIN messages' :
              IsActive(m)' /\ IsActive(n)' /\ m < n => messages'[m].ver <= messages'[n].ver
      <3> SUFFICES ASSUME NEW m \in DOMAIN messages', NEW n \in DOMAIN messages',
                          IsActive(m)', IsActive(n)', m < n
                   PROVE  messages'[m].ver <= messages'[n].ver
          OBVIOUS
      <3>1. m < t /\ n <= t  BY <1>1, <2>3, <2>6
      <3>2. CASE n = t  BY <1>1, <2>2, <2>3, <3>1, <3>2
      <3>3. CASE n < t
        <4>1. messages[m].ver <= messages[n].ver  BY <2>3, <2>6, <3>1, <3>3 DEF PointersFollow
        <4> QED  BY <2>3, <3>1, <3>3, <4>1
      <3> QED  BY <1>1, <2>3, <3>1, <3>2, <3>3
    <2> QED  BY <2>4, <2>5, <2>7, <2>8
  <1> QED  BY <1>3, <1>4, <1>5, StepKinds

\* The head pointer is the last active message, the root the first message and versions
\* never fall along the transcript, until an update writes back stale pointers.
THEOREM PointersAreFollowed == Spec => []PointersFollow
  <1>1. Init => PointersFollow
    <2> SUFFICES ASSUME Init PROVE PointersFollow  OBVIOUS
    <2>1. DOMAIN messages = {}  BY DEF Init
    <2> QED  BY <2>1 DEF Init, PointersFollow
  <1> QED  BY <1>1, PointersNext, TimelineIsKept, PTL DEF Spec

-----------------------------------------------------------------------------
(* What a branch leaves and what it loses. *)

\* A step that is no branch and inserts no message takes the next version from the same ones.
LEMMA QuietVersion == ASSUME Quiet PROVE NextVersion' = NextVersion
  <1>1. {messages'[m].ver : m \in DOMAIN messages'} = {messages[m].ver : m \in DOMAIN messages}
      BY DEF Quiet
  <1> QED  BY <1>1 DEF NextVersion

LEMMA CutsStep ==
    ASSUME TimelineInv, [Next]_vars, Aligned, NextVersion' # NextVersion, Len(messages') = Len(messages)
    PROVE  LET cut == messages[conv'.head].tl
           IN  /\ \A m \in DOMAIN messages :
                     ~messages'[m].arch <=> ~messages[m].arch /\ messages[m].tl <= cut
               /\ \A e \in DOMAIN events :
                     ~events'[e].arch <=> ~events[e].arch /\ events[e].tl <= cut
  <1>1. ~Quiet  BY QuietVersion
  <1>2. \A r \in Requests : ~Stores(r)
    <2>1. Len(messages) \in Nat  BY Tables DEF TimelineInv
    <2>2. ASSUME NEW r \in Requests, Stores(r) PROVE Len(messages') = Len(messages) + 1  BY <2>2, StoresShape
    <2> QED  BY <2>1, <2>2
  <1>3. PICK r \in Requests, t \in DOMAIN messages : Branches(r, t)  BY <1>1, <1>2, StepKinds
  <1>4. /\ \A m \in DOMAIN messages : m > t => messages'[m].arch = TRUE
        /\ \A m \in DOMAIN messages : m < t => messages'[m] = messages[m]
        /\ messages'[t].arch = FALSE
        /\ \A e \in DOMAIN events : events'[e].arch = (events[e].arch \/ events[e].tl > messages[t].tl)
        /\ conv'.head = t
      BY <1>3, BranchShape DEF Branches
  <1>5. /\ \A m \in DOMAIN messages : m \in Nat /\ messages[m].tl \in Nat
        /\ \A e \in DOMAIN events : events[e].tl \in Nat /\ events[e].arch \in BOOLEAN
      BY Tables DEF TimelineInv
  <1>6. ~messages[t].arch  BY <1>3 DEF Branches, IsActive
  <1>7. ASSUME NEW m \in DOMAIN messages
        PROVE  ~messages'[m].arch <=> ~messages[m].arch /\ messages[m].tl <= messages[t].tl
    <2>1. CASE m > t
      <3>1. messages[t].tl < messages[m].tl  BY <1>5, <2>1 DEF Aligned
      <3> QED  BY <1>4, <1>5, <2>1, <3>1
    <2>2. CASE m < t
      <3>1. messages[m].tl < messages[t].tl  BY <2>2 DEF Aligned
      <3> QED  BY <1>4, <1>5, <2>2, <3>1
    <2>3. CASE m = t  BY <1>4, <1>5, <1>6, <2>3
    <2> QED  BY <1>5, <2>1, <2>2, <2>3
  <1>8. ASSUME NEW e \in DOMAIN events
        PROVE  ~events'[e].arch <=> ~events[e].arch /\ events[e].tl <= messages[t].tl
    <2>1. events'[e].arch = (events[e].arch \/ events[e].tl > messages[t].tl)  BY <1>4
    <2>2. events[e].tl > messages[t].tl <=> ~(events[e].tl <= messages[t].tl)  BY <1>5
    <2> QED  BY <2>1, <2>2
  <1> QED  BY <1>4, <1>7, <1>8

LEMMA EditsStep ==
    ASSUME TimelineInv, [Next]_vars
    PROVE  /\ \A m \in DOMAIN messages : messages'[m].text # messages[m].text =>
                 \E h \in DOMAIN history' :
                     history'[h] = [msg |-> m, ver |-> messages[m].ver, text |-> messages[m].text]
           /\ \A h \in DOMAIN history : history'[h] = history[h]
  <1>1. CASE Quiet  BY <1>1 DEF Quiet
  <1>2. ASSUME NEW r \in Requests, Stores(r)
        PROVE  history' = history /\ \A m \in DOMAIN messages : messages'[m] = messages[m]
      BY <1>2, StoresShape
  <1>3. ASSUME NEW r \in Requests, NEW t \in DOMAIN messages, Branches(r, t)
        PROVE  /\ \A m \in DOMAIN messages : messages'[m].text # messages[m].text =>
                     \E h \in DOMAIN history' :
                         history'[h] = [msg |-> m, ver |-> messages[m].ver, text |-> messages[m].text]
               /\ \A h \in DOMAIN history : history'[h] = history[h]
    <2> DEFINE edited == pc[r] = "edit"
    <2>2. Branch(t, edited)  BY <1>3 DEF Branches
    <2>3. /\ \A m \in DOMAIN messages : m > t => messages'[m].text = messages[m].text
          /\ \A m \in DOMAIN messages : m < t => messages'[m] = messages[m]
          /\ ~edited => messages'[t].text = messages[t].text
          /\ edited => history' = Append(history, SnapshotOf(t))
          /\ ~edited => history' = history
        BY <2>2, BranchShape
    <2> HIDE DEF edited
    <2>4. \A m \in DOMAIN messages : m \in Nat  BY Tables DEF TimelineInv
    <2>5. \A m \in DOMAIN messages : messages'[m].text # messages[m].text => m = t /\ edited
      <3> SUFFICES ASSUME NEW m \in DOMAIN messages, messages'[m].text # messages[m].text
                   PROVE  m = t /\ edited
          OBVIOUS
      <3>1. m > t \/ m < t \/ m = t  BY <2>4
      <3>2. m = t  BY <2>3, <3>1
      <3> QED  BY <2>3, <3>2
    <2>6. CASE ~edited  BY <2>3, <2>5, <2>6
    <2>7. CASE edited
      <3>1. SnapshotOf(t) \in Snapshot /\ history \in Seq(Snapshot)
          BY Tables DEF TimelineInv, TypeOK, SnapshotOf, Snapshot
      <3>2. history' = Append(history, SnapshotOf(t))  BY <2>3, <2>7
      <3>3. /\ Len(history) + 1 \in DOMAIN history' /\ history'[Len(history) + 1] = SnapshotOf(t)
            /\ \A h \in DOMAIN history : history'[h] = history[h]
          BY <3>1, <3>2
      <3> QED  BY <2>5, <3>3 DEF SnapshotOf
    <2> QED  BY <2>6, <2>7
  <1> QED  BY <1>1, <1>2, <1>3, StepKinds

\* A branch archives what comes after its root in both tables, and whatever a message said
\* before an edit is still in the history.
THEOREM BranchesAreFaithful == Spec => BranchIsFaithful
  <1>1. TimelineInv /\ [Next]_vars =>
            [Aligned /\ NextVersion' # NextVersion /\ Len(messages') = Len(messages) =>
                LET cut == messages[conv'.head].tl
                IN  /\ \A m \in DOMAIN messages :
                          ~messages'[m].arch <=> ~messages[m].arch /\ messages[m].tl <= cut
                    /\ \A e \in DOMAIN events :
                          ~events'[e].arch <=> ~events[e].arch /\ events[e].tl <= cut]_vars
      BY CutsStep
  <1>2. TimelineInv /\ [Next]_vars =>
            [/\ \A m \in DOMAIN messages : messages'[m].text # messages[m].text =>
                   \E h \in DOMAIN history' :
                       history'[h] = [msg |-> m, ver |-> messages[m].ver, text |-> messages[m].text]
             /\ \A h \in DOMAIN history : history'[h] = history[h]]_vars
      BY EditsStep
  <1> QED  BY <1>1, <1>2, TimelineIsKept, PTL DEF Spec, BranchIsFaithful, BranchCutsTimeline, EditsKept

-----------------------------------------------------------------------------
(* Conversation implements Transcript. *)

\* The record of a message in the transcript.
Entry(m) == [id |-> m, by |-> messages[m].by, text |-> messages[m].text]
Replayed == {Entry(m) : m \in {k \in DOMAIN messages : IsActive(k)}}

LEMMA StoresContinues == ASSUME TimelineInv, NEW r \in Requests, Stores(r) PROVE Transcript!Continue
  <1>0. PICK M : M = Len(messages)  OBVIOUS
  <1>1. /\ M \in Nat /\ DOMAIN messages = 1 .. M /\ DOMAIN messages' = 1 .. M + 1
        /\ \A m \in 1 .. M : messages'[m] = messages[m]
        /\ messages'[M + 1].arch = FALSE
      BY <1>0, StoresShape, Tables DEF TimelineInv
  <1>2. PICK x : x = [id |-> M + 1, by |-> messages'[M + 1].by, text |-> messages'[M + 1].text]  OBVIOUS
  <1>3. \A m \in 1 .. M + 1 : m \in 1 .. M \/ m = M + 1  BY <1>1
  <1>4. M + 1 \in DOMAIN messages' /\ IsActive(M + 1)'  BY <1>1 DEF IsActive
  <1>5. \A m \in 1 .. M : (IsActive(m)' <=> IsActive(m)) /\ Entry(m)' = Entry(m)  BY <1>1 DEF IsActive, Entry
  <1>6. Replayed' = Replayed \cup {x}
    <2>1. ASSUME NEW y \in Replayed' PROVE y \in Replayed \cup {x}
      <3>1. PICK m \in DOMAIN messages' : IsActive(m)' /\ y = Entry(m)'  BY <2>1 DEF Replayed
      <3>2. CASE m = M + 1  BY <1>2, <3>1, <3>2 DEF Entry
      <3>3. CASE m \in 1 .. M  BY <1>1, <1>5, <3>1, <3>3 DEF Replayed
      <3> QED  BY <1>1, <1>3, <3>2, <3>3
    <2>2. ASSUME NEW y \in Replayed PROVE y \in Replayed'
      <3>1. PICK m \in DOMAIN messages : IsActive(m) /\ y = Entry(m)  BY <2>2 DEF Replayed
      <3>2. m \in DOMAIN messages' /\ IsActive(m)' /\ y = Entry(m)'  BY <1>1, <1>5, <3>1
      <3> QED  BY <3>2 DEF Replayed
    <2>3. x \in Replayed'  BY <1>2, <1>4 DEF Replayed, Entry
    <2> QED  BY <2>1, <2>2, <2>3
  <1>7. \A y \in Replayed : y.id < M + 1
    <2> TAKE y \in Replayed
    <2>1. PICK m \in 1 .. M : y = Entry(m)  BY <1>1 DEF Replayed
    <2>2. y.id = m  BY <2>1 DEF Entry
    <2> QED  BY <1>1, <2>1, <2>2
  <1>8. x.id = M + 1  BY <1>2
  <1>9. x \in Replayed' \ Replayed
    <2>1. ~(M + 1 < M + 1)  BY <1>1
    <2> QED  BY <1>6, <1>7, <1>8, <2>1
  <1>10. \A n \in Replayed : x.id > n.id
    <2> TAKE n \in Replayed
    <2>1. n.id < x.id  BY <1>7, <1>8
    <2> QED  BY <2>1
  <1> QED  BY <1>6, <1>9, <1>10 DEF Transcript!Continue, Transcript!After, Replayed, Entry

LEMMA BranchCutsBack ==
    ASSUME TimelineInv, NEW r \in Requests, NEW t \in DOMAIN messages, Branches(r, t)
    PROVE  Transcript!CutBack
  <1>1. /\ DOMAIN messages' = DOMAIN messages
        /\ \A m \in DOMAIN messages : messages'[m].by = messages[m].by
        /\ \A m \in DOMAIN messages : m > t => messages'[m].arch = TRUE
        /\ \A m \in DOMAIN messages : m < t => messages'[m] = messages[m]
        /\ messages'[t].arch = FALSE
      BY BranchShape DEF Branches
  <1>2. IsActive(t) /\ messages[t].by = "user"  BY DEF Branches
  <1>3. \A m \in DOMAIN messages : m \in Nat  BY Tables DEF TimelineInv
  <1>4. PICK x : x = Entry(t)  OBVIOUS
  <1>5. PICK u : u = [id |-> t, by |-> messages'[t].by, text |-> messages'[t].text]  OBVIOUS
  <1>6. x \in Replayed /\ x.id = t /\ x.by = "user"  BY <1>2, <1>4 DEF Replayed, Entry
  <1>7. u.id = x.id /\ u.by = x.by  BY <1>1, <1>4, <1>5 DEF Entry
  <1>8. \A m \in DOMAIN messages : m < t => (IsActive(m)' <=> IsActive(m)) /\ Entry(m)' = Entry(m)
      BY <1>1 DEF IsActive, Entry
  <1>9. \A m \in DOMAIN messages : m > t => ~IsActive(m)'  BY <1>1 DEF IsActive
  <1>10. u \in Replayed'  BY <1>1, <1>5 DEF Replayed, Entry, IsActive
  <1>11. Replayed' = {y \in Replayed : x.id > y.id} \cup {u}
    <2>1. ASSUME NEW y \in Replayed' PROVE y \in {z \in Replayed : x.id > z.id} \cup {u}
      <3>1. PICK m \in DOMAIN messages' : IsActive(m)' /\ y = Entry(m)'  BY <2>1 DEF Replayed
      <3>2. m \in DOMAIN messages /\ (m < t \/ m = t)  BY <1>1, <1>3, <1>9, <3>1
      <3>3. CASE m = t  BY <1>5, <3>1, <3>3 DEF Entry
      <3>4. CASE m < t
        <4>1. IsActive(m) /\ y = Entry(m)  BY <1>8, <3>1, <3>2, <3>4
        <4>2. y \in Replayed  BY <3>2, <4>1 DEF Replayed
        <4>3. y.id = m  BY <4>1 DEF Entry
        <4>4. t > m  BY <3>4
        <4> QED  BY <1>6, <4>2, <4>3, <4>4
      <3> QED  BY <3>2, <3>3, <3>4
    <2>2. ASSUME NEW y \in Replayed, x.id > y.id PROVE y \in Replayed'
      <3>1. PICK m \in DOMAIN messages : IsActive(m) /\ y = Entry(m)  BY <2>2 DEF Replayed
      <3>2. y.id = m  BY <3>1 DEF Entry
      <3>3. m < t  BY <1>6, <2>2, <3>2
      <3>4. IsActive(m)' /\ y = Entry(m)'  BY <1>8, <3>1, <3>3
      <3> QED  BY <1>1, <3>1, <3>4 DEF Replayed
    <2> QED  BY <1>10, <2>1, <2>2
  <1> QED  BY <1>6, <1>7, <1>10, <1>11 DEF Transcript!CutBack, Transcript!After, Replayed, Entry

LEMMA QuietStutters == ASSUME Quiet PROVE Replayed' = Replayed
  <1>1. \A m : IsActive(m)' <=> IsActive(m)  BY DEF Quiet, IsActive
  <1>2. \A m \in DOMAIN messages : Entry(m)' = Entry(m)  BY DEF Quiet, Entry
  <1>3. DOMAIN messages' = DOMAIN messages  BY DEF Quiet
  <1>4. ASSUME NEW y \in Replayed' PROVE y \in Replayed
    <2>1. PICK m \in DOMAIN messages' : IsActive(m)' /\ y = Entry(m)'  BY <1>4 DEF Replayed
    <2> QED  BY <1>1, <1>2, <1>3, <2>1 DEF Replayed
  <1>5. ASSUME NEW y \in Replayed PROVE y \in Replayed'
    <2>1. PICK m \in DOMAIN messages : IsActive(m) /\ y = Entry(m)  BY <1>5 DEF Replayed
    <2> QED  BY <1>1, <1>2, <1>3, <2>1 DEF Replayed
  <1> QED  BY <1>4, <1>5

\* Whatever requests interleave, the transcript is only continued at its end or cut back to
\* one of its own user messages: a superseded branch never comes back.
THEOREM TranscriptIsKept == Spec => KeepsTranscript
  <1>1. Init => Transcript!Init
    <2> SUFFICES ASSUME Init PROVE Transcript!Init  OBVIOUS
    <2>1. DOMAIN messages = {}  BY DEF Init
    <2> QED  BY <2>1 DEF Transcript!Init
  <1>2. TimelineInv /\ [Next]_vars =>
            [Transcript!Next]_{[id |-> m, by |-> messages[m].by, text |-> messages[m].text] :
                                   m \in {k \in DOMAIN messages : IsActive(k)}}
    <2> SUFFICES ASSUME TimelineInv, [Next]_vars
                 PROVE  Transcript!Next \/ Replayed' = Replayed
        BY DEF Replayed, Entry
    <2>1. CASE Quiet  BY <2>1, QuietStutters
    <2>2. ASSUME NEW r \in Requests, Stores(r) PROVE Transcript!Next
        BY <2>2, StoresContinues DEF Transcript!Next
    <2>3. ASSUME NEW r \in Requests, NEW t \in DOMAIN messages, Branches(r, t) PROVE Transcript!Next
        BY <2>3, BranchCutsBack DEF Transcript!Next
    <2> QED  BY <2>1, <2>2, <2>3, StepKinds
  <1> QED  BY <1>1, <1>2, TimelineIsKept, PTL DEF Spec, KeepsTranscript, Transcript!Spec

-----------------------------------------------------------------------------
(* The timeline over a restart. *)

\* n rows have the numbers 1 to n in the order of their stamps.
Placed(n, at, tl) ==
    /\ n \in Nat /\ at \in [1 .. n -> Nat] /\ tl \in [1 .. n -> 1 .. n]
    /\ \A j, k \in 1 .. n : tl[j] = tl[k] => j = k
    /\ \A j, k \in 1 .. n : at[j] < at[k] <=> tl[j] < tl[k]

\* The stamps up to that of the row x.
UpTo(n, at, x) == {a \in {at[j] : j \in 1 .. n} : a <= at[x]}

\* Then the number of a row is the count of the stamps up to its own.
LEMMA RankIsPlace ==
    ASSUME NEW n, NEW at, NEW tl, Placed(n, at, tl), NEW x \in 1 .. n
    PROVE  Cardinality(UpTo(n, at, x)) = tl[x]
  <1> DEFINE A == UpTo(n, at, x)
  <1>a. /\ n \in Nat /\ at \in [1 .. n -> Nat] /\ tl \in [1 .. n -> 1 .. n]
        /\ \A j, k \in 1 .. n : tl[j] = tl[k] => j = k
        /\ \A j, k \in 1 .. n : at[j] < at[k] <=> tl[j] < tl[k]
      BY DEF Placed
  <1>b. \A a : a \in A <=> \E j \in 1 .. n : a = at[j] /\ at[j] <= at[x]  BY DEF UpTo
  <1> HIDE DEF A
  <1>1. tl \in Injection(1 .. n, 1 .. n)  BY <1>a DEF Injection, IsInjective
  <1>2. tl \in Surjection(1 .. n, 1 .. n)
    <2>1. PICK S : S = 1 .. n  OBVIOUS
    <2>2. IsFiniteSet(S)  BY <1>a, <2>1, OneTo
    <2>3. tl \in Injection(S, S)  BY <1>1, <2>1
    <2>4. tl \in Surjection(S, S)  BY <2>2, <2>3, FS_Injection
    <2> QED  BY <2>1, <2>4
  <1>3. \A j \in 1 .. n : at[j] \in Nat /\ tl[j] \in 1 .. n /\ tl[j] \in Nat  BY <1>a
  <1>4. \A i, j \in 1 .. n : at[i] = at[j] => i = j
    <2> SUFFICES ASSUME NEW i \in 1 .. n, NEW j \in 1 .. n, at[i] = at[j] PROVE tl[i] = tl[j]
        BY <1>a
    <2>1. ~(at[i] < at[j]) /\ ~(at[j] < at[i])  BY <1>3
    <2>2. ~(tl[i] < tl[j]) /\ ~(tl[j] < tl[i])  BY <1>a, <2>1
    <2> QED  BY <1>3, <2>2
  <1>5. \A i, j \in 1 .. n : at[i] <= at[j] <=> tl[i] <= tl[j]
    <2> SUFFICES ASSUME NEW i \in 1 .. n, NEW j \in 1 .. n PROVE at[i] <= at[j] <=> tl[i] <= tl[j]
        OBVIOUS
    <2>1. at[j] < at[i] <=> tl[j] < tl[i]  BY <1>a
    <2> QED  BY <1>3, <2>1
  <1> DEFINE B == 1 .. tl[x]
             place(i) == CHOOSE j \in 1 .. n : tl[j] = i
             h == [i \in B |-> at[place(i)]]
  <1>6. \A i \in B : place(i) \in 1 .. n /\ tl[place(i)] = i
    <2> TAKE i \in B
    <2>1. i \in 1 .. n  BY <1>a, <1>3
    <2>2. \E j \in 1 .. n : tl[j] = i  BY <1>2, <2>1 DEF Surjection
    <2> QED  BY <2>2
  <1> HIDE DEF place
  <1>7. \A i \in B : h[i] \in A
    <2> TAKE i \in B
    <2>1. h[i] = at[place(i)] /\ place(i) \in 1 .. n /\ tl[place(i)] = i  BY <1>6
    <2>2. i <= tl[x]  BY <1>3
    <2>3. at[place(i)] <= at[x]  BY <1>5, <2>1, <2>2
    <2> QED  BY <1>b, <2>1, <2>3
  <1>8. \A i, j \in B : h[i] = h[j] => i = j  BY <1>4, <1>6
  <1>9. \A a \in A : \E i \in B : h[i] = a
    <2> TAKE a \in A
    <2>1. PICK j \in 1 .. n : a = at[j] /\ at[j] <= at[x]  BY <1>b
    <2>2. tl[j] \in B  BY <1>3, <1>5, <2>1
    <2>3. place(tl[j]) = j  BY <1>a, <1>6, <2>1, <2>2
    <2>4. h[tl[j]] = a  BY <2>1, <2>2, <2>3
    <2> QED  BY <2>2, <2>4
  <1>10. h \in [B -> A]  BY <1>7
  <1>11. IsFiniteSet(B) /\ Cardinality(B) = tl[x]  BY <1>3, OneTo
  <1> HIDE DEF B, h
  <1>12. h \in Bijection(B, A)
      BY <1>8, <1>9, <1>10 DEF Bijection, Injection, Surjection, IsInjective
  <1>13. Cardinality(A) = Cardinality(B)  BY <1>11, <1>12, FS_Bijection DEF ExistsBijection
  <1> QED  BY <1>11, <1>13 DEF A

\* Then a backfill would give every row the number it has.
LEMMA RanksStay ==
    ASSUME TimelineInv, InOrder
    PROVE  /\ \A m \in DOMAIN messages : Rank(messages[m].at) = messages[m].tl
           /\ \A e \in DOMAIN events : Rank(events[e].at) = events[e].tl
  <1>1. PICK M, E : M = Len(messages) /\ E = Len(events)  OBVIOUS
  <1>2. PICK n : n = M + E  OBVIOUS
  <1>3. /\ M \in Nat /\ E \in Nat /\ n \in Nat
        /\ DOMAIN messages = 1 .. M /\ DOMAIN events = 1 .. E
        /\ \A m \in 1 .. M : messages[m].at \in Nat /\ messages[m].tl \in Nat
        /\ \A e \in 1 .. E : events[e].at \in Nat /\ events[e].tl \in Nat
      BY <1>1, <1>2, Tables DEF TimelineInv
  <1>4. PICK at : at = [k \in 1 .. n |-> IF k <= M THEN messages[k].at ELSE events[k - M].at]  OBVIOUS
  <1>5. PICK tl : tl = [k \in 1 .. n |-> IF k <= M THEN messages[k].tl ELSE events[k - M].tl]  OBVIOUS
  <1>6. ASSUME NEW k \in 1 .. n
        PROVE  \/ /\ k \in 1 .. M
                  /\ at[k] = messages[k].at /\ tl[k] = messages[k].tl
               \/ /\ k \notin 1 .. M /\ k - M \in 1 .. E
                  /\ at[k] = events[k - M].at /\ tl[k] = events[k - M].tl
    <2>1. CASE k <= M  BY <1>2, <1>3, <1>4, <1>5, <2>1
    <2>2. CASE ~(k <= M)
      <3>1. k \notin 1 .. M /\ k - M \in 1 .. E  BY <1>2, <1>3, <2>2
      <3> QED  BY <1>4, <1>5, <2>2, <3>1
    <2> QED  BY <2>1, <2>2
  <1>7. \A m \in 1 .. M : m \in 1 .. n /\ at[m] = messages[m].at /\ tl[m] = messages[m].tl
      BY <1>2, <1>3, <1>4, <1>5
  <1>8. \A e \in 1 .. E : e + M \in 1 .. n /\ at[e + M] = events[e].at /\ tl[e + M] = events[e].tl
    <2> TAKE e \in 1 .. E
    <2>1. e + M \in 1 .. n /\ ~(e + M <= M) /\ (e + M) - M = e  BY <1>2, <1>3
    <2> QED  BY <1>4, <1>5, <2>1
  <1>9. /\ \A m \in 1 .. M : messages[m].tl \in 1 .. n
        /\ \A e \in 1 .. E : events[e].tl \in 1 .. n
    <2>1. cursor = NoCursor => M = 0 /\ E = 0
      <3> SUFFICES ASSUME cursor = NoCursor PROVE M = 0 /\ E = 0  OBVIOUS
      <3>1. messages = <<>> /\ events = <<>>  BY DEF TimelineInv, Numbered
      <3> QED  BY <1>1, <3>1
    <2>2. cursor # NoCursor => cursor = n + 1  BY <1>1, <1>2 DEF TimelineInv, Numbered
    <2>3. /\ \A m \in 1 .. M : messages[m].tl # 0 /\ messages[m].tl < cursor
          /\ \A e \in 1 .. E : events[e].tl # 0 /\ events[e].tl < cursor
        BY <1>3 DEF TimelineInv, Numbered, OneTimeline
    <2>4. CASE cursor = NoCursor  BY <1>3, <2>1, <2>4
    <2>5. CASE cursor # NoCursor  BY <1>3, <2>2, <2>3, <2>5
    <2> QED  BY <2>4, <2>5
  <1>10. at \in [1 .. n -> Nat] /\ tl \in [1 .. n -> 1 .. n]
    <2>1. \A k \in 1 .. n : at[k] \in Nat /\ tl[k] \in 1 .. n  BY <1>3, <1>6, <1>9
    <2> QED  BY <1>4, <1>5, <2>1
  <1>11. \A j, k \in 1 .. n : tl[j] = tl[k] => j = k
    <2> SUFFICES ASSUME NEW j \in 1 .. n, NEW k \in 1 .. n, tl[j] = tl[k] PROVE j = k  OBVIOUS
    <2>0. /\ \A m, l \in 1 .. M : messages[m].tl = messages[l].tl => m = l
          /\ \A e, f \in 1 .. E : events[e].tl = events[f].tl => e = f
          /\ \A m \in 1 .. M, e \in 1 .. E : messages[m].tl # events[e].tl
        BY <1>3 DEF TimelineInv, OneTimeline
    <2>1. CASE j \in 1 .. M /\ k \notin 1 .. M
      <3>1. tl[j] = messages[j].tl /\ k - M \in 1 .. E /\ tl[k] = events[k - M].tl  BY <1>6, <2>1
      <3> QED  BY <2>0, <2>1, <3>1
    <2>2. CASE j \notin 1 .. M /\ k \in 1 .. M
      <3>1. tl[k] = messages[k].tl /\ j - M \in 1 .. E /\ tl[j] = events[j - M].tl  BY <1>6, <2>2
      <3> QED  BY <2>0, <2>2, <3>1
    <2>3. CASE j \in 1 .. M /\ k \in 1 .. M
      <3>1. tl[j] = messages[j].tl /\ tl[k] = messages[k].tl  BY <1>6, <2>3
      <3> QED  BY <2>0, <2>3, <3>1
    <2>4. CASE j \notin 1 .. M /\ k \notin 1 .. M
      <3>1. j - M \in 1 .. E /\ tl[j] = events[j - M].tl  BY <1>6, <2>4
      <3>2. k - M \in 1 .. E /\ tl[k] = events[k - M].tl  BY <1>6, <2>4
      <3>3. j - M = k - M  BY <2>0, <3>1, <3>2
      <3> QED  BY <1>3, <3>3
    <2> QED  BY <2>1, <2>2, <2>3, <2>4
  <1>12. \A j, k \in 1 .. n : at[j] < at[k] <=> tl[j] < tl[k]
    <2>1. \A m, l \in 1 .. M : messages[m].at < messages[l].at <=> messages[m].tl < messages[l].tl
      <3> SUFFICES ASSUME NEW m \in 1 .. M, NEW l \in 1 .. M
                   PROVE  messages[m].at < messages[l].at <=> messages[m].tl < messages[l].tl
          OBVIOUS
      <3>1. m < l \/ l < m \/ m = l  BY <1>3
      <3>2. m < l => messages[m].at < messages[l].at /\ messages[m].tl < messages[l].tl
          BY <1>3 DEF InOrder, Aligned
      <3>3. l < m => messages[l].at < messages[m].at /\ messages[l].tl < messages[m].tl
          BY <1>3 DEF InOrder, Aligned
      <3> QED  BY <1>3, <3>1, <3>2, <3>3
    <2>2. \A e, f \in 1 .. E : events[e].at < events[f].at <=> events[e].tl < events[f].tl
      <3> SUFFICES ASSUME NEW e \in 1 .. E, NEW f \in 1 .. E
                   PROVE  events[e].at < events[f].at <=> events[e].tl < events[f].tl
          OBVIOUS
      <3>1. e < f \/ f < e \/ e = f  BY <1>3
      <3>2. e < f => events[e].at < events[f].at /\ events[e].tl < events[f].tl
          BY <1>3 DEF InOrder
      <3>3. f < e => events[f].at < events[e].at /\ events[f].tl < events[e].tl
          BY <1>3 DEF InOrder
      <3> QED  BY <1>3, <3>1, <3>2, <3>3
    <2>3. \A m \in 1 .. M, e \in 1 .. E :
              /\ messages[m].at < events[e].at <=> messages[m].tl < events[e].tl
              /\ events[e].at < messages[m].at <=> events[e].tl < messages[m].tl
      <3> SUFFICES ASSUME NEW m \in 1 .. M, NEW e \in 1 .. E
                   PROVE  /\ messages[m].at < events[e].at <=> messages[m].tl < events[e].tl
                          /\ events[e].at < messages[m].at <=> events[e].tl < messages[m].tl
          OBVIOUS
      <3>1. messages[m].at < events[e].at <=> messages[m].tl < events[e].tl  BY <1>3 DEF InOrder
      <3>2. messages[m].at # events[e].at /\ messages[m].tl # events[e].tl
          BY <1>3 DEF TimelineInv, Stamped, OneTimeline
      <3> QED  BY <1>3, <3>1, <3>2
    <2> SUFFICES ASSUME NEW j \in 1 .. n, NEW k \in 1 .. n PROVE at[j] < at[k] <=> tl[j] < tl[k]
        OBVIOUS
    <2>4. CASE j \in 1 .. M /\ k \in 1 .. M  BY <1>6, <2>1, <2>4
    <2>5. CASE j \in 1 .. M /\ k \notin 1 .. M  BY <1>6, <2>3, <2>5
    <2>6. CASE j \notin 1 .. M /\ k \in 1 .. M  BY <1>6, <2>3, <2>6
    <2>7. CASE j \notin 1 .. M /\ k \notin 1 .. M  BY <1>6, <2>2, <2>7
    <2> QED  BY <2>4, <2>5, <2>6, <2>7
  <1>13. RowStamps = {at[j] : j \in 1 .. n}
    <2>1. ASSUME NEW a \in RowStamps PROVE \E j \in 1 .. n : a = at[j]
        BY <1>3, <1>7, <1>8, <2>1 DEF RowStamps
    <2>2. ASSUME NEW j \in 1 .. n PROVE at[j] \in RowStamps  BY <1>3, <1>6 DEF RowStamps
    <2> QED  BY <2>1, <2>2
  <1>14. \A k \in 1 .. n : Rank(at[k]) = tl[k]
    <2> TAKE k \in 1 .. n
    <2>1. Placed(n, at, tl)  BY <1>3, <1>10, <1>11, <1>12 DEF Placed
    <2>2. Cardinality(UpTo(n, at, k)) = tl[k]  BY <2>1, RankIsPlace
    <2>3. UpTo(n, at, k) = {a \in RowStamps : a <= at[k]}  BY <1>13 DEF UpTo
    <2> QED  BY <2>2, <2>3 DEF Rank
  <1> QED  BY <1>3, <1>7, <1>8, <1>14

LEMMA TimelineStep ==
    ASSUME TimelineInv, [Next]_vars, InOrder \/ restarts' = restarts
    PROVE  SameTimeline
  <1>1. CASE Restart
    <2>1. InOrder
      <3>1. restarts' = restarts + 1 /\ restarts \in Nat  BY <1>1 DEF Restart, TimelineInv, TypeOK
      <3> QED  BY <3>1
    <2>2. \A m \in DOMAIN messages : messages'[m].tl = messages[m].tl
      <3> TAKE m \in DOMAIN messages
      <3>1. messages'[m] = [messages[m] EXCEPT !.tl = Rank(messages[m].at)]  BY <1>1 DEF Restart
      <3> QED  BY <2>1, <3>1, RanksStay, Tables DEF TimelineInv, Message
    <2>3. \A e \in DOMAIN events : events'[e].tl = events[e].tl
      <3> TAKE e \in DOMAIN events
      <3>1. events'[e] = [events[e] EXCEPT !.tl = Rank(events[e].at)]  BY <1>1 DEF Restart
      <3> QED  BY <2>1, <3>1, RanksStay, Tables DEF TimelineInv, UIEvent
    <2> QED  BY <2>2, <2>3 DEF SameTimeline
  <1>2. ASSUME NEW r \in Requests, RequestStep(r) PROVE SameTimeline
    <2>1. CASE BranchFromMessage(r)
      <3>1. PICK t \in DOMAIN messages : Branch(t, pc[r] = "edit")
          BY <2>1 DEF BranchFromMessage, MayBranch, IsActive
      <3> QED  BY <3>1, BranchShape DEF SameTimeline
    <2>2. CASE Stores(r)  BY <2>2, StoresShape DEF SameTimeline
    <2>3. CASE Insert(r) /\ ~Stores(r)
      <3>1. InsertEvent(row[r]) /\ row[r] \in Row  BY <2>3 DEF Insert, Stores, TimelineInv, TypeOK
      <3>2. PICK k : k = NextTimelineSeq  OBVIOUS
      <3>3. PICK new : new = [at |-> row[r].at, tl |-> k, arch |-> FALSE]  OBVIOUS
      <3>4. k \in Nat  BY <3>2, NextNumber, Tables DEF TimelineInv
      <3>5. new \in UIEvent  BY <3>1, <3>3, <3>4 DEF UIEvent, Row
      <3>6. events' = Append(events, new) /\ messages' = messages /\ events \in Seq(UIEvent)
          BY <3>1, <3>2, <3>3 DEF InsertEvent, TimelineInv, TypeOK
      <3>7. \A e \in DOMAIN events : events'[e] = events[e]  BY <3>5, <3>6
      <3> QED  BY <3>6, <3>7 DEF SameTimeline
    <2>4. CASE ~BranchFromMessage(r) /\ ~Insert(r)
      <3>1. messages' = messages /\ events' = events
          BY <1>2, <2>4 DEF RequestStep, Load, LoadBranch, BranchFails, EnsurePrompt, UpdatePrompt, AppendPrompt,
                            AppendPatch, RecordProgress, AppendAnswer, RecordEnd, Begin, Fail, WriteTitle, dbVars
      <3> QED  BY <3>1 DEF SameTimeline
    <2> QED  BY <2>1, <2>2, <2>3, <2>4
  <1>3. CASE UNCHANGED vars  BY <1>3 DEF vars, dbVars, SameTimeline
  <1> QED  BY <1>1, <1>2, <1>3 DEF Next

\* A restart leaves the timeline as it is if the rows were stamped in the order of their
\* insertion, and no step but a restart renumbers a row.
THEOREM TimelinesAreKept == Spec => TimelineKept
  <1>1. TimelineInv /\ [Next]_vars => [InOrder \/ restarts' = restarts => SameTimeline]_vars
      BY TimelineStep
  <1> QED  BY <1>1, TimelineIsKept, PTL DEF Spec, TimelineKept
=============================================================================
