------------------------ MODULE DesktopStreamProofs ------------------------
(***************************************************************************)
(* Theorems about the stream of a message (DesktopStream), for any number  *)
(* of messages: what the user wrote is sent once and in order, and streams *)
(* are followed while they run.  The user neither steers with other        *)
(* messages queued nor selects a closing conversation with messages queued *)
(* (Risky = {}): the code loses messages in both cases.                    *)
(*                                                                         *)
(* The invariant speaks about every message on its way: what may still be  *)
(* sent before and after it, and what the renderer and the main process    *)
(* look like while it travels.                                             *)
(*                                                                         *)
(* And about the sidebar (ConversationList), for any number of workspaces  *)
(* and conversations, any page size and any order of the answers: what is  *)
(* selected exists and can be reached, when the user makes one request at  *)
(* a time.  That invariant says what each request under way still repairs. *)
(***************************************************************************)
EXTENDS DesktopStream, ConversationList, DesktopProofs

-----------------------------------------------------------------------------
(* Lists. *)

\* filter keeps the elements of the list that belong to the set, in their order.
LEMMA OnlyOrder ==
    ASSUME NEW S, NEW list \in Seq(S), NEW set
    PROVE  /\ Only(list, set) \in Seq(S)
           /\ Range(Only(list, set)) = Range(list) \cap set
           /\ \A k, l \in DOMAIN Only(list, set) : k < l =>
                \E i, j \in DOMAIN list : i < j /\ Only(list, set)[k] = list[i] /\ Only(list, set)[l] = list[j]
  <1>1. PICK kept : kept = {i \in DOMAIN list : list[i] \in set}  OBVIOUS
  <1>2. DOMAIN list = 1 .. Len(list) /\ Len(list) \in Nat  OBVIOUS
  <1>3. kept \in SUBSET Nat /\ IsFiniteSet(kept)
    <2>1. kept \in SUBSET (1 .. Len(list))  BY <1>1, <1>2
    <2>2. IsFiniteSet(1 .. Len(list))  BY <1>2, OneTo
    <2>3. IsFiniteSet(kept)  BY <2>1, <2>2, FS_Subset
    <2> QED  BY <2>1, <2>3
  <1>4. PICK N : N = Cardinality(kept)  OBVIOUS
  <1>5. N \in Nat  BY <1>3, <1>4, FS_CardinalityType
  <1> DEFINE Nth(k) == CHOOSE i \in kept : PlaceIn(kept, i) = k
  <1>6. Only(list, set) = [k \in 1 .. N |-> list[Nth(k)]]  BY <1>1, <1>4 DEF Only, PlaceIn
  <1>7. \A k \in 1 .. N : Nth(k) \in kept /\ PlaceIn(kept, Nth(k)) = k  BY <1>3, <1>4, PlacesFill
  <1> HIDE DEF Nth
  <1>8. Only(list, set) \in Seq(S) /\ DOMAIN Only(list, set) = 1 .. N
    <2>0. \A i \in 1 .. Len(list) : list[i] \in S  BY ElementOfSeq
    <2>1. \A k \in 1 .. N : list[Nth(k)] \in S  BY <1>1, <1>2, <1>7, <2>0
    <2> QED  BY <1>5, <1>6, <2>1
  <1>9. Range(Only(list, set)) = Range(list) \cap set
    <2>1. Len(Only(list, set)) = N  BY <1>5, <1>6
    <2>2. \A x : (\E k \in 1 .. N : Only(list, set)[k] = x) <=> x \in set /\ \E i \in 1 .. Len(list) : list[i] = x
        BY <2>1, OnlyKeeps
    <2>3. Range(Only(list, set)) = {Only(list, set)[k] : k \in 1 .. N}  BY <1>8 DEF Range
    <2>4. Range(list) = {list[i] : i \in 1 .. Len(list)}  BY <1>2 DEF Range
    <2> QED  BY <2>2, <2>3, <2>4
  <1>10. ASSUME NEW k \in 1 .. N, NEW l \in 1 .. N, k < l PROVE Nth(k) < Nth(l)
    <2> DEFINE Upto(i) == {j \in kept : j <= i}
    <2>0. Nth(k) \in Nat /\ Nth(l) \in Nat
      <3>1. Nth(k) \in kept /\ Nth(l) \in kept  BY <1>7
      <3> QED  BY <1>3, <3>1
    <2>1. SUFFICES ASSUME Nth(l) <= Nth(k) PROVE FALSE  BY <2>0
    <2>2. Upto(Nth(l)) \in SUBSET Upto(Nth(k))
      <3>1. \A j \in kept : j \in Nat  BY <1>3
      <3>2. Nth(l) \in Nat /\ Nth(k) \in Nat  BY <1>7, <3>1
      <3> QED  BY <2>1, <3>1, <3>2
    <2>3. IsFiniteSet(Upto(Nth(k)))  BY <1>3, FS_Subset
    <2>4. Cardinality(Upto(Nth(l))) <= Cardinality(Upto(Nth(k)))  BY <2>2, <2>3, FS_Subset
    <2>5. l <= k  BY <2>4, <1>7 DEF PlaceIn
    <2> QED  BY <2>5, <1>10
  <1>11. ASSUME NEW k \in DOMAIN Only(list, set), NEW l \in DOMAIN Only(list, set), k < l
         PROVE  \E i, j \in DOMAIN list : i < j /\ Only(list, set)[k] = list[i] /\ Only(list, set)[l] = list[j]
    <2>1. k \in 1 .. N /\ l \in 1 .. N  BY <1>8
    <2>2. Nth(k) < Nth(l) /\ Nth(k) \in DOMAIN list /\ Nth(l) \in DOMAIN list  BY <1>1, <1>7, <1>10, <1>11, <2>1
    <2> QED  BY <1>6, <2>1, <2>2
  <1> QED  BY <1>8, <1>9, <1>11

\* What filter keeps depends on the members of the set that are in the list.
LEMMA OnlySame ==
    ASSUME NEW S, NEW list \in Seq(S), NEW set, NEW other, Range(list) \cap set = Range(list) \cap other
    PROVE  Only(list, set) = Only(list, other)
  <1>1. {i \in DOMAIN list : list[i] \in set} = {i \in DOMAIN list : list[i] \in other}  BY DEF Range
  <1>2. PICK kept : kept = {i \in DOMAIN list : list[i] \in set}  OBVIOUS
  <1> DEFINE Nth(k) == CHOOSE i \in kept : Cardinality({j \in kept : j <= i}) = k
  <1>3. Only(list, set) = [k \in 1 .. Cardinality(kept) |-> list[Nth(k)]]  BY <1>2 DEF Only
  <1>4. Only(list, other) = [k \in 1 .. Cardinality(kept) |-> list[Nth(k)]]
    <2>1. kept = {i \in DOMAIN list : list[i] \in other}  BY <1>1, <1>2
    <2> QED  BY <2>1 DEF Only
  <1> QED  BY <1>3, <1>4

\* filter and an element added at the end.
LEMMA OnlyAppend ==
    ASSUME NEW S, NEW list \in Seq(S), NEW x \in S, NEW set
    PROVE  Only(Append(list, x), set) = IF x \in set THEN Append(Only(list, set), x) ELSE Only(list, set)
  <1> DEFINE n == Len(list)
             more == Append(list, x)
  <1>1. PICK kept : kept = {i \in DOMAIN list : list[i] \in set}  OBVIOUS
  <1>2. PICK grown : grown = {i \in DOMAIN more : more[i] \in set}  OBVIOUS
  <1>3. DOMAIN list = 1 .. n /\ n \in Nat /\ DOMAIN more = 1 .. n + 1 /\ more[n + 1] = x
        /\ \A i \in 1 .. n : more[i] = list[i]
      OBVIOUS
  <1>4. grown = IF x \in set THEN kept \cup {n + 1} ELSE kept
    <2>1. 1 .. n + 1 = (1 .. n) \cup {n + 1} /\ n + 1 \notin 1 .. n  BY <1>3
    <2> QED  BY <1>1, <1>2, <1>3, <2>1
  <1>5. kept \in SUBSET (1 .. n) /\ IsFiniteSet(kept) /\ kept \in SUBSET Nat /\ n + 1 \notin kept
    <2>1. kept \in SUBSET (1 .. n)  BY <1>1, <1>3
    <2>2. IsFiniteSet(1 .. n)  BY <1>3, OneTo
    <2>3. IsFiniteSet(kept)  BY <2>1, <2>2, FS_Subset
    <2> QED  BY <1>3, <2>1, <2>3
  <1>6. PICK N : N = Cardinality(kept)  OBVIOUS
  <1>7. N \in Nat  BY <1>5, <1>6, FS_CardinalityType
  <1> DEFINE Nth(k) == CHOOSE i \in kept : PlaceIn(kept, i) = k
             NthOf(k) == CHOOSE i \in grown : PlaceIn(grown, i) = k
  <1>8. Only(list, set) = [k \in 1 .. N |-> list[Nth(k)]]  BY <1>1, <1>6 DEF Only, PlaceIn
  <1>9. Only(more, set) = [k \in 1 .. Cardinality(grown) |-> more[NthOf(k)]]  BY <1>2 DEF Only, PlaceIn
  <1>10. \A k \in 1 .. N : Nth(k) \in kept /\ PlaceIn(kept, Nth(k)) = k  BY <1>5, <1>6, PlacesFill
  <1> HIDE DEF Nth
  <1>11. \A k \in 1 .. N : list[Nth(k)] \in S
    <2>1. \A i \in 1 .. n : list[i] \in S  BY ElementOfSeq
    <2> QED  BY <1>1, <1>3, <1>10, <2>1
  <1>12. CASE x \notin set
    <2>1. grown = kept  BY <1>4, <1>12
    <2>2. \A k \in 1 .. N : more[NthOf(k)] = list[Nth(k)]  BY <1>3, <1>5, <1>10, <2>1 DEF Nth
    <2> QED  BY <1>6, <1>8, <1>9, <1>12, <2>1, <2>2
  <1>13. CASE x \in set
    <2>1. grown = kept \cup {n + 1}  BY <1>4, <1>13
    <2>2. grown \in SUBSET Nat /\ IsFiniteSet(grown) /\ Cardinality(grown) = N + 1
      <3>1. IsFiniteSet(grown) /\ Cardinality(grown) = N + 1  BY <1>5, <1>6, <2>1, FS_AddElement
      <3>2. n + 1 \in Nat  BY <1>3
      <3> QED  BY <1>5, <2>1, <3>1, <3>2
    <2>3. \A i \in kept : PlaceIn(grown, i) = PlaceIn(kept, i)
      <3> TAKE i \in kept
      <3>1. i <= n /\ i \in Nat  BY <1>3, <1>5
      <3>2. {j \in grown : j <= i} = {j \in kept : j <= i}  BY <1>3, <2>1, <3>1
      <3> QED  BY <3>2 DEF PlaceIn
    <2>4. PlaceIn(grown, n + 1) = N + 1
      <3>1. \A j \in grown : j <= n + 1  BY <1>3, <1>5, <2>1
      <3>2. {j \in grown : j <= n + 1} = grown  BY <3>1
      <3> QED  BY <2>2, <3>2 DEF PlaceIn
    <2>5. \A i, j \in grown : PlaceIn(grown, i) = PlaceIn(grown, j) => i = j  BY <2>2, PlacesFill
    <2> HIDE DEF more
    <2>6. \A k \in 1 .. N : NthOf(k) = Nth(k)
      <3> TAKE k \in 1 .. N
      <3>1. Nth(k) \in grown /\ PlaceIn(grown, Nth(k)) = k  BY <1>10, <2>1, <2>3
      <3>2. NthOf(k) \in grown /\ PlaceIn(grown, NthOf(k)) = k  BY <3>1
      <3> QED  BY <2>5, <3>1, <3>2
    <2>7. NthOf(N + 1) = n + 1
      <3>1. n + 1 \in grown  BY <2>1
      <3>2. NthOf(N + 1) \in grown /\ PlaceIn(grown, NthOf(N + 1)) = N + 1  BY <2>4, <3>1
      <3> QED  BY <2>4, <2>5, <3>1, <3>2
    <2> HIDE DEF NthOf
    <2>8. Only(list, set) \in Seq(S) /\ Len(Only(list, set)) = N  BY <1>7, <1>8, <1>11
    <2>9. Only(more, set) \in Seq(S) /\ Len(Only(more, set)) = N + 1
      <3>1. \A k \in 1 .. N : more[NthOf(k)] \in S  BY <1>1, <1>3, <1>10, <1>11, <2>6
      <3>2. more[NthOf(N + 1)] \in S  BY <1>3, <2>7
      <3>3. \A k \in 1 .. N + 1 : k \in 1 .. N \/ k = N + 1  BY <1>7
      <3>4. \A k \in 1 .. N + 1 : more[NthOf(k)] \in S  BY <3>1, <3>2, <3>3
      <3>5. N + 1 \in Nat  BY <1>7
      <3>6. Only(more, set) = [k \in 1 .. N + 1 |-> more[NthOf(k)]]  BY <1>9, <2>2
      <3> QED  BY <3>4, <3>5, <3>6
    <2>10. Append(Only(list, set), x) \in Seq(S) /\ Len(Append(Only(list, set), x)) = N + 1
           /\ (\A k \in 1 .. N : Append(Only(list, set), x)[k] = Only(list, set)[k])
           /\ Append(Only(list, set), x)[N + 1] = x
        BY <2>8, AppendProperties
    <2>11. \A k \in 1 .. N + 1 : Only(more, set)[k] = Append(Only(list, set), x)[k]
      <3> TAKE k \in 1 .. N + 1
      <3>1. Only(more, set)[k] = more[NthOf(k)]  BY <1>9, <2>2
      <3>2. CASE k \in 1 .. N
        <4>1. more[NthOf(k)] = list[Nth(k)]  BY <1>1, <1>3, <1>10, <2>6, <3>2
        <4>2. Only(list, set)[k] = list[Nth(k)]  BY <1>8, <3>2
        <4> QED  BY <2>10, <3>1, <3>2, <4>1, <4>2
      <3>3. CASE k = N + 1  BY <1>3, <2>7, <2>10, <3>1, <3>3
      <3>4. k \in 1 .. N \/ k = N + 1  BY <1>7
      <3> QED  BY <3>2, <3>3, <3>4
    <2>12. Only(more, set) = Append(Only(list, set), x)
      <3> HIDE DEF more
      <3> QED  BY <2>9, <2>10, <2>11, SeqEqual
    <2> QED  BY <1>13, <2>12 DEF more
  <1> QED  BY <1>12, <1>13

\* A list and an element added at its end.
LEMMA AppendRange ==
    ASSUME NEW S, NEW list \in Seq(S), NEW x \in S
    PROVE  /\ Append(list, x) \in Seq(S) /\ Range(Append(list, x)) = Range(list) \cup {x}
           /\ IsInjective(list) /\ x \notin Range(list) => IsInjective(Append(list, x))
           /\ Last(Append(list, x)) = x /\ Append(list, x) # <<>>
  <1> DEFINE n == Len(list)
             more == Append(list, x)
  <1>1. n \in Nat /\ DOMAIN list = 1 .. n /\ DOMAIN more = 1 .. n + 1 /\ more[n + 1] = x
        /\ (\A i \in 1 .. n : more[i] = list[i]) /\ more \in Seq(S) /\ Len(more) = n + 1 /\ more # <<>>
      BY AppendProperties
  <1>2. \A i \in 1 .. n + 1 : i \in 1 .. n \/ i = n + 1  BY <1>1
  <1>3. \A i \in 1 .. n : i \in 1 .. n + 1 /\ i # n + 1  BY <1>1
  <1>4. n + 1 \in 1 .. n + 1  BY <1>1
  <1> HIDE DEF more, n
  <1>5. Range(more) = Range(list) \cup {x}
    <2>1. ASSUME NEW y \in Range(more) PROVE y \in Range(list) \cup {x}
      <3>1. PICK i \in 1 .. n + 1 : y = more[i]  BY <1>1 DEF Range
      <3> QED  BY <1>1, <1>2, <3>1 DEF Range
    <2>2. ASSUME NEW y \in Range(list) PROVE y \in Range(more)
      <3>1. PICK i \in 1 .. n : y = list[i]  BY <1>1 DEF Range
      <3>2. y = more[i] /\ i \in DOMAIN more  BY <1>1, <1>3, <3>1
      <3> QED  BY <3>2 DEF Range
    <2>3. x \in Range(more)  BY <1>1, <1>4 DEF Range
    <2> QED  BY <2>1, <2>2, <2>3
  <1>6. ASSUME IsInjective(list), x \notin Range(list) PROVE IsInjective(more)
    <2> SUFFICES ASSUME NEW i \in 1 .. n + 1, NEW j \in 1 .. n + 1, more[i] = more[j] PROVE i = j
        BY <1>1 DEF IsInjective
    <2>1. \A k \in 1 .. n : list[k] \in Range(list)  BY <1>1 DEF Range
    <2> QED  BY <1>1, <1>2, <1>6, <2>1 DEF IsInjective
  <1>7. Last(more) = x  BY <1>1 DEF Last
  <1> QED  BY <1>1, <1>5, <1>6, <1>7 DEF more

\* A list without its first element.
LEMMA TailRange ==
    ASSUME NEW S, NEW list \in Seq(S), list # <<>>
    PROVE  /\ Head(list) \in S /\ Tail(list) \in Seq(S)
           /\ Range(list) = Range(Tail(list)) \cup {Head(list)}
           /\ IsInjective(list) => IsInjective(Tail(list)) /\ Head(list) \notin Range(Tail(list))
  <1> DEFINE n == Len(list)
             rest == Tail(list)
  <1>1. n \in Nat /\ n > 0 /\ DOMAIN list = 1 .. n  BY EmptySeq, LenProperties
  <1>2. rest \in Seq(S) /\ Len(rest) = n - 1 /\ DOMAIN rest = 1 .. n - 1 /\ Head(list) \in S
        /\ \A i \in 1 .. n - 1 : rest[i] = list[i + 1]
      BY HeadTailProperties, LenProperties
  <1>3. Head(list) = list[1]  BY <1>1
  <1>4. \A i \in 1 .. n : i = 1 \/ (i - 1 \in 1 .. n - 1 /\ (i - 1) + 1 = i)  BY <1>1
  <1>5. 1 \in 1 .. n /\ \A i \in 1 .. n - 1 : i + 1 \in 1 .. n /\ i + 1 # 1  BY <1>1
  <1> HIDE DEF n, rest
  <1>6. Range(list) = Range(rest) \cup {Head(list)}
    <2>1. ASSUME NEW y \in Range(list) PROVE y \in Range(rest) \cup {Head(list)}
      <3>1. PICK i \in 1 .. n : y = list[i]  BY <1>1 DEF Range
      <3>2. CASE i = 1  BY <1>3, <3>1, <3>2
      <3>3. CASE i # 1
        <4>1. i - 1 \in DOMAIN rest /\ y = rest[i - 1]  BY <1>2, <1>4, <3>1, <3>3
        <4> QED  BY <4>1 DEF Range
      <3> QED  BY <3>2, <3>3
    <2>2. ASSUME NEW y \in Range(rest) PROVE y \in Range(list)
      <3>1. PICK i \in 1 .. n - 1 : y = rest[i]  BY <1>2 DEF Range
      <3> QED  BY <1>1, <1>2, <1>5, <3>1 DEF Range
    <2>3. Head(list) \in Range(list)  BY <1>1, <1>3, <1>5 DEF Range
    <2> QED  BY <2>1, <2>2, <2>3
  <1>7. ASSUME IsInjective(list) PROVE IsInjective(rest) /\ Head(list) \notin Range(rest)
    <2>1. ASSUME NEW i \in 1 .. n - 1, NEW j \in 1 .. n - 1, rest[i] = rest[j] PROVE i = j
      <3>1. i + 1 = j + 1  BY <1>1, <1>2, <1>5, <1>7, <2>1 DEF IsInjective
      <3> QED  BY <3>1
    <2>2. ASSUME NEW i \in 1 .. n - 1, rest[i] = Head(list) PROVE FALSE
      BY <1>1, <1>2, <1>3, <1>5, <1>7, <2>2 DEF IsInjective
    <2> QED  BY <1>2, <2>1, <2>2 DEF IsInjective, Range
  <1> QED  BY <1>2, <1>6, <1>7 DEF rest

\* A list without one of its elements.
LEMMA RemoveRange ==
    ASSUME NEW S, NEW list \in Seq(S), IsInjective(list), NEW i \in DOMAIN list
    PROVE  /\ RemoveAt(list, i) \in Seq(S) /\ IsInjective(RemoveAt(list, i))
           /\ Range(RemoveAt(list, i)) \subseteq Range(list) /\ list[i] \notin Range(RemoveAt(list, i))
           /\ Len(list) = 1 => RemoveAt(list, i) = <<>>
  <1> DEFINE n == Len(list)
             less == RemoveAt(list, i)
             old(k) == IF k < i THEN k ELSE k + 1
  <1>1. n \in Nat /\ DOMAIN list = 1 .. n /\ i \in 1 .. n /\ \A j \in 1 .. n : list[j] \in S
      BY LenProperties, ElementOfSeq
  <1>2. SubSeq(list, 1, i - 1) \in Seq(S) /\ Len(SubSeq(list, 1, i - 1)) = i - 1
        /\ \A k \in 1 .. i - 1 : SubSeq(list, 1, i - 1)[k] = list[k]
    <2>1. \A k \in 1 .. i - 1 : k \in 1 .. n  BY <1>1
    <2>2. /\ SubSeq(list, 1, i - 1) \in Seq(S)
          /\ Len(SubSeq(list, 1, i - 1)) = IF 1 <= i - 1 THEN i - 1 - 1 + 1 ELSE 0
          /\ \A k \in 1 .. i - 1 - 1 + 1 : SubSeq(list, 1, i - 1)[k] = list[1 + k - 1]
        BY <1>1, <2>1, SubSeqProperties
    <2> QED  BY <1>1, <2>2
  <1>3. SubSeq(list, i + 1, n) \in Seq(S) /\ Len(SubSeq(list, i + 1, n)) = n - i
        /\ \A k \in 1 .. n - i : SubSeq(list, i + 1, n)[k] = list[i + k]
    <2>1. \A k \in i + 1 .. n : k \in 1 .. n  BY <1>1
    <2>2. /\ SubSeq(list, i + 1, n) \in Seq(S)
          /\ Len(SubSeq(list, i + 1, n)) = IF i + 1 <= n THEN n - (i + 1) + 1 ELSE 0
          /\ \A k \in 1 .. n - (i + 1) + 1 : SubSeq(list, i + 1, n)[k] = list[i + 1 + k - 1]
        BY <1>1, <2>1, SubSeqProperties
    <2>3. (IF i + 1 <= n THEN n - (i + 1) + 1 ELSE 0) = n - i  BY <1>1
    <2>4. \A k \in 1 .. n - i : k \in 1 .. n - (i + 1) + 1 /\ i + 1 + k - 1 = i + k  BY <1>1
    <2> HIDE DEF n
    <2> QED  BY <2>2, <2>3, <2>4
  <1>4. less = SubSeq(list, 1, i - 1) \o SubSeq(list, i + 1, n)  BY DEF RemoveAt
  <1>5. less \in Seq(S) /\ Len(less) = n - 1
        /\ \A k \in 1 .. n - 1 : less[k] = IF k <= i - 1 THEN SubSeq(list, 1, i - 1)[k] ELSE SubSeq(list, i + 1, n)[k - (i - 1)]
    <2>1. (i - 1) + (n - i) = n - 1  BY <1>1
    <2>2. PICK one : one = SubSeq(list, 1, i - 1)  OBVIOUS
    <2>3. PICK two : two = SubSeq(list, i + 1, n)  OBVIOUS
    <2>4. one \in Seq(S) /\ two \in Seq(S) /\ Len(one) = i - 1 /\ Len(two) = n - i  BY <1>2, <1>3, <2>2, <2>3
    <2>5. /\ one \o two \in Seq(S) /\ Len(one \o two) = Len(one) + Len(two)
          /\ \A k \in 1 .. Len(one) + Len(two) : (one \o two)[k] = IF k <= Len(one) THEN one[k] ELSE two[k - Len(one)]
        BY <2>4, ConcatProperties
    <2> QED  BY <1>4, <2>1, <2>2, <2>3, <2>4, <2>5
  <1>6. DOMAIN less = 1 .. n - 1  BY <1>5, LenProperties
  <1> HIDE DEF less
  <1>7. \A k \in 1 .. n - 1 : old(k) \in 1 .. n /\ old(k) # i /\ less[k] = list[old(k)]
    <2> TAKE k \in 1 .. n - 1
    <2>1. CASE k < i
      <3>1. k \in 1 .. i - 1 /\ k <= i - 1 /\ k \in 1 .. n  BY <1>1, <2>1
      <3> QED  BY <1>1, <1>2, <1>5, <2>1, <3>1
    <2>2. CASE ~(k < i)
      <3>1. ~(k <= i - 1) /\ k - (i - 1) \in 1 .. n - i /\ i + (k - (i - 1)) = k + 1 /\ k + 1 \in 1 .. n /\ k + 1 # i
          BY <1>1, <2>2
      <3> QED  BY <1>1, <1>3, <1>5, <2>2, <3>1
    <2> QED  BY <2>1, <2>2
  <1>8. \A k, l \in 1 .. n - 1 : old(k) = old(l) => k = l  BY <1>1
  <1> HIDE DEF old, n
  <1>9. IsInjective(less)
    <2> SUFFICES ASSUME NEW k \in 1 .. n - 1, NEW l \in 1 .. n - 1, less[k] = less[l] PROVE k = l
        BY <1>6 DEF IsInjective
    <2>1. old(k) = old(l)  BY <1>1, <1>7 DEF IsInjective
    <2> QED  BY <1>8, <2>1
  <1>10. Range(less) \subseteq Range(list) /\ list[i] \notin Range(less)
    <2> SUFFICES ASSUME NEW k \in 1 .. n - 1 PROVE less[k] \in Range(list) /\ less[k] # list[i]
        BY <1>6 DEF Range
    <2> QED  BY <1>1, <1>7 DEF Range, IsInjective
  <1>11. n = 1 => less = <<>>  BY <1>5, EmptySeq
  <1> QED  BY <1>5, <1>9, <1>10, <1>11 DEF less, n

\* A list with two neighbours exchanged.
LEMMA SwapRange ==
    ASSUME NEW S, NEW list \in Seq(S), IsInjective(list), NEW i \in 1 .. (Len(list) - 1), NEW swapped,
           swapped = [list EXCEPT ![i] = list[i + 1], ![i + 1] = list[i]]
    PROVE  swapped \in Seq(S) /\ IsInjective(swapped) /\ Range(swapped) = Range(list)
  <1> DEFINE n == Len(list)
             old(k) == IF k = i THEN i + 1 ELSE IF k = i + 1 THEN i ELSE k
  <1>1. n \in Nat /\ DOMAIN list = 1 .. n /\ i \in 1 .. n /\ i + 1 \in 1 .. n /\ \A j \in 1 .. n : list[j] \in S
      BY LenProperties, ElementOfSeq
  <1>2. DOMAIN swapped = 1 .. n /\ \A k \in 1 .. n : old(k) \in 1 .. n /\ swapped[k] = list[old(k)]  BY <1>1
  <1>3. \A k \in 1 .. n : old(old(k)) = k  BY <1>1
  <1>4. swapped \in Seq(S)
    <2>1. swapped = [k \in 1 .. n |-> swapped[k]] /\ \A k \in 1 .. n : swapped[k] \in S  BY <1>1, <1>2
    <2>2. swapped \in [1 .. n -> S]  BY <2>1
    <2> QED  BY <1>1, <2>2, SeqDef
  <1> HIDE DEF old, n
  <1>5. IsInjective(swapped)
    <2> SUFFICES ASSUME NEW k \in 1 .. n, NEW l \in 1 .. n, swapped[k] = swapped[l] PROVE k = l
        BY <1>2 DEF IsInjective
    <2>1. old(k) = old(l)  BY <1>1, <1>2 DEF IsInjective
    <2> QED  BY <1>3, <2>1
  <1>6. Range(swapped) = Range(list)
    <2>1. \A k \in 1 .. n : swapped[k] \in Range(list)  BY <1>1, <1>2 DEF Range
    <2>2. ASSUME NEW k \in 1 .. n PROVE list[k] \in Range(swapped)
      <3>1. old(k) \in 1 .. n /\ swapped[old(k)] = list[k]  BY <1>2, <1>3
      <3> QED  BY <1>2, <3>1 DEF Range
    <2>3. \A y \in Range(swapped) : y \in Range(list)  BY <1>2, <2>1 DEF Range
    <2>4. \A y \in Range(list) : y \in Range(swapped)  BY <1>1, <2>2 DEF Range
    <2> QED  BY <2>3, <2>4
  <1> QED  BY <1>4, <1>5, <1>6

-----------------------------------------------------------------------------
(* The inductive invariant.  d is what the renderer keeps, f whether the    *)
(* conversation is on screen, M and R what is on its way to the main        *)
(* process and to the renderer.                                             *)

Numbers == 0 .. MaxMessages
StreamStates == {"none", "running", "closing", "aborting", "over"}
Ends == {"done", "error", "aborted"}
Packets == {"event", "complete"} \cup Ends
Requests == [type : {"start", "cancel", "ask"}, id : Numbers, stream : Numbers]
Responses == [type : {"started", "refused", "canceled", "answered"} \cup Packets, id : Numbers, stream : Numbers]
Desks == [queue : Seq(Messages), active : [stream : Numbers, listener : Int], sending : BOOLEAN,
          listeners : SUBSET [id : Int, stream : Messages], taken : Seq(Messages), disposes : Int]

\* What may not be on its way together with, or later than, another message: there is one
\* start, one cancel and one question, from the request to the answer; the packets of a
\* stream come after the answer that names it, and its last one after any such answer.
Clash(x, y) ==
    \/ x.type \in {"start", "started", "refused"} /\ y.type \in {"start", "started", "refused"}
    \/ x.type \in {"cancel", "canceled"} /\ y.type \in {"cancel", "canceled"}
    \/ x.type \in {"ask", "answered"} /\ y.type \in {"ask", "answered"}
    \/ x.type \in Packets /\ y.type = "started" /\ x.stream = y.stream
    \/ x.type \in Ends /\ y.type = "answered" /\ x.stream = y.stream
Ordered(list) == \A i, j \in DOMAIN list : i < j => ~Clash(list[i], list[j])
NoneClash(M, R) == \A x \in M, y \in R : ~Clash(x, y)

Channels == /\ toMain \in Seq(Requests) /\ toRenderer \in Seq(Responses)
            /\ Ordered(toMain) /\ Ordered(toRenderer)

MainTyped == /\ streams \in [Messages -> StreamStates] /\ current \in Numbers
             /\ posted \in Seq(Messages) /\ refused \in SUBSET Messages /\ written \in Numbers

\* The controllers: none, or that of s alone.
Free == \A t \in Messages : ~HasController(t)
OnlyRuns(s) == \A t \in Messages : HasController(t) => t = s

\* A stream that runs, or whose last packet is still to be handled.
Announces(s, R) == \E x \in R : x.type \in Ends /\ x.stream = s
Lives(s, R) == s \in Messages /\ streams[s] # "none" /\ (streams[s] = "over" => Announces(s, R))

\* The active stream, the flag and the listener go together.
Idle(d) == d.active = NoStream
Shape(d) ==
    /\ d.active.stream = 0 => d.active = NoStream /\ ~d.sending /\ d.listeners = {}
    /\ d.active.stream # 0 =>
         /\ d.sending
         /\ d.listeners = {[id |-> IF d.active.listener = 0 THEN d.active.stream ELSE d.active.listener,
                            stream |-> d.active.stream]}

\* The message m was steered, and the stream it replaces is to be forgotten.
Steers(m, d, f, R, w) ==
    /\ f /\ d.queue = <<>> /\ m \in 1 .. w /\ m \notin Range(d.taken)
    /\ Idle(d) \/ (d.active.listener # 0 /\ d.active.listener = d.disposes)
    /\ Idle(d) => Free
    /\ \A x \in R : x.type = "answered" => x.stream = 0

RequestFine(x, d, f, R, w) ==
    \/ /\ x.type = "start" /\ x = StartRequest(x.stream) /\ x.stream # 0
       /\ d.active = Placeholder(x.stream) /\ streams[x.stream] = "none" /\ Free
    \/ x.type = "cancel" /\ x.stream # 0 /\ (x.id # 0 => Steers(x.id, d, f, R, w) /\ OnlyRuns(x.stream))
    \/ x = AskRequest /\ f /\ Idle(d)
ResponseFine(x, d, f, R, w) ==
    \/ x.type = "started" /\ x.id = x.stream /\ d.active = Placeholder(x.stream) /\ Lives(x.stream, R)
    \/ /\ x.type = "refused" /\ x.stream = 0 /\ x.id # 0
       /\ d.active = Placeholder(x.id) /\ streams[x.id] = "none" /\ Free
    \/ x.type = "canceled" /\ x.stream = 0 /\ (x.id # 0 => Steers(x.id, d, f, R, w) /\ Free)
    \/ /\ x.type = "answered" /\ x.id = 0 /\ f /\ Idle(d) /\ OnlyRuns(x.stream)
       /\ x.stream # 0 => Lives(x.stream, R)
    \/ /\ x.type \in Packets /\ x.id = 0 /\ x.stream # 0 /\ streams[x.stream] # "none"
       /\ x.type = "complete" => streams[x.stream] # "running"
       /\ x.type \in Ends => streams[x.stream] = "over"
AllFine(d, f, M, R, w) == /\ \A x \in M : RequestFine(x, d, f, R, w)
                          /\ \A x \in R : ResponseFine(x, d, f, R, w)

\* A stream that is opened was asked for by the last message taken, and one that is
\* followed is alive.
Opening(d) == d.active.stream # 0 /\ d.active.listener = 0
Opened(d, M, R) ==
    /\ Opening(d) => /\ \/ StartRequest(d.active.stream) \in M
                        \/ Answer("started", d.active.stream, d.active.stream) \in R
                        \/ Answer("refused", d.active.stream, 0) \in R
                     /\ d.taken # <<>> /\ Last(d.taken) = d.active.stream
    /\ d.active.listener # 0 => Lives(d.active.stream, R)

\* The main process has one controller, and what runs is the active stream.
Owned(d) ==
    \A t \in Messages : HasController(t) =>
        current = t /\ (streams[t] = "running" \/ ~Idle(d) => d.active.stream = t)

\* A message is queued, or taken, once.
Queued(d, w) ==
    /\ IsInjective(d.queue) /\ IsInjective(d.taken)
    /\ Range(d.queue) \subseteq 1 .. w /\ Range(d.taken) \subseteq 1 .. w
    /\ Range(d.queue) \cap Range(d.taken) = {}

Pending(m, M, R) == StartRequest(m) \in M \/ Answer("refused", m, 0) \in R
Accounted(d, M, R, ref) ==
    /\ Range(posted) = {m \in Messages : streams[m] # "none"}
    /\ posted = Only(d.taken, Range(posted))
    /\ \A m \in Range(d.taken) : m \in Range(posted) \cup ref \/ Pending(m, M, R)

Sound(d, f, M, R, ref, w) ==
    /\ d \in Desks /\ f \in BOOLEAN /\ Shape(d) /\ NoneClash(M, R) /\ AllFine(d, f, M, R, w)
    /\ Opened(d, M, R) /\ Owned(d) /\ Queued(d, w) /\ Accounted(d, M, R, ref)

\* On screen and without a stream, the queue has been sent, and the main process has been
\* asked for a stream if it has one.
Settled(d, f, M, R) ==
    f /\ Idle(d) => d.queue = <<>> /\ (Free \/ \E x \in M \cup R : ~NotAsked(x))

DeskInv ==
    /\ Channels /\ MainTyped
    /\ Sound(desk, front, Range(toMain), Range(toRenderer), refused, written)
    /\ Settled(desk, front, Range(toMain), Range(toRenderer))

-----------------------------------------------------------------------------
(* The channels. *)

\* A message sent.
LEMMA SendOrdered ==
    ASSUME NEW S, NEW list \in Seq(S), NEW x \in S, Ordered(list), \A y \in Range(list) : ~Clash(y, x)
    PROVE  Ordered(Append(list, x))
  <1> DEFINE n == Len(list)
             more == Append(list, x)
  <1>1. n \in Nat /\ DOMAIN list = 1 .. n /\ DOMAIN more = 1 .. n + 1 /\ more[n + 1] = x
        /\ \A i \in 1 .. n : more[i] = list[i]
      BY AppendProperties
  <1> SUFFICES ASSUME NEW i \in 1 .. n + 1, NEW j \in 1 .. n + 1, i < j PROVE ~Clash(more[i], more[j])
      BY <1>1 DEF Ordered
  <1>2. i \in 1 .. n /\ (j \in 1 .. n \/ j = n + 1)  BY <1>1
  <1> HIDE DEF more, n
  <1>3. CASE j \in 1 .. n
    <2>1. more[i] = list[i] /\ more[j] = list[j]  BY <1>1, <1>2, <1>3
    <2> QED  BY <1>1, <1>2, <1>3, <2>1 DEF Ordered
  <1>4. CASE j = n + 1
    <2>1. more[i] = list[i] /\ more[j] = x /\ list[i] \in Range(list)  BY <1>1, <1>2, <1>4 DEF Range
    <2> QED  BY <2>1
  <1> QED  BY <1>2, <1>3, <1>4

\* A message sent, and what it changes of the channel.
LEMMA SendEnds ==
    ASSUME NEW S, NEW list \in Seq(S), NEW x \in S, Ordered(list), \A y \in Range(list) : ~Clash(y, x)
    PROVE  /\ Append(list, x) \in Seq(S) /\ Range(Append(list, x)) = Range(list) \cup {x}
           /\ Ordered(Append(list, x)) /\ list \o <<x>> = Append(list, x)
  <1>1. Append(list, x) \in Seq(S) /\ Range(Append(list, x)) = Range(list) \cup {x}  BY AppendRange
  <1>2. Ordered(Append(list, x))  BY SendOrdered
  <1>3. list \o <<x>> = Append(list, x)  BY AppendIsConcat
  <1> QED  BY <1>1, <1>2, <1>3

\* A message received.
LEMMA ReceiveOrdered ==
    ASSUME NEW S, NEW list \in Seq(S), list # <<>>, Ordered(list)
    PROVE  Ordered(Tail(list)) /\ \A y \in Range(Tail(list)) : ~Clash(Head(list), y)
  <1> DEFINE n == Len(list)
             rest == Tail(list)
  <1>1. n \in Nat /\ n > 0 /\ DOMAIN list = 1 .. n  BY EmptySeq, LenProperties
  <1>2. rest \in Seq(S) /\ DOMAIN rest = 1 .. n - 1 /\ \A i \in 1 .. n - 1 : rest[i] = list[i + 1]
      BY HeadTailProperties, LenProperties
  <1>3. Head(list) = list[1]  BY <1>1
  <1>4. 1 \in 1 .. n /\ \A i \in 1 .. n - 1 : i + 1 \in 1 .. n /\ 1 < i + 1  BY <1>1
  <1>5. ASSUME NEW i \in 1 .. n - 1, NEW j \in 1 .. n - 1, i < j PROVE ~Clash(rest[i], rest[j])
    <2>1. i + 1 < j + 1  BY <1>5
    <2> HIDE DEF n, rest
    <2> QED  BY <1>1, <1>2, <1>4, <2>1 DEF Ordered
  <1> HIDE DEF n, rest
  <1>6. ASSUME NEW i \in 1 .. n - 1 PROVE ~Clash(Head(list), rest[i])
    BY <1>1, <1>2, <1>3, <1>4 DEF Ordered
  <1>7. Ordered(rest)  BY <1>2, <1>5 DEF Ordered
  <1>8. \A y \in Range(rest) : ~Clash(Head(list), y)  BY <1>2, <1>6 DEF Range
  <1> QED  BY <1>7, <1>8 DEF rest

\* The question and its answer are dropped.
LEMMA WantedKeeps ==
    ASSUME NEW S, NEW list \in Seq(S)
    PROVE  /\ Wanted(list) \in Seq(S)
           /\ Range(Wanted(list)) = {r \in Range(list) : NotAsked(r)}
           /\ Ordered(list) => Ordered(Wanted(list))
  <1>1. PICK set : set = {r \in Range(list) : NotAsked(r)}  OBVIOUS
  <1>2. Wanted(list) = Only(list, set)  BY <1>1 DEF Wanted
  <1>3. /\ Only(list, set) \in Seq(S)
        /\ Range(Only(list, set)) = Range(list) \cap set
        /\ \A k, l \in DOMAIN Only(list, set) : k < l =>
             \E i, j \in DOMAIN list : i < j /\ Only(list, set)[k] = list[i] /\ Only(list, set)[l] = list[j]
      BY OnlyOrder
  <1>4. Range(list) \cap set = set  BY <1>1
  <1>5. ASSUME Ordered(list) PROVE Ordered(Only(list, set))
    <2> SUFFICES ASSUME NEW k \in DOMAIN Only(list, set), NEW l \in DOMAIN Only(list, set), k < l
                 PROVE  ~Clash(Only(list, set)[k], Only(list, set)[l])
        BY DEF Ordered
    <2>1. PICK i \in DOMAIN list, j \in DOMAIN list :
            i < j /\ Only(list, set)[k] = list[i] /\ Only(list, set)[l] = list[j]
        BY <1>3
    <2> QED  BY <1>5, <2>1 DEF Ordered
  <1> QED  BY <1>1, <1>2, <1>3, <1>4, <1>5

-----------------------------------------------------------------------------
(* What the handlers of the renderer do to a sound state.                   *)

\* No steered message is on its way.
NoSteer(M, R) == /\ \A x \in M : x.type = "cancel" => x.id = 0
                 /\ \A x \in R : x.type = "canceled" => x.id = 0

\* Nothing is steered while a message is queued or a stream is being opened.
LEMMA SteerEmpties ==
    ASSUME NEW d, NEW f, NEW M, NEW R, NEW w, AllFine(d, f, M, R, w), d.queue # <<>> \/ Opening(d)
    PROVE  NoSteer(M, R)
  <1>1. ASSUME NEW x \in M, x.type = "cancel" PROVE x.id = 0
    <2>1. RequestFine(x, d, f, R, w)  BY DEF AllFine
    <2> QED  BY <1>1, <2>1 DEF RequestFine, Steers, Opening, Idle, NoStream, StartRequest, AskRequest
  <1>2. ASSUME NEW x \in R, x.type = "canceled" PROVE x.id = 0
    <2>1. ResponseFine(x, d, f, R, w)  BY DEF AllFine
    <2> QED  BY <1>2, <2>1 DEF ResponseFine, Steers, Opening, Idle, NoStream, Packets, Ends
  <1> QED  BY <1>1, <1>2 DEF NoSteer

\* Without a stream no start is on its way.
LEMMA IdleStarts ==
    ASSUME NEW d, NEW f, NEW M \in SUBSET Requests, NEW R \in SUBSET Responses, NEW w,
           AllFine(d, f, M, R, w), d.active.listener # 0 \/ Idle(d)
    PROVE  /\ \A x \in M : x.type # "start"
           /\ \A x \in R : x.type \notin {"started", "refused"}
  <1>1. ASSUME NEW x \in M, x.type = "start" PROVE FALSE
    <2>1. RequestFine(x, d, f, R, w)  BY DEF AllFine
    <2> QED  BY <1>1, <2>1 DEF RequestFine, Idle, NoStream, Placeholder, AskRequest
  <1>2. ASSUME NEW x \in R, x.type \in {"started", "refused"} PROVE FALSE
    <2>1. ResponseFine(x, d, f, R, w)  BY DEF AllFine
    <2>2. x.stream \in Numbers /\ x.id \in Numbers  BY DEF Responses
    <2>3. d.active \in {Placeholder(x.stream), Placeholder(x.id)} /\ (x.type = "started" => x.stream # 0)
        BY <1>2, <2>1, <2>2 DEF ResponseFine, Lives, Messages, Numbers, Packets, Ends
    <2>4. d.active = NoStream  BY <1>2, <2>3 DEF Placeholder, Idle
    <2> QED  BY <1>2, <2>1, <2>3, <2>4 DEF ResponseFine, Placeholder, NoStream, Packets, Ends
  <1> QED  BY <1>1, <1>2

\* Posted messages have been taken.
LEMMA PostedTaken ==
    ASSUME NEW d \in Desks, NEW M, NEW R, NEW ref, Accounted(d, M, R, ref)
    PROVE  \A m \in Messages : streams[m] # "none" <=> m \in Range(posted) /\ m \in Range(d.taken)
  <1>1. d.taken \in Seq(Messages)  BY DEF Desks
  <1>2. Range(Only(d.taken, Range(posted))) = Range(d.taken) \cap Range(posted)  BY <1>1, OnlyOrder
  <1>3. Range(posted) = Range(d.taken) \cap Range(posted)  BY <1>2 DEF Accounted
  <1>4. Range(posted) = {m \in Messages : streams[m] # "none"}  BY DEF Accounted
  <1> QED  BY <1>3, <1>4

\* A message is taken to be sent when no stream is active and none runs.
LEMMA SendKeepsSound ==
    ASSUME NEW d, NEW f, NEW M \in SUBSET Requests, NEW R \in SUBSET Responses, NEW ref, NEW w \in Numbers,
           Sound(d, f, M, R, ref, w), Idle(d), Free, NoSteer(M, R), \A x \in M \cup R : NotAsked(x),
           NEW m \in 1 .. w, m \notin Range(d.queue), m \notin Range(d.taken), MaxMessages \in Nat
    PROVE  /\ Sound(SendMessageText(d, m), f, M \cup {StartRequest(m)}, R, ref, w)
           /\ StartRequest(m) \in Requests
           /\ \A y \in M : ~Clash(y, StartRequest(m))
  <1> DEFINE N == M \cup {StartRequest(m)}
  <1>1. PICK e : e = SendMessageText(d, m)  OBVIOUS
  <1>2. m \in Messages /\ m \in Numbers /\ m # 0 /\ m \in Int  BY DEF Messages, Numbers
  <1>3. d \in Desks /\ f \in BOOLEAN /\ Shape(d) /\ NoneClash(M, R) /\ AllFine(d, f, M, R, w)
        /\ Opened(d, M, R) /\ Owned(d) /\ Queued(d, w) /\ Accounted(d, M, R, ref)
      BY DEF Sound
  <1>4. d.listeners = {} /\ d.active = NoStream  BY <1>3 DEF Shape, Idle, NoStream
  <1>5. /\ e.active = Placeholder(m) /\ e.sending = TRUE /\ e.taken = Append(d.taken, m)
        /\ e.listeners = {[id |-> m, stream |-> m]} /\ e.queue = d.queue /\ e.disposes = d.disposes
      BY <1>1, <1>3, <1>4 DEF SendMessageText, Desks
  <1>6. d.taken \in Seq(Messages)  BY <1>3 DEF Desks
  <1>7. /\ Append(d.taken, m) \in Seq(Messages) /\ Range(Append(d.taken, m)) = Range(d.taken) \cup {m}
        /\ IsInjective(d.taken) => IsInjective(Append(d.taken, m))
        /\ Last(Append(d.taken, m)) = m /\ Append(d.taken, m) # <<>>
      BY <1>2, <1>6, AppendRange
  <1>8. e \in Desks
    <2>1. Placeholder(m) \in [stream : Numbers, listener : Int]  BY <1>2 DEF Placeholder
    <2>2. {[id |-> m, stream |-> m]} \in SUBSET [id : Int, stream : Messages]  BY <1>2
    <2> QED  BY <1>1, <1>3, <1>4, <1>7, <2>1, <2>2 DEF SendMessageText, Desks
  <1>9. streams[m] = "none"  BY <1>2, <1>3, PostedTaken
  <1>10. StartRequest(m) \in Requests  BY <1>2 DEF StartRequest, Requests
  <1>11. /\ \A x \in M : x.type # "start"
         /\ \A x \in R : x.type \notin {"started", "refused"}
      BY <1>3, IdleStarts
  <1>12. \A y \in M : ~Clash(y, StartRequest(m))
    <2>1. \A y \in M : y.type \in {"start", "cancel", "ask"}  BY DEF Requests
    <2> QED  BY <1>11, <2>1 DEF Clash, StartRequest, Packets, Ends
  <1>13. NoneClash(N, R)
    <2>1. \A y \in R : ~Clash(StartRequest(m), y)
      <3>1. \A y \in R : y.type # "start"  BY DEF Responses, Packets, Ends
      <3> QED  BY <1>11, <3>1 DEF Clash, StartRequest, Packets, Ends
    <2> QED  BY <1>3, <2>1 DEF NoneClash
  <1>14. AllFine(e, f, N, R, w)
    <2>1. ASSUME NEW x \in M PROVE RequestFine(x, e, f, R, w)
      <3>1. RequestFine(x, d, f, R, w) /\ x.type # "start" /\ NotAsked(x)  BY <1>3, <1>11 DEF AllFine
      <3>2. x.type = "cancel" /\ x.stream # 0  BY <3>1 DEF RequestFine, NotAsked, AskRequest
      <3>3. x.id = 0  BY <3>2 DEF NoSteer
      <3> QED  BY <3>2, <3>3 DEF RequestFine
    <2>2. RequestFine(StartRequest(m), e, f, R, w)
      BY <1>2, <1>5, <1>9 DEF RequestFine, StartRequest
    <2>3. ASSUME NEW x \in R PROVE ResponseFine(x, e, f, R, w)
      <3>1. ResponseFine(x, d, f, R, w) /\ x.type \notin {"started", "refused"} /\ NotAsked(x)  BY <1>3, <1>11 DEF AllFine
      <3>2. x.type = "canceled" => x.id = 0  BY DEF NoSteer
      <3> QED  BY <3>1, <3>2 DEF ResponseFine, NotAsked
    <2> QED  BY <2>1, <2>2, <2>3 DEF AllFine
  <1>15. Opened(e, N, R)  BY <1>2, <1>5, <1>7 DEF Opened, Opening, Placeholder
  <1>16. Owned(e)  BY DEF Owned, Free
  <1>17. Queued(e, w)  BY <1>3, <1>5, <1>7 DEF Queued
  <1>18. Accounted(e, N, R, ref)
    <2>1. m \notin Range(posted) /\ Range(posted) = {k \in Messages : streams[k] # "none"}
        BY <1>9, <1>3 DEF Accounted
    <2>2. Only(Append(d.taken, m), Range(posted)) = Only(d.taken, Range(posted))  BY <1>2, <1>6, <2>1, OnlyAppend
    <2>3. posted = Only(e.taken, Range(posted))  BY <1>3, <1>5, <2>2 DEF Accounted
    <2>4. ASSUME NEW k \in Range(e.taken) PROVE k \in Range(posted) \cup ref \/ Pending(k, N, R)
      <3>1. CASE k = m  BY <3>1 DEF Pending
      <3>2. CASE k # m
        <4>1. k \in Range(d.taken)  BY <1>5, <1>7, <3>2
        <4> QED  BY <1>3, <4>1 DEF Accounted, Pending
      <3> QED  BY <3>1, <3>2
    <2> QED  BY <2>1, <2>3, <2>4 DEF Accounted
  <1>19. Shape(e)  BY <1>2, <1>5 DEF Shape, Placeholder
  <1>20. Sound(e, f, N, R, ref, w)
    BY <1>3, <1>8, <1>13, <1>14, <1>15, <1>16, <1>17, <1>18, <1>19 DEF Sound
  <1> QED  BY <1>1, <1>10, <1>12, <1>20

\* The user changes the queue, or a message is taken from it.
LEMMA QueueKeepsSound ==
    ASSUME NEW d, NEW f, NEW M, NEW R, NEW ref, NEW w \in Numbers, Sound(d, f, M, R, ref, w),
           NEW q \in Seq(Messages), IsInjective(q), Range(q) \subseteq 1 .. w, Range(q) \cap Range(d.taken) = {},
           NoSteer(M, R)
    PROVE  Sound([d EXCEPT !.queue = q], f, M, R, ref, w)
  <1>1. PICK e : e = [d EXCEPT !.queue = q]  OBVIOUS
  <1>2. d \in Desks /\ f \in BOOLEAN /\ Shape(d) /\ NoneClash(M, R) /\ AllFine(d, f, M, R, w)
        /\ Opened(d, M, R) /\ Owned(d) /\ Queued(d, w) /\ Accounted(d, M, R, ref)
      BY DEF Sound
  <1>3. /\ e \in Desks /\ e.queue = q /\ e.active = d.active /\ e.sending = d.sending
        /\ e.listeners = d.listeners /\ e.taken = d.taken /\ e.disposes = d.disposes
      BY <1>1, <1>2 DEF Desks
  <1>4. AllFine(e, f, M, R, w)
    <2>1. ASSUME NEW x \in M PROVE RequestFine(x, e, f, R, w)
      <3>1. RequestFine(x, d, f, R, w) /\ (x.type = "cancel" => x.id = 0)  BY <1>2 DEF AllFine, NoSteer
      <3> QED  BY <1>3, <3>1 DEF RequestFine, Idle
    <2>2. ASSUME NEW x \in R PROVE ResponseFine(x, e, f, R, w)
      <3>1. ResponseFine(x, d, f, R, w) /\ (x.type = "canceled" => x.id = 0)  BY <1>2 DEF AllFine, NoSteer
      <3> QED  BY <1>3, <3>1 DEF ResponseFine, Idle
    <2> QED  BY <2>1, <2>2 DEF AllFine
  <1>5. Shape(e) /\ Opened(e, M, R) /\ Owned(e)  BY <1>2, <1>3 DEF Shape, Opened, Opening, Owned, Idle
  <1>6. Queued(e, w)  BY <1>2, <1>3 DEF Queued
  <1>7. Accounted(e, M, R, ref)  BY <1>2, <1>3 DEF Accounted
  <1> QED  BY <1>1, <1>2, <1>3, <1>4, <1>5, <1>6, <1>7 DEF Sound

\* Messages on their way that are received, or dropped.
LEMMA LessFine ==
    ASSUME NEW d, NEW f, NEW M, NEW R, NEW w, AllFine(d, f, M, R, w),
           NEW N \in SUBSET M, NEW Q \in SUBSET R,
           \A x \in R \ Q : x.type \in Ends => \A y \in Q : ~Clash(x, y)
    PROVE  AllFine(d, f, N, Q, w)
  <1>1. ASSUME NEW x \in N PROVE RequestFine(x, d, f, Q, w)
    <2>1. RequestFine(x, d, f, R, w)  BY DEF AllFine
    <2> QED  BY <2>1 DEF RequestFine, Steers
  <1>2. ASSUME NEW x \in Q PROVE ResponseFine(x, d, f, Q, w)
    <2>1. ResponseFine(x, d, f, R, w)  BY DEF AllFine
    <2>2. CASE x.type = "started"
      <3>1. x.id = x.stream /\ d.active = Placeholder(x.stream) /\ Lives(x.stream, R)
          BY <2>1, <2>2 DEF ResponseFine, Packets, Ends
      <3>2. \A y \in R \ Q : y.type \in Ends => y.stream # x.stream  BY <2>2 DEF Clash, Packets
      <3>3. Lives(x.stream, Q)  BY <3>1, <3>2 DEF Lives, Announces
      <3> QED  BY <2>2, <3>1, <3>3 DEF ResponseFine
    <2>3. CASE x.type = "answered"
      <3>1. x.id = 0 /\ f /\ Idle(d) /\ OnlyRuns(x.stream) /\ (x.stream # 0 => Lives(x.stream, R))
          BY <2>1, <2>3 DEF ResponseFine, Packets, Ends
      <3>2. \A y \in R \ Q : y.type \in Ends => y.stream # x.stream  BY <2>3 DEF Clash
      <3>3. Lives(x.stream, R) => Lives(x.stream, Q)  BY <3>2 DEF Lives, Announces
      <3> QED  BY <2>3, <3>1, <3>3 DEF ResponseFine
    <2>4. CASE x.type \notin {"started", "answered"}  BY <2>1, <2>4 DEF ResponseFine, Steers
    <2> QED  BY <2>2, <2>3, <2>4
  <1> QED  BY <1>1, <1>2 DEF AllFine

\* Messages of the channels that are no start and no refusal do not account for one that was taken.
LEMMA LessAccounted ==
    ASSUME NEW d, NEW M, NEW R, NEW ref, Accounted(d, M, R, ref), NEW N \in SUBSET M, NEW Q \in SUBSET R,
           \A x \in M \ N : x.type # "start", \A x \in R \ Q : x.type # "refused"
    PROVE  Accounted(d, N, Q, ref)
  <1>1. \A m : StartRequest(m) \in M => StartRequest(m) \in N  BY DEF StartRequest
  <1>2. \A m : Answer("refused", m, 0) \in R => Answer("refused", m, 0) \in Q  BY DEF Answer
  <1> QED  BY <1>1, <1>2 DEF Accounted, Pending

\* Nor do they matter to the rest, the last packet of the active stream apart.
LEMMA LessKeepsSound ==
    ASSUME NEW d, NEW f, NEW M, NEW R, NEW ref, NEW w, Sound(d, f, M, R, ref, w),
           NEW N \in SUBSET M, NEW Q \in SUBSET R,
           \A x \in M \ N : x.type # "start",
           \A x \in R \ Q : x.type \notin {"started", "refused"},
           \A x \in R \ Q : x.type \in Ends => x.stream # d.active.stream /\ \A y \in Q : ~Clash(x, y)
    PROVE  Sound(d, f, N, Q, ref, w)
  <1>1. d \in Desks /\ f \in BOOLEAN /\ Shape(d) /\ NoneClash(M, R) /\ AllFine(d, f, M, R, w)
        /\ Opened(d, M, R) /\ Owned(d) /\ Queued(d, w) /\ Accounted(d, M, R, ref)
      BY DEF Sound
  <1>2. AllFine(d, f, N, Q, w)  BY <1>1, LessFine
  <1>3. NoneClash(N, Q)  BY <1>1 DEF NoneClash
  <1>4. \A m : StartRequest(m) \in M => StartRequest(m) \in N  BY DEF StartRequest
  <1>5. \A m, n : /\ Answer("started", m, n) \in R => Answer("started", m, n) \in Q
                  /\ Answer("refused", m, n) \in R => Answer("refused", m, n) \in Q
      BY DEF Answer
  <1>6. Lives(d.active.stream, R) => Lives(d.active.stream, Q)  BY DEF Lives, Announces
  <1>7. Opened(d, N, Q)  BY <1>1, <1>4, <1>5, <1>6 DEF Opened
  <1>8. Accounted(d, N, Q, ref)  BY <1>1, LessAccounted
  <1> QED  BY <1>1, <1>2, <1>3, <1>7, <1>8 DEF Sound

\* The active stream is forgotten when none runs.
Forgotten(d, e) == /\ e.active = NoStream /\ e.sending = FALSE /\ e.listeners = {}
                /\ e.queue = d.queue /\ e.taken = d.taken
\* A state whose stream is forgotten is sound.
LEMMA CloseKeepsSound ==
    ASSUME NEW d, NEW f \in BOOLEAN, NEW M, NEW R, NEW ref, NEW w,
           NoneClash(M, R), AllFine(d, f, M, R, w), Owned(d), Queued(d, w), Accounted(d, M, R, ref),
           \A x \in M : x.type # "start", \A x \in R : x.type \notin {"started", "refused"},
           \A t \in Messages : streams[t] # "running", ~NoSteer(M, R) => Free,
           NEW e \in Desks, Forgotten(d, e)
    PROVE  Sound(e, f, M, R, ref, w)
  <1>1. \A m, x : x \in M \cup R /\ x.id = m /\ x.id # 0 /\ x.type \in {"cancel", "canceled"} /\ Steers(m, d, f, R, w)
                    => Steers(m, e, f, R, w)
    <2> SUFFICES ASSUME NEW m, NEW x \in M \cup R, x.id = m, x.id # 0, x.type \in {"cancel", "canceled"},
                        Steers(m, d, f, R, w)
                 PROVE  Steers(m, e, f, R, w)
        OBVIOUS
    <2>1. CASE Free  BY <2>1 DEF Steers, Forgotten, Idle
    <2>2. CASE ~Free
      <3>1. NoSteer(M, R)  BY <2>2
      <3>2. x \in M => x.type = "canceled"  BY <3>1 DEF NoSteer
      <3>3. x \in R => x.type = "cancel"  BY <3>1 DEF NoSteer
      <3>4. x \in M => RequestFine(x, d, f, R, w)  BY DEF AllFine
      <3>5. x \in R => ResponseFine(x, d, f, R, w)  BY DEF AllFine
      <3> QED  BY <3>2, <3>3, <3>4, <3>5 DEF RequestFine, ResponseFine, StartRequest, AskRequest, Packets, Ends
    <2> QED  BY <2>1, <2>2
  <1>2. AllFine(e, f, M, R, w)
    <2>1. ASSUME NEW x \in M PROVE RequestFine(x, e, f, R, w)
      <3>1. RequestFine(x, d, f, R, w) /\ x.type # "start"  BY DEF AllFine
      <3> QED  BY <1>1, <3>1 DEF RequestFine, Forgotten, Idle
    <2>2. ASSUME NEW x \in R PROVE ResponseFine(x, e, f, R, w)
      <3>1. ResponseFine(x, d, f, R, w) /\ x.type \notin {"started", "refused"}  BY DEF AllFine
      <3> QED  BY <1>1, <3>1 DEF ResponseFine, Forgotten, Idle
    <2> QED  BY <2>1, <2>2 DEF AllFine
  <1>3. Shape(e) /\ Opened(e, M, R)  BY DEF Shape, Opened, Opening, Forgotten, NoStream
  <1>4. Owned(e)  BY DEF Owned, Forgotten, Idle
  <1>5. Queued(e, w) /\ Accounted(e, M, R, ref)  BY DEF Queued, Accounted, Forgotten
  <1> QED  BY <1>2, <1>3, <1>4, <1>5 DEF Sound

\* A sound state of the renderer stays so while the main process does nothing.
LEMMA StaysSound ==
    ASSUME UNCHANGED <<streams, current, posted>>, NEW M, NEW R, M = Range(toMain'), R = Range(toRenderer'),
           Sound(desk', front', M, R, refused', written')
    PROVE  Sound(desk, front, Range(toMain), Range(toRenderer), refused, written)'
  <1>1. desk' \in Desks /\ front' \in BOOLEAN /\ Shape(desk') /\ NoneClash(M, R) /\ AllFine(desk', front', M, R, written')
        /\ Opened(desk', M, R) /\ Owned(desk') /\ Queued(desk', written') /\ Accounted(desk', M, R, refused')
      BY DEF Sound
  <1>2. UNCHANGED streams /\ UNCHANGED current /\ UNCHANGED posted  OBVIOUS
  <1>3. Free => Free'  BY <1>2 DEF Free, HasController
  <1>4. \A s : OnlyRuns(s) => OnlyRuns(s)'  BY <1>2 DEF OnlyRuns, HasController
  <1>5. \A s : Lives(s, R) => Lives(s, Range(toRenderer))'  BY <1>2 DEF Lives, Announces
  <1>6. \A m : Steers(m, desk', front', R, written') => Steers(m, desk, front, Range(toRenderer), written)'
    BY <1>3 DEF Steers, Idle
  <1>7. ASSUME NEW x \in M PROVE RequestFine(x, desk, front, Range(toRenderer), written)'
    <2>1. RequestFine(x, desk', front', R, written')  BY <1>1 DEF AllFine
    <2> QED  BY <1>2, <1>3, <1>4, <1>6, <2>1 DEF RequestFine, Idle
  <1>8. ASSUME NEW x \in R PROVE ResponseFine(x, desk, front, Range(toRenderer), written)'
    <2>1. ResponseFine(x, desk', front', R, written')  BY <1>1 DEF AllFine
    <2> QED  BY <1>2, <1>3, <1>4, <1>5, <1>6, <2>1 DEF ResponseFine, Idle
  <1>9. AllFine(desk, front, Range(toMain), Range(toRenderer), written)'  BY <1>7, <1>8 DEF AllFine
  <1>10. Shape(desk)' /\ NoneClash(Range(toMain), Range(toRenderer))'  BY <1>1 DEF Shape, NoneClash
  <1>11. Opened(desk, Range(toMain), Range(toRenderer))'  BY <1>1, <1>5 DEF Opened, Opening
  <1>12. Owned(desk)'  BY <1>1, <1>2 DEF Owned, HasController, Idle
  <1>13. Queued(desk, written)'  BY <1>1 DEF Queued
  <1>14. Accounted(desk, Range(toMain), Range(toRenderer), refused)'  BY <1>1, <1>2 DEF Accounted, Pending
  <1> QED  BY <1>1, <1>9, <1>10, <1>11, <1>12, <1>13, <1>14 DEF Sound

\* The renderer changes nothing of the main process.
LEMMA StaysTyped ==
    ASSUME MainTyped, UNCHANGED <<streams, current, posted>>, refused' \in SUBSET Messages, written' \in Numbers
    PROVE  MainTyped'
  BY DEF MainTyped

\* The effects of a render, from a sound state that is not settled yet.
RenderEffects(d, tm, tr) ==
    /\ toRenderer' = tr
    /\ desk' = IF AutoProcesses(d) THEN SendMessageText([d EXCEPT !.queue = Tail(@)], Head(d.queue)) ELSE d
    /\ toMain' = tm \o (IF AutoProcesses(d) THEN <<StartRequest(Head(d.queue))>>
                        ELSE IF front' /\ d.active = NoStream THEN <<AskRequest>> ELSE <<>>)
\* They settle the state: a queued message is sent, or the main process is asked for a stream.
LEMMA EffectsKeep ==
    ASSUME MaxMessages \in Nat, MainTyped', UNCHANGED <<streams, current, posted>>,
           NEW d, NEW tm \in Seq(Requests), NEW tr \in Seq(Responses), Ordered(tm), Ordered(tr),
           RenderEffects(d, tm, tr),
           \A x \in Range(tm) \cup Range(tr) : NotAsked(x),
           Sound(d, front', Range(tm), Range(tr), refused', written'),
           front' /\ Idle(d) /\ d.queue # <<>> => Free
    PROVE  DeskInv'
  <1> DEFINE M == Range(tm)
             R == Range(tr)
  <1>1. /\ toRenderer' = tr
        /\ desk' = IF AutoProcesses(d) THEN SendMessageText([d EXCEPT !.queue = Tail(@)], Head(d.queue)) ELSE d
        /\ toMain' = tm \o (IF AutoProcesses(d) THEN <<StartRequest(Head(d.queue))>>
                            ELSE IF front' /\ d.active = NoStream THEN <<AskRequest>> ELSE <<>>)
      BY DEF RenderEffects
  <1>2. M \in SUBSET Requests /\ R \in SUBSET Responses  BY RangeOfSeq
  <1>3. d \in Desks /\ front' \in BOOLEAN /\ Shape(d) /\ NoneClash(M, R) /\ AllFine(d, front', M, R, written')
        /\ Opened(d, M, R) /\ Owned(d) /\ Queued(d, written') /\ Accounted(d, M, R, refused')
      BY DEF Sound
  <1>4. written' \in Numbers  BY DEF MainTyped
  <1>5. SUFFICES /\ toMain' \in Seq(Requests) /\ Ordered(toMain')
                 /\ Sound(desk', front', Range(toMain'), R, refused', written')
                 /\ front' /\ Idle(desk') => desk'.queue = <<>> /\ \E x \in Range(toMain') : ~NotAsked(x)
    <2>1. Channels'  BY <1>1, <1>5 DEF Channels
    <2>2. Sound(desk, front, Range(toMain), Range(toRenderer), refused, written)'  BY <1>1, <1>5, StaysSound
    <2>3. Settled(desk, front, Range(toMain), Range(toRenderer))'  BY <1>5 DEF Settled, Idle
    <2> QED  BY <2>1, <2>2, <2>3 DEF DeskInv
  <1>6. CASE AutoProcesses(d)
    <2>1. front' /\ Idle(d) /\ d.queue # <<>>  BY <1>6 DEF AutoProcesses, Idle
    <2> DEFINE m == Head(d.queue)
               e == [d EXCEPT !.queue = Tail(d.queue)]
    <2>2. d.queue \in Seq(Messages) /\ IsInjective(d.queue)  BY <1>3 DEF Desks, Queued
    <2>3. /\ Head(d.queue) \in Messages /\ Tail(d.queue) \in Seq(Messages)
          /\ Range(d.queue) = Range(Tail(d.queue)) \cup {Head(d.queue)}
          /\ IsInjective(Tail(d.queue)) /\ Head(d.queue) \notin Range(Tail(d.queue))
        BY <2>1, <2>2, TailRange
    <2>4. Range(d.queue) \subseteq 1 .. written' /\ Range(d.queue) \cap Range(d.taken) = {}  BY <1>3 DEF Queued
    <2>5. NoSteer(M, R)  BY <1>3, <2>1, SteerEmpties
    <2>6. Sound(e, front', M, R, refused', written')  BY <1>4, <2>3, <2>4, <2>5, QueueKeepsSound
    <2>7. Idle(e) /\ e.queue = Tail(d.queue) /\ e.taken = d.taken  BY <1>3, <2>1 DEF Idle, Desks
    <2>8. m \in 1 .. written' /\ m \notin Range(e.queue) /\ m \notin Range(e.taken)  BY <2>3, <2>4, <2>7
    <2> HIDE DEF e
    <2>9. /\ Sound(SendMessageText(e, m), front', M \cup {StartRequest(m)}, R, refused', written')
          /\ StartRequest(m) \in Requests
          /\ \A y \in M : ~Clash(y, StartRequest(m))
        BY <1>2, <1>4, <2>1, <2>5, <2>6, <2>7, <2>8, SendKeepsSound
    <2>10. desk' = SendMessageText(e, m) /\ toMain' = tm \o <<StartRequest(m)>>  BY <1>1, <1>6 DEF e
    <2> HIDE DEF m
    <2>11. \A y \in Range(tm) : ~Clash(y, StartRequest(m))  BY <2>9
    <2>12. /\ Append(tm, StartRequest(m)) \in Seq(Requests)
           /\ Range(Append(tm, StartRequest(m))) = Range(tm) \cup {StartRequest(m)}
           /\ Ordered(Append(tm, StartRequest(m))) /\ tm \o <<StartRequest(m)>> = Append(tm, StartRequest(m))
        BY <2>9, <2>11, SendEnds
    <2>13. toMain' \in Seq(Requests) /\ Range(toMain') = M \cup {StartRequest(m)} /\ Ordered(toMain')
        BY <2>10, <2>12
    <2>14. ~Idle(desk')
      <3>1. m # 0 /\ e \in Desks  BY <2>6, <2>8 DEF Sound
      <3> QED  BY <2>10, <3>1 DEF SendMessageText, Placeholder, Idle, NoStream, Desks
    <2> QED  BY <2>9, <2>10, <2>13, <2>14
  <1>7. CASE ~AutoProcesses(d) /\ front' /\ Idle(d)
    <2>1. d.queue = <<>>  BY <1>3, <1>7 DEF AutoProcesses, Shape, Idle, NoStream
    <2>2. desk' = d /\ toMain' = tm \o <<AskRequest>>  BY <1>1, <1>7 DEF Idle
    <2>3. AskRequest \in Requests  BY DEF AskRequest, Requests, Numbers
    <2>4. \A y \in M : ~Clash(y, AskRequest)
      <3>1. \A y \in M : NotAsked(y)  OBVIOUS
      <3> QED  BY <3>1 DEF Clash, AskRequest, NotAsked, Packets, Ends
    <2>5. \A y \in R : ~Clash(AskRequest, y)
      <3>1. \A y \in R : NotAsked(y)  OBVIOUS
      <3> QED  BY <3>1 DEF Clash, AskRequest, NotAsked, Packets, Ends
    <2>6. \A y \in Range(tm) : ~Clash(y, AskRequest)  BY <2>4
    <2>7. /\ Append(tm, AskRequest) \in Seq(Requests)
          /\ Range(Append(tm, AskRequest)) = Range(tm) \cup {AskRequest}
          /\ Ordered(Append(tm, AskRequest)) /\ tm \o <<AskRequest>> = Append(tm, AskRequest)
        BY <2>3, <2>6, SendEnds
    <2>8. toMain' \in Seq(Requests) /\ Range(toMain') = M \cup {AskRequest} /\ Ordered(toMain')
        BY <2>2, <2>7
    <2>9. Sound(d, front', M \cup {AskRequest}, R, refused', written')
      <3>1. RequestFine(AskRequest, d, front', R, written')  BY <1>7 DEF RequestFine
      <3>2. AllFine(d, front', M \cup {AskRequest}, R, written')  BY <1>3, <3>1 DEF AllFine
      <3>3. NoneClash(M \cup {AskRequest}, R)  BY <1>3, <2>5 DEF NoneClash
      <3>4. Opened(d, M \cup {AskRequest}, R)  BY <1>3 DEF Opened
      <3>5. Accounted(d, M \cup {AskRequest}, R, refused')  BY <1>3 DEF Accounted, Pending
      <3> QED  BY <1>3, <3>2, <3>3, <3>4, <3>5 DEF Sound
    <2>10. ~NotAsked(AskRequest)  BY DEF NotAsked, AskRequest
    <2> QED  BY <2>1, <2>2, <2>8, <2>9, <2>10
  <1>8. CASE ~AutoProcesses(d) /\ ~(front' /\ Idle(d))
    <2>1. desk' = d /\ toMain' = tm \o <<>>  BY <1>1, <1>8 DEF Idle
    <2>2. toMain' = tm  BY <2>1, ConcatEmptySeq
    <2> QED  BY <1>8, <2>1, <2>2
  <1> QED  BY <1>6, <1>7, <1>8

\* A render that sends nothing itself, and one that sends a start.
LEMMA RenderKeeps ==
    ASSUME MaxMessages \in Nat, MainTyped', UNCHANGED <<streams, current, posted>>,
           toMain \in Seq(Requests), Ordered(toMain),
           NEW d, NEW rest \in Seq(Responses), Ordered(rest), RunEffects(d, <<>>, rest),
           Sound(d, front', {x \in Range(toMain) : NotAsked(x)}, {x \in Range(rest) : NotAsked(x)}, refused', written'),
           front' /\ Idle(d) /\ d.queue # <<>> => Free
    PROVE  DeskInv'
  <1>1. /\ Wanted(toMain) \in Seq(Requests) /\ Range(Wanted(toMain)) = {x \in Range(toMain) : NotAsked(x)}
        /\ Ordered(Wanted(toMain))
      BY WantedKeeps
  <1>2. /\ Wanted(rest) \in Seq(Responses) /\ Range(Wanted(rest)) = {x \in Range(rest) : NotAsked(x)}
        /\ Ordered(Wanted(rest))
      BY WantedKeeps
  <1>3. Wanted(toMain) \o <<>> = Wanted(toMain)  BY <1>1, ConcatEmptySeq
  <1>4. RenderEffects(d, Wanted(toMain), Wanted(rest))  BY <1>3 DEF RunEffects, RenderEffects
  <1>5. \A x \in Range(Wanted(toMain)) \cup Range(Wanted(rest)) : NotAsked(x)  BY <1>1, <1>2
  <1> QED  BY <1>1, <1>2, <1>4, <1>5, EffectsKeep

\* A render after a message was sent.
LEMMA RenderSends ==
    ASSUME MaxMessages \in Nat, MainTyped', UNCHANGED <<streams, current, posted>>,
           toMain \in Seq(Requests), Ordered(toMain), NEW m, StartRequest(m) \in Requests,
           NEW d, NEW rest \in Seq(Responses), Ordered(rest), RunEffects(d, <<StartRequest(m)>>, rest),
           \A y \in {x \in Range(toMain) : NotAsked(x)} : ~Clash(y, StartRequest(m)),
           Sound(d, front', {x \in Range(toMain) : NotAsked(x)} \cup {StartRequest(m)},
                 {x \in Range(rest) : NotAsked(x)}, refused', written'),
           ~Idle(d)
    PROVE  DeskInv'
  <1>1. /\ Wanted(toMain) \in Seq(Requests) /\ Range(Wanted(toMain)) = {x \in Range(toMain) : NotAsked(x)}
        /\ Ordered(Wanted(toMain))
      BY WantedKeeps
  <1>2. /\ Wanted(rest) \in Seq(Responses) /\ Range(Wanted(rest)) = {x \in Range(rest) : NotAsked(x)}
        /\ Ordered(Wanted(rest))
      BY WantedKeeps
  <1>3. \A y \in Range(Wanted(toMain)) : ~Clash(y, StartRequest(m))  BY <1>1
  <1>4. PICK tm : tm = Append(Wanted(toMain), StartRequest(m))  OBVIOUS
  <1>5. /\ Append(Wanted(toMain), StartRequest(m)) \in Seq(Requests)
        /\ Range(Append(Wanted(toMain), StartRequest(m))) = Range(Wanted(toMain)) \cup {StartRequest(m)}
        /\ Ordered(Append(Wanted(toMain), StartRequest(m)))
        /\ Wanted(toMain) \o <<StartRequest(m)>> = Append(Wanted(toMain), StartRequest(m))
      BY <1>1, <1>3, SendEnds
  <1>6. RenderEffects(d, tm, Wanted(rest))  BY <1>4, <1>5 DEF RunEffects, RenderEffects
  <1>7. NotAsked(StartRequest(m))  BY DEF NotAsked, StartRequest
  <1>8. \A x \in Range(tm) \cup Range(Wanted(rest)) : NotAsked(x)  BY <1>1, <1>2, <1>4, <1>5, <1>7
  <1>9. tm \in Seq(Requests) /\ Ordered(tm) /\ Range(tm) = {x \in Range(toMain) : NotAsked(x)} \cup {StartRequest(m)}
      BY <1>1, <1>4, <1>5
  <1> QED  BY <1>2, <1>6, <1>8, <1>9, EffectsKeep

\* A step that sends and receives without a render.
LEMMA PlainKeeps ==
    ASSUME MainTyped', Channels', UNCHANGED <<streams, current, posted>>,
           Sound(desk', front', Range(toMain'), Range(toRenderer'), refused', written'),
           front' /\ Idle(desk') => /\ desk'.queue = <<>>
                                    /\ Free \/ \E x \in Range(toMain') \cup Range(toRenderer') : ~NotAsked(x)
    PROVE  DeskInv'
  <1>1. Sound(desk, front, Range(toMain), Range(toRenderer), refused, written)'  BY StaysSound
  <1>2. Free => Free'  BY DEF Free, HasController
  <1>3. Settled(desk, front, Range(toMain), Range(toRenderer))'  BY <1>2 DEF Settled, Idle
  <1> QED  BY <1>1, <1>3 DEF DeskInv

\* The number of messages grows, and the conversation is shown or hidden.
LEMMA WrittenKeepsSound ==
    ASSUME NEW d, NEW f, NEW M, NEW R, NEW ref, NEW w \in Nat, NEW v \in Nat, w <= v, Sound(d, f, M, R, ref, w)
    PROVE  Sound(d, f, M, R, ref, v)
  <1>1. 1 .. w \subseteq 1 .. v  OBVIOUS
  <1>2. \A m : Steers(m, d, f, R, w) => Steers(m, d, f, R, v)  BY <1>1 DEF Steers
  <1>3. AllFine(d, f, M, R, w) => AllFine(d, f, M, R, v)  BY <1>2 DEF AllFine, RequestFine, ResponseFine
  <1>4. Queued(d, w) => Queued(d, v)  BY <1>1 DEF Queued
  <1> QED  BY <1>3, <1>4 DEF Sound

\* With no question and no steered message on its way, soundness does not depend on the screen.
LEMMA FrontKeepsSound ==
    ASSUME NEW d, NEW f, NEW M, NEW R, NEW ref, NEW w, Sound(d, f, M, R, ref, w), NEW g \in BOOLEAN,
           NoSteer(M, R), \A x \in M \cup R : NotAsked(x)
    PROVE  Sound(d, g, M, R, ref, w)
  <1>1. ASSUME NEW x \in M PROVE RequestFine(x, d, g, R, w)
    <2>1. RequestFine(x, d, f, R, w) /\ NotAsked(x) /\ (x.type = "cancel" => x.id = 0)  BY DEF Sound, AllFine, NoSteer
    <2> QED  BY <2>1 DEF RequestFine, NotAsked, AskRequest
  <1>2. ASSUME NEW x \in R PROVE ResponseFine(x, d, g, R, w)
    <2>1. ResponseFine(x, d, f, R, w) /\ NotAsked(x) /\ (x.type = "canceled" => x.id = 0)  BY DEF Sound, AllFine, NoSteer
    <2> QED  BY <2>1 DEF ResponseFine, NotAsked
  <1>3. AllFine(d, g, M, R, w)  BY <1>1, <1>2 DEF AllFine
  <1> QED  BY <1>3 DEF Sound

-----------------------------------------------------------------------------
(* One lemma per action of the user. *)

\* What is on its way while the user may act.
LEMMA QuietFacts ==
    ASSUME DeskInv, Quiet
    PROVE  /\ Range(toMain) = {} /\ \A x \in Range(toRenderer) : x.type \in Packets /\ NotAsked(x)
           /\ {x \in Range(toMain) : NotAsked(x)} = {} /\ {x \in Range(toRenderer) : NotAsked(x)} = Range(toRenderer)
           /\ NoSteer(Range(toMain), Range(toRenderer))
           /\ front /\ Idle(desk) => Free /\ desk.queue = <<>>
  <1>1. Range(toMain) = {}  BY DEF Quiet, Range
  <1>2. \A x \in Range(toRenderer) : x.type \in Packets /\ NotAsked(x)
    BY DEF Quiet, Range, Packets, Ends, NotAsked
  <1>3. NoSteer(Range(toMain), Range(toRenderer))  BY <1>1, <1>2 DEF NoSteer, Packets, Ends
  <1>4. front /\ Idle(desk) => Free /\ desk.queue = <<>>  BY <1>1, <1>2 DEF DeskInv, Settled
  <1> QED  BY <1>1, <1>2, <1>3, <1>4

\* A message the user writes is a new one.
LEMMA WrittenMore ==
    ASSUME MaxMessages \in Nat, DeskInv, written < MaxMessages, written' = written + 1
    PROVE  /\ written \in Nat /\ written' \in Nat /\ written <= written' /\ written' \in Numbers
           /\ written' \in Messages /\ written' \in 1 .. written'
           /\ written' \notin Range(desk.queue) /\ written' \notin Range(desk.taken)
           /\ desk \in Desks
  <1>1. written \in Numbers /\ Queued(desk, written) /\ desk \in Desks  BY DEF DeskInv, MainTyped, Sound
  <1>2. written' \notin 1 .. written  BY <1>1 DEF Numbers
  <1> QED  BY <1>1, <1>2 DEF Numbers, Messages, Queued

\* The user sends a message.
LEMMA SubmitMessageKeeps == ASSUME MaxMessages \in Nat, DeskInv, SubmitMessage PROVE DeskInv'
  <1>1. /\ Quiet /\ front /\ ~desk.sending /\ written < MaxMessages /\ written' = written + 1 /\ UNCHANGED front
        /\ RunEffects(SendMessageText(desk, written'), <<StartRequest(written')>>, toRenderer)
        /\ UNCHANGED <<streams, current, posted, refused>>
      BY DEF SubmitMessage
  <1> DEFINE m == written'
             R == Range(toRenderer)
  <1>2. /\ Channels /\ MainTyped /\ Sound(desk, front, Range(toMain), R, refused, written)  BY DEF DeskInv
  <1>3. /\ written \in Nat /\ written' \in Nat /\ written <= written' /\ written' \in Numbers
        /\ written' \in Messages /\ written' \in 1 .. written'
        /\ written' \notin Range(desk.queue) /\ written' \notin Range(desk.taken)
        /\ desk \in Desks
      BY <1>1, WrittenMore
  <1>4. /\ Range(toMain) = {} /\ \A x \in Range(toRenderer) : x.type \in Packets /\ NotAsked(x)
        /\ {x \in Range(toMain) : NotAsked(x)} = {} /\ {x \in Range(toRenderer) : NotAsked(x)} = Range(toRenderer)
        /\ NoSteer(Range(toMain), Range(toRenderer))
        /\ front /\ Idle(desk) => Free /\ desk.queue = <<>>
      BY <1>1, QuietFacts
  <1>5. Idle(desk) /\ Free  BY <1>1, <1>2, <1>4 DEF Sound, Shape, Idle
  <1>6. Sound(desk, front', {}, R, refused', written')  BY <1>1, <1>2, <1>3, <1>4, WrittenKeepsSound
  <1>7. /\ Sound(SendMessageText(desk, m), front', {} \cup {StartRequest(m)}, R, refused', written')
        /\ StartRequest(m) \in Requests
        /\ \A y \in {} : ~Clash(y, StartRequest(m))
    <2>1. {} \in SUBSET Requests /\ R \in SUBSET Responses  BY <1>2, RangeOfSeq DEF Channels
    <2>2. \A x \in {} \cup R : NotAsked(x)  BY <1>4
    <2>3. NoSteer({}, R)  BY <1>4
    <2> QED  BY <1>3, <1>5, <1>6, <2>1, <2>2, <2>3, SendKeepsSound
  <1>8. MainTyped'  BY <1>1, <1>2, <1>3 DEF MainTyped
  <1>9. ~Idle(SendMessageText(desk, m))  BY <1>3 DEF Idle, SendMessageText, Placeholder, NoStream, Desks, Messages
  <1>10. toMain \in Seq(Requests) /\ Ordered(toMain) /\ toRenderer \in Seq(Responses) /\ Ordered(toRenderer)
    BY <1>2 DEF Channels
  <1>11. RunEffects(SendMessageText(desk, m), <<StartRequest(m)>>, toRenderer)  BY <1>1
  <1> HIDE DEF m
  <1> QED  BY <1>1, <1>4, <1>7, <1>8, <1>9, <1>10, <1>11, RenderSends

\* The user queues a message.
LEMMA EnqueueKeeps == ASSUME MaxMessages \in Nat, DeskInv, EnqueueConversationMessage PROVE DeskInv'
  <1>1. /\ Quiet /\ front /\ desk.sending /\ written < MaxMessages /\ written' = written + 1
        /\ desk' = [desk EXCEPT !.queue = Append(@, written')]
        /\ UNCHANGED <<front, toMain, toRenderer, streams, current, posted, refused>>
      BY DEF EnqueueConversationMessage
  <1>2. /\ Channels /\ MainTyped /\ Sound(desk, front, Range(toMain), Range(toRenderer), refused, written)  BY DEF DeskInv
  <1>3. /\ written \in Nat /\ written' \in Nat /\ written <= written' /\ written' \in Numbers
        /\ written' \in Messages /\ written' \in 1 .. written'
        /\ written' \notin Range(desk.queue) /\ written' \notin Range(desk.taken)
        /\ desk \in Desks
      BY <1>1, WrittenMore
  <1>4. NoSteer(Range(toMain), Range(toRenderer))  BY <1>1, QuietFacts
  <1>5. Sound(desk, front, Range(toMain), Range(toRenderer), refused, written')  BY <1>2, <1>3, WrittenKeepsSound
  <1>6. PICK q : q = Append(desk.queue, written')  OBVIOUS
  <1>7. q \in Seq(Messages) /\ IsInjective(q) /\ Range(q) = Range(desk.queue) \cup {written'}
    <2>1. desk.queue \in Seq(Messages) /\ IsInjective(desk.queue)  BY <1>2, <1>3 DEF Desks, Sound, Queued
    <2>2. /\ Append(desk.queue, written') \in Seq(Messages)
          /\ Range(Append(desk.queue, written')) = Range(desk.queue) \cup {written'}
          /\ IsInjective(desk.queue) /\ written' \notin Range(desk.queue) => IsInjective(Append(desk.queue, written'))
        BY <1>3, <2>1, AppendRange
    <2> QED  BY <1>3, <1>6, <2>1, <2>2
  <1>8. Range(q) \subseteq 1 .. written' /\ Range(q) \cap Range(desk.taken) = {}
    BY <1>3, <1>5, <1>7 DEF Sound, Queued
  <1>9. Sound([desk EXCEPT !.queue = q], front, Range(toMain), Range(toRenderer), refused, written')
    BY <1>3, <1>4, <1>5, <1>7, <1>8, QueueKeepsSound
  <1>10. desk' = [desk EXCEPT !.queue = q]  BY <1>1, <1>6
  <1>11. ~Idle(desk')
    <2>1. desk.active # NoStream  BY <1>1, <1>2 DEF Sound, Shape, NoStream
    <2> QED  BY <1>3, <1>10, <2>1 DEF Idle, Desks
  <1>12. MainTyped' /\ Channels'  BY <1>1, <1>2, <1>3 DEF MainTyped, Channels
  <1> QED  BY <1>1, <1>9, <1>10, <1>11, <1>12, PlainKeeps

\* The two changes of the queue by the user.
LEMMA QueueChanges ==
    ASSUME DeskInv, Quiet, NEW q \in Seq(Messages), desk' = [desk EXCEPT !.queue = q], IsInjective(q),
           Range(q) \subseteq Range(desk.queue), desk.queue = <<>> => q = <<>>,
           UNCHANGED <<front, toMain, toRenderer, streams, current, posted, refused, written>>
    PROVE  DeskInv'
  <1>1. /\ Channels /\ MainTyped /\ Sound(desk, front, Range(toMain), Range(toRenderer), refused, written)  BY DEF DeskInv
  <1>2. /\ NoSteer(Range(toMain), Range(toRenderer))
        /\ front /\ Idle(desk) => Free /\ desk.queue = <<>>
      BY QuietFacts
  <1>3. written \in Numbers /\ Range(q) \subseteq 1 .. written /\ Range(q) \cap Range(desk.taken) = {}
    BY <1>1 DEF Sound, Queued, MainTyped
  <1>4. Sound(desk', front', Range(toMain'), Range(toRenderer'), refused', written')
    BY <1>1, <1>2, <1>3, QueueKeepsSound
  <1>5. desk'.active = desk.active /\ desk'.queue = q  BY <1>1 DEF Sound, Desks
  <1>6. MainTyped' /\ Channels'  BY <1>1 DEF MainTyped, Channels
  <1>7. front' /\ Idle(desk') => desk'.queue = <<>> /\ Free  BY <1>2, <1>5 DEF Idle
  <1> QED  BY <1>4, <1>6, <1>7, PlainKeeps

\* The user removes a queued message.
LEMMA RemoveKeeps == ASSUME DeskInv, RemoveQueuedMessage PROVE DeskInv'
  <1>1. PICK i \in DOMAIN desk.queue : desk' = [desk EXCEPT !.queue = RemoveAt(@, i)]  BY DEF RemoveQueuedMessage
  <1>2. Quiet /\ UNCHANGED <<front, toMain, toRenderer, streams, current, posted, refused, written>>
    BY DEF RemoveQueuedMessage
  <1>3. desk.queue \in Seq(Messages) /\ IsInjective(desk.queue)  BY DEF DeskInv, Sound, Desks, Queued
  <1>4. PICK q : q = RemoveAt(desk.queue, i)  OBVIOUS
  <1>5. q \in Seq(Messages) /\ IsInjective(q) /\ Range(q) \subseteq Range(desk.queue)
    BY <1>3, <1>4, RemoveRange
  <1>6. desk.queue # <<>>  OBVIOUS
  <1> QED  BY <1>1, <1>2, <1>4, <1>5, <1>6, QueueChanges

\* The user moves a queued message.
LEMMA ReorderKeeps == ASSUME DeskInv, ReorderQueuedMessage PROVE DeskInv'
  <1>1. PICK i \in 1 .. (Len(desk.queue) - 1) :
          desk' = [desk EXCEPT !.queue = [@ EXCEPT ![i] = desk.queue[i + 1], ![i + 1] = desk.queue[i]]]
      BY DEF ReorderQueuedMessage
  <1>2. Quiet /\ UNCHANGED <<front, toMain, toRenderer, streams, current, posted, refused, written>>
    BY DEF ReorderQueuedMessage
  <1>3. desk.queue \in Seq(Messages) /\ IsInjective(desk.queue)  BY DEF DeskInv, Sound, Desks, Queued
  <1>4. PICK q : q = [desk.queue EXCEPT ![i] = desk.queue[i + 1], ![i + 1] = desk.queue[i]]  OBVIOUS
  <1>5. q \in Seq(Messages) /\ IsInjective(q) /\ Range(q) = Range(desk.queue)  BY <1>3, <1>4, SwapRange
  <1>6. desk.queue # <<>>
    <2>1. Len(desk.queue) \in Nat /\ Len(desk.queue) # 0  BY <1>3
    <2> QED  BY <2>1, EmptySeq
  <1> QED  BY <1>1, <1>2, <1>4, <1>5, <1>6, QueueChanges

\* A request to cancel the active stream, from a state where nothing is on its way.
LEMMA CancelSends ==
    ASSUME DeskInv, toMain = <<>>, \A y \in Range(toRenderer) : y.type \in Packets,
           NEW r \in Requests, r.type = "cancel", toMain' = Append(toMain, r),
           RequestFine(r, desk', front, Range(toRenderer), written), ~Idle(desk'),
           Sound(desk', front, {}, Range(toRenderer), refused, written),
           UNCHANGED <<front, toRenderer, streams, current, posted, refused, written>>
    PROVE  DeskInv'
  <1>1. /\ Channels /\ MainTyped  BY DEF DeskInv
  <1>2. toMain' = <<r>>  OBVIOUS
  <1>3. toMain' \in Seq(Requests) /\ DOMAIN toMain' = {1} /\ toMain'[1] = r  BY <1>2
  <1>4. toMain' \in Seq(Requests) /\ Range(toMain') = {r} /\ Ordered(toMain')  BY <1>3 DEF Range, Ordered
  <1>5. MainTyped' /\ Channels'  BY <1>1, <1>4 DEF MainTyped, Channels
  <1>6. AllFine(desk', front, {r}, Range(toRenderer), written)
      BY DEF Sound, AllFine
  <1>7. NoneClash({r}, Range(toRenderer))
    <2>1. \A y \in Range(toRenderer) : ~Clash(r, y)  BY DEF Clash, Packets, Ends
    <2> QED  BY <2>1 DEF NoneClash
  <1>8. Opened(desk', {r}, Range(toRenderer))  BY DEF Sound, Opened
  <1>9. Accounted(desk', {r}, Range(toRenderer), refused)  BY DEF Sound, Accounted, Pending
  <1>10. Sound(desk', front, {r}, Range(toRenderer), refused, written)  BY <1>6, <1>7, <1>8, <1>9 DEF Sound
  <1> QED  BY <1>4, <1>5, <1>10, PlainKeeps

\* The user cancels the reply.
LEMMA CancelActiveKeeps == ASSUME MaxMessages \in Nat, DeskInv, CancelActive PROVE DeskInv'
  <1>1. /\ Quiet /\ front /\ desk.active.listener # 0
        /\ toMain' = Append(toMain, [type |-> "cancel", id |-> 0, stream |-> desk.active.stream])
        /\ UNCHANGED <<desk, front, toRenderer, streams, current, posted, refused, written>>
      BY DEF CancelActive
  <1>2. PICK r : r = [type |-> "cancel", id |-> 0, stream |-> desk.active.stream]  OBVIOUS
  <1>3. Sound(desk, front, Range(toMain), Range(toRenderer), refused, written)  BY DEF DeskInv
  <1>4. desk.active.stream \in Numbers /\ desk.active.stream # 0  BY <1>1, <1>3 DEF Sound, Shape, Desks, NoStream
  <1>5. r \in Requests /\ r.type = "cancel"  BY <1>2, <1>4 DEF Requests, Numbers
  <1>6. ~Idle(desk')  BY <1>1 DEF Idle, NoStream
  <1>7. Range(toMain) = {} /\ toMain = <<>> /\ \A y \in Range(toRenderer) : y.type \in Packets
    BY <1>1, QuietFacts DEF Quiet
  <1>8. RequestFine(r, desk', front, Range(toRenderer), written)  BY <1>2, <1>4 DEF RequestFine
  <1>9. Sound(desk', front, {}, Range(toRenderer), refused, written)  BY <1>1, <1>3, <1>7
  <1>10. toMain' = Append(toMain, r)  BY <1>1, <1>2
  <1>11. UNCHANGED <<front, toRenderer, streams, current, posted, refused, written>>  BY <1>1
  <1> QED  BY <1>5, <1>6, <1>7, <1>8, <1>9, <1>10, <1>11, CancelSends

\* A message is steered when it is the only one of the queue.
LEMMA SteerKeeps == ASSUME MaxMessages \in Nat, Risky = {}, DeskInv, SteerQueuedMessage PROVE DeskInv'
  <1>1. Quiet /\ front /\ desk.active.listener # 0
        /\ UNCHANGED <<front, toRenderer, streams, current, posted, refused, written>>
      BY DEF SteerQueuedMessage
  <1>2. PICK i \in DOMAIN desk.queue :
          /\ Len(desk.queue) = 1
          /\ desk' = [desk EXCEPT !.queue = RemoveAt(@, i), !.disposes = desk.active.listener]
          /\ toMain' = Append(toMain, [type |-> "cancel", id |-> desk.queue[i], stream |-> desk.active.stream])
      BY DEF SteerQueuedMessage
  <1>3. Sound(desk, front, Range(toMain), Range(toRenderer), refused, written)  BY DEF DeskInv
  <1>4. desk \in Desks /\ desk.queue \in Seq(Messages) /\ IsInjective(desk.queue)
    BY <1>3 DEF Sound, Desks, Queued
  <1>5. RemoveAt(desk.queue, i) = <<>>  BY <1>2, <1>4, RemoveRange
  <1>6. PICK m : m = desk.queue[i]  OBVIOUS
  <1>7. m \in Range(desk.queue) /\ m \in Messages
    <2>1. m \in Range(desk.queue)  BY <1>6 DEF Range
    <2> QED  BY <1>4, <2>1, RangeOfSeq
  <1>8. PICK r : r = [type |-> "cancel", id |-> m, stream |-> desk.active.stream]  OBVIOUS
  <1>9. desk.active.stream \in Numbers /\ desk.active.stream # 0 /\ desk.active.listener \in Int
    BY <1>1, <1>3 DEF Sound, Shape, Desks, NoStream
  <1>10. r \in Requests /\ r.type = "cancel" /\ r.id = m /\ r.stream = desk.active.stream
    BY <1>7, <1>8, <1>9 DEF Requests, Numbers, Messages
  <1>11. /\ Range(toMain) = {} /\ toMain = <<>> /\ \A y \in Range(toRenderer) : y.type \in Packets
         /\ NoSteer(Range(toMain), Range(toRenderer))
    BY <1>1, QuietFacts DEF Quiet
  <1>12. PICK e : e = [desk EXCEPT !.queue = <<>>]  OBVIOUS
  <1>13. Sound(e, front, {}, Range(toRenderer), refused, written)
    <2>1. <<>> \in Seq(Messages) /\ IsInjective(<<>>) /\ Range(<<>>) = {}  BY DEF IsInjective, Range
    <2>2. written \in Numbers  BY DEF DeskInv, MainTyped
    <2> QED  BY <1>3, <1>11, <1>12, <2>1, <2>2, QueueKeepsSound
  <1>14. /\ desk' \in Desks /\ desk'.active = e.active /\ desk'.queue = e.queue /\ desk'.taken = e.taken
         /\ desk'.sending = e.sending /\ desk'.listeners = e.listeners /\ desk'.disposes = desk.active.listener
         /\ e.active = desk.active /\ e.queue = <<>> /\ e.taken = desk.taken
    <2>1. e \in Desks /\ e.active = desk.active /\ e.queue = <<>> /\ e.taken = desk.taken
          /\ e.sending = desk.sending /\ e.listeners = desk.listeners
        BY <1>4, <1>12, <1>13 DEF Desks, Sound
    <2>2. desk' = [desk EXCEPT !.queue = <<>>, !.disposes = desk.active.listener]  BY <1>2, <1>5
    <2>3. desk' = [e EXCEPT !.disposes = desk.active.listener]  BY <1>4, <1>12, <2>2 DEF Desks
    <2>4. PICK l \in Int : l = desk.active.listener  BY <1>9
    <2>5. desk' = [e EXCEPT !.disposes = l]  BY <2>3, <2>4
    <2>6. desk' \in Desks /\ desk'.active = e.active /\ desk'.queue = e.queue /\ desk'.taken = e.taken
          /\ desk'.sending = e.sending /\ desk'.listeners = e.listeners /\ desk'.disposes = l
        BY <2>1, <2>5 DEF Desks
    <2> QED  BY <2>1, <2>4, <2>6
  <1>15. Sound(desk', front, {}, Range(toRenderer), refused, written)
    <2>1. AllFine(desk', front, {}, Range(toRenderer), written)
      <3>1. ASSUME NEW x \in Range(toRenderer) PROVE ResponseFine(x, desk', front, Range(toRenderer), written)
        <4>1. ResponseFine(x, e, front, Range(toRenderer), written) /\ x.type \in Packets
            BY <1>11, <1>13 DEF Sound, AllFine
        <4> QED  BY <4>1 DEF ResponseFine, Packets, Ends
      <3> QED  BY <3>1 DEF AllFine
    <2>2. Shape(desk') /\ Opened(desk', {}, Range(toRenderer)) /\ Owned(desk')
      BY <1>13, <1>14 DEF Sound, Shape, Opened, Opening, Owned, Idle
    <2>3. Queued(desk', written) /\ Accounted(desk', {}, Range(toRenderer), refused)
      BY <1>13, <1>14 DEF Sound, Queued, Accounted
    <2> QED  BY <1>13, <1>14, <2>1, <2>2, <2>3 DEF Sound
  <1>16. ~Idle(desk') /\ ~Idle(desk)  BY <1>9, <1>14 DEF Idle, NoStream
  <1>17. OnlyRuns(desk.active.stream)  BY <1>3, <1>16 DEF Sound, Owned, OnlyRuns
  <1>18. m \in 1 .. written /\ m \notin Range(desk.taken)  BY <1>3, <1>7 DEF Sound, Queued
  <1>19. Steers(m, desk', front, Range(toRenderer), written)
    BY <1>1, <1>11, <1>14, <1>16, <1>18 DEF Steers, Packets, Ends
  <1>20. RequestFine(r, desk', front, Range(toRenderer), written)
    BY <1>9, <1>10, <1>17, <1>19 DEF RequestFine
  <1>21. toMain' = Append(toMain, r)  BY <1>2, <1>6, <1>8
  <1> QED  BY <1>1, <1>10, <1>11, <1>15, <1>16, <1>20, <1>21, CancelSends

\* The conversation is shown, hidden or rendered again.
LEMMA ShowKeeps == ASSUME MaxMessages \in Nat, Risky = {}, DeskInv, ShowConversation PROVE DeskInv'
  <1>1. /\ Quiet /\ ~front /\ (~Unfollowed \/ desk.queue = <<>>) /\ front' = TRUE
        /\ RunEffects(desk, <<>>, toRenderer)
        /\ UNCHANGED <<streams, current, posted, refused, written>>
      BY DEF ShowConversation
  <1>2. /\ Channels /\ MainTyped /\ Sound(desk, front, Range(toMain), Range(toRenderer), refused, written)  BY DEF DeskInv
  <1>3. /\ Range(toMain) = {} /\ \A x \in Range(toRenderer) : x.type \in Packets /\ NotAsked(x)
        /\ {x \in Range(toMain) : NotAsked(x)} = {} /\ {x \in Range(toRenderer) : NotAsked(x)} = Range(toRenderer)
        /\ NoSteer(Range(toMain), Range(toRenderer))
      BY <1>1, QuietFacts
  <1>4. Sound(desk, front', {}, Range(toRenderer), refused', written')
    BY <1>1, <1>2, <1>3, FrontKeepsSound
  <1>5. Idle(desk) /\ desk.queue # <<>> => Free
    <2> SUFFICES ASSUME Idle(desk), desk.queue # <<>>, NEW t \in Messages, HasController(t) PROVE FALSE  BY DEF Free
    <2>1. current = 0  BY <1>1 DEF Unfollowed, Idle
    <2>2. current = t  BY <1>2 DEF Sound, Owned
    <2> QED  BY <2>1, <2>2 DEF HasController
  <1>6. MainTyped'  BY <1>1, <1>2 DEF MainTyped
  <1>7. toMain \in Seq(Requests) /\ Ordered(toMain) /\ toRenderer \in Seq(Responses) /\ Ordered(toRenderer)
    BY <1>2 DEF Channels
  <1> QED  BY <1>1, <1>3, <1>4, <1>5, <1>6, <1>7, RenderKeeps

\* The user selects another conversation.
LEMMA HideKeeps == ASSUME MaxMessages \in Nat, DeskInv, HideConversation PROVE DeskInv'
  <1>1. /\ Quiet /\ front' = FALSE /\ RunEffects(desk, <<>>, toRenderer)
        /\ UNCHANGED <<streams, current, posted, refused, written>>
      BY DEF HideConversation
  <1>2. /\ Channels /\ MainTyped /\ Sound(desk, front, Range(toMain), Range(toRenderer), refused, written)  BY DEF DeskInv
  <1>3. /\ Range(toMain) = {} /\ \A x \in Range(toRenderer) : x.type \in Packets /\ NotAsked(x)
        /\ {x \in Range(toMain) : NotAsked(x)} = {} /\ {x \in Range(toRenderer) : NotAsked(x)} = Range(toRenderer)
        /\ NoSteer(Range(toMain), Range(toRenderer))
      BY <1>1, QuietFacts
  <1>4. Sound(desk, front', {}, Range(toRenderer), refused', written')
    BY <1>1, <1>2, <1>3, FrontKeepsSound
  <1>5. MainTyped'  BY <1>1, <1>2 DEF MainTyped
  <1>6. toMain \in Seq(Requests) /\ Ordered(toMain) /\ toRenderer \in Seq(Responses) /\ Ordered(toRenderer)
    BY <1>2 DEF Channels
  <1> QED  BY <1>1, <1>3, <1>4, <1>5, <1>6, RenderKeeps

\* A render after which the renderer keeps what it kept, and may have received a message.
LEMMA RenderAgain ==
    ASSUME MaxMessages \in Nat, DeskInv, NEW rest \in Seq(Responses), Ordered(rest), RunEffects(desk, <<>>, rest),
           UNCHANGED <<front, streams, current, posted, refused, written>>,
           Range(rest) \subseteq Range(toRenderer),
           \A x \in Range(toRenderer) \ Range(rest) :
             /\ x.type \notin {"started", "refused"}
             /\ x.type \in Ends => x.stream # desk.active.stream /\ \A y \in Range(rest) : ~Clash(x, y)
    PROVE  DeskInv'
  <1> DEFINE N == {x \in Range(toMain) : NotAsked(x)}
             Q == {x \in Range(rest) : NotAsked(x)}
  <1>1. /\ Channels /\ MainTyped /\ Sound(desk, front, Range(toMain), Range(toRenderer), refused, written)
        /\ Settled(desk, front, Range(toMain), Range(toRenderer))
      BY DEF DeskInv
  <1>2. toMain \in Seq(Requests) /\ Ordered(toMain)  BY <1>1 DEF Channels
  <1>3. N \in SUBSET Range(toMain) /\ Q \in SUBSET Range(toRenderer)  OBVIOUS
  <1>4. \A x \in Range(toMain) \ N : x.type # "start"  BY DEF NotAsked
  <1>5. \A x \in Range(toRenderer) \ Q : x \in Range(rest) => x.type = "answered" \/ x.type = "ask"  BY DEF NotAsked
  <1>6. \A x \in Range(toRenderer) \ Q : x.type \notin {"started", "refused"}  BY <1>5
  <1>7. \A x \in Range(toRenderer) \ Q : x.type \in Ends => x.stream # desk.active.stream /\ \A y \in Q : ~Clash(x, y)
    BY <1>5 DEF Ends
  <1>8. Sound(desk, front, N, Q, refused, written)
    <2> HIDE DEF N, Q
    <2> QED  BY <1>1, <1>3, <1>4, <1>6, <1>7, LessKeepsSound
  <1>9. MainTyped'  BY <1>1 DEF MainTyped
  <1>10. front' /\ Idle(desk) /\ desk.queue # <<>> => Free  BY <1>1 DEF Settled
  <1>11. Sound(desk, front', N, Q, refused', written')  BY <1>8
  <1> QED  BY <1>2, <1>9, <1>10, <1>11, RenderKeeps

\* The renderer renders again.
LEMMA RerenderKeeps == ASSUME MaxMessages \in Nat, DeskInv, Rerender PROVE DeskInv'
  <1>1. RunEffects(desk, <<>>, toRenderer) /\ UNCHANGED <<front, streams, current, posted, refused, written>>
    BY DEF Rerender
  <1>2. toRenderer \in Seq(Responses) /\ Ordered(toRenderer)  BY DEF DeskInv, Channels
  <1> QED  BY <1>1, <1>2, RenderAgain

-----------------------------------------------------------------------------
(* One lemma per message the renderer receives.                             *)

Received == Range(Tail(toRenderer))

\* What the invariant says of the message received and of those after it.
LEMMA HeadFacts ==
    ASSUME DeskInv, toRenderer # <<>>, NEW a, a = Head(toRenderer)
    PROVE  /\ a \in Responses /\ a \in Range(toRenderer)
           /\ Tail(toRenderer) \in Seq(Responses) /\ Ordered(Tail(toRenderer))
           /\ Range(toRenderer) = Received \cup {a}
           /\ \A y \in Received : ~Clash(a, y)
           /\ ResponseFine(a, desk, front, Range(toRenderer), written)
           /\ Received \in SUBSET Responses
           /\ Channels /\ MainTyped /\ desk \in Desks /\ Shape(desk)
           /\ NoneClash(Range(toMain), Range(toRenderer))
           /\ AllFine(desk, front, Range(toMain), Range(toRenderer), written)
           /\ Owned(desk) /\ Queued(desk, written)
           /\ Accounted(desk, Range(toMain), Range(toRenderer), refused)
           /\ Range(toMain) \in SUBSET Requests /\ Range(toRenderer) \in SUBSET Responses
           /\ toMain \in Seq(Requests) /\ Ordered(toMain)
           /\ Opened(desk, Range(toMain), Range(toRenderer))
  <1>1. /\ Channels /\ MainTyped /\ Sound(desk, front, Range(toMain), Range(toRenderer), refused, written)
      BY DEF DeskInv
  <1>2. toRenderer \in Seq(Responses) /\ Ordered(toRenderer) /\ toMain \in Seq(Requests) /\ Ordered(toMain)
    BY <1>1 DEF Channels
  <1>3. /\ Head(toRenderer) \in Responses /\ Tail(toRenderer) \in Seq(Responses)
        /\ Range(toRenderer) = Range(Tail(toRenderer)) \cup {Head(toRenderer)}
      BY <1>2, TailRange
  <1>4. Ordered(Tail(toRenderer)) /\ \A y \in Range(Tail(toRenderer)) : ~Clash(Head(toRenderer), y)
    BY <1>2, ReceiveOrdered
  <1>5. Received \in SUBSET Responses /\ Range(toMain) \in SUBSET Requests /\ Range(toRenderer) \in SUBSET Responses
    BY <1>2, <1>3, RangeOfSeq DEF Received
  <1>6. a \in Range(toRenderer)  BY <1>3
  <1>7. ResponseFine(a, desk, front, Range(toRenderer), written)  BY <1>1, <1>6 DEF Sound, AllFine
  <1> QED  BY <1>1, <1>2, <1>3, <1>4, <1>5, <1>6, <1>7 DEF Received, Sound

\* Messages of which none waits for the renderer are received without a render.
LEMMA DropKeeps ==
    ASSUME DeskInv, toRenderer # <<>>, NEW a, a = Head(toRenderer), toRenderer' = Tail(toRenderer),
           UNCHANGED <<desk, front, toMain, streams, current, posted, refused, written>>,
           a.type \notin {"started", "refused"}, a.type \in Ends => a.stream # desk.active.stream,
           a.type = "answered" /\ front /\ Idle(desk) => Free
    PROVE  DeskInv'
  <1>1. /\ a \in Responses /\ a \in Range(toRenderer)
        /\ Tail(toRenderer) \in Seq(Responses) /\ Ordered(Tail(toRenderer))
        /\ Range(toRenderer) = Received \cup {a}
        /\ \A y \in Received : ~Clash(a, y)
        /\ Channels /\ MainTyped
        /\ Sound(desk, front, Range(toMain), Range(toRenderer), refused, written)
        /\ Settled(desk, front, Range(toMain), Range(toRenderer))
      BY HeadFacts DEF DeskInv
  <1>2. Range(toMain) \in SUBSET Range(toMain) /\ Received \in SUBSET Range(toRenderer)  BY <1>1
  <1>3. \A x \in Range(toRenderer) \ Received : x = a  BY <1>1
  <1>4. Sound(desk, front, Range(toMain), Received, refused, written)
    <2>1. \A x \in Range(toMain) \ Range(toMain) : x.type # "start"  OBVIOUS
    <2>2. \A x \in Range(toRenderer) \ Received : x.type \notin {"started", "refused"}  BY <1>3
    <2>3. \A x \in Range(toRenderer) \ Received : x.type \in Ends => x.stream # desk.active.stream /\ \A y \in Received : ~Clash(x, y)
      BY <1>1, <1>3
    <2> QED  BY <1>1, <1>2, <2>1, <2>2, <2>3, LessKeepsSound
  <1>5. MainTyped' /\ Channels'  BY <1>1 DEF MainTyped, Channels
  <1>6. front' /\ Idle(desk') => desk'.queue = <<>> /\ (Free \/ \E x \in Range(toMain') \cup Range(toRenderer') : ~NotAsked(x))
    <2>0. Range(toRenderer') = Received /\ Range(toMain') = Range(toMain)  BY DEF Received
    <2> SUFFICES ASSUME front, Idle(desk) PROVE desk.queue = <<>> /\ (Free \/ \E x \in Range(toMain) \cup Received : ~NotAsked(x))
        BY <2>0
    <2>1. desk.queue = <<>> /\ (Free \/ \E x \in Range(toMain) \cup Range(toRenderer) : ~NotAsked(x))  BY <1>1 DEF Settled
    <2>2. a.type # "ask"  BY <1>1 DEF Responses, Packets, Ends
    <2>3. a.type # "answered" => NotAsked(a)  BY <2>2 DEF NotAsked
    <2> QED  BY <1>1, <2>1, <2>3
  <1>7. Sound(desk', front', Range(toMain'), Range(toRenderer'), refused', written')
    <2>1. Range(toRenderer') = Received /\ Range(toMain') = Range(toMain)  BY DEF Received
    <2> QED  BY <1>4, <2>1
  <1> QED  BY <1>5, <1>6, <1>7, PlainKeeps

\* What a packet the active stream handles says of it.
LEMMA HandledFacts ==
    ASSUME DeskInv, toRenderer # <<>>, NEW a, a = Head(toRenderer), a.type \in Packets, Handles(a)
    PROVE  /\ desk.active.stream = a.stream /\ a.stream # 0 /\ desk.active.listener # 0
           /\ streams[a.stream] # "none" /\ ~Idle(desk)
  <1>1. /\ a \in Responses /\ a \in Range(toRenderer)
        /\ Range(toRenderer) = Received \cup {a}
        /\ \A y \in Received : ~Clash(a, y)
        /\ ResponseFine(a, desk, front, Range(toRenderer), written)
        /\ AllFine(desk, front, Range(toMain), Range(toRenderer), written)
        /\ Opened(desk, Range(toMain), Range(toRenderer))
      BY HeadFacts
  <1>2. desk.active.stream = a.stream /\ a.stream # 0 /\ streams[a.stream] # "none" /\ a.id = 0
    BY <1>1 DEF Handles, ResponseFine, Packets, Ends
  <1>3. desk.active.listener # 0
    <2> SUFFICES ASSUME desk.active.listener = 0 PROVE FALSE  OBVIOUS
    <2> DEFINE s == a.stream
    <2>1. \/ StartRequest(s) \in Range(toMain)
          \/ Answer("started", s, s) \in Range(toRenderer)
          \/ Answer("refused", s, 0) \in Range(toRenderer)
        BY <1>1, <1>2 DEF Opened, Opening
    <2>2. CASE StartRequest(s) \in Range(toMain)
      <3>1. RequestFine(StartRequest(s), desk, front, Range(toRenderer), written)  BY <1>1, <2>2 DEF AllFine
      <3> QED  BY <1>2, <3>1 DEF RequestFine, StartRequest, AskRequest
    <2>3. CASE Answer("started", s, s) \in Range(toRenderer)
      <3>1. Answer("started", s, s) \in Received  BY <1>1, <2>3 DEF Answer, Packets, Ends
      <3>2. Clash(a, Answer("started", s, s))  BY DEF Clash, Answer
      <3> QED  BY <1>1, <3>1, <3>2
    <2>4. CASE Answer("refused", s, 0) \in Range(toRenderer)
      <3>1. ResponseFine(Answer("refused", s, 0), desk, front, Range(toRenderer), written)  BY <1>1, <2>4 DEF AllFine
      <3> QED  BY <1>2, <3>1 DEF ResponseFine, Answer, Packets, Ends
    <2> QED  BY <2>1, <2>2, <2>3, <2>4
  <1> QED  BY <1>2, <1>3 DEF Idle, NoStream

\* A packet is handled by the listener of the active stream, or dropped.
LEMMA PacketKeeps ==
    ASSUME MaxMessages \in Nat, DeskInv, toRenderer # <<>>, NEW a, a = Head(toRenderer), HandlePacket(a)
    PROVE  DeskInv'
  <1> DEFINE N == {x \in Range(toMain) : NotAsked(x)}
             Q == {x \in Received : NotAsked(x)}
  <1>1. /\ a.type \in Packets /\ UNCHANGED <<front, streams, current, posted, refused, written>>
        /\ IF Handles(a) /\ ClosesStream(a) THEN RunEffects(FinalizeTurn(desk), <<>>, Tail(toRenderer))
           ELSE IF Handles(a) /\ front THEN RunEffects(desk, <<>>, Tail(toRenderer))
           ELSE toRenderer' = Tail(toRenderer) /\ UNCHANGED <<desk, toMain>>
      BY DEF HandlePacket, Packets, Ends
  <1>2. /\ a \in Responses /\ a \in Range(toRenderer)
        /\ Tail(toRenderer) \in Seq(Responses) /\ Ordered(Tail(toRenderer))
        /\ Range(toRenderer) = Received \cup {a}
        /\ \A y \in Received : ~Clash(a, y)
        /\ ResponseFine(a, desk, front, Range(toRenderer), written)
        /\ Received \in SUBSET Responses
        /\ Channels /\ MainTyped /\ desk \in Desks /\ Shape(desk)
        /\ NoneClash(Range(toMain), Range(toRenderer))
        /\ AllFine(desk, front, Range(toMain), Range(toRenderer), written)
        /\ Owned(desk) /\ Queued(desk, written)
        /\ Accounted(desk, Range(toMain), Range(toRenderer), refused)
        /\ Range(toMain) \in SUBSET Requests /\ Range(toRenderer) \in SUBSET Responses
        /\ toMain \in Seq(Requests) /\ Ordered(toMain)
      BY HeadFacts
  <1>3. a.type \notin {"started", "refused", "answered"}  BY <1>1 DEF Packets, Ends
  <1>4. CASE Handles(a) /\ ClosesStream(a)
    <2>1. /\ desk.active.stream = a.stream /\ a.stream # 0 /\ desk.active.listener # 0
          /\ streams[a.stream] # "none" /\ ~Idle(desk)
        BY <1>1, <1>4, HandledFacts
    <2>2. RunEffects(FinalizeTurn(desk), <<>>, Tail(toRenderer))  BY <1>1, <1>4
    <2>3. PICK e : e = FinalizeTurn(desk)  OBVIOUS
    <2>4. e \in Desks /\ Forgotten(desk, e)
      <3>1. desk.listeners = {[id |-> desk.active.listener, stream |-> desk.active.stream]}
          BY <1>2, <2>1 DEF Shape
      <3>2. {l \in desk.listeners : l.id # desk.active.listener} = {}  BY <3>1
      <3>3. NoStream \in [stream : Numbers, listener : Int]  BY DEF NoStream, Numbers
      <3> QED  BY <1>2, <2>3, <3>2, <3>3 DEF FinalizeTurn, Desks, Forgotten
    <2>5. a.type \in Ends => streams[a.stream] = "over"  BY <1>1, <1>2 DEF ResponseFine, Packets, Ends
    <2>6. a.type = "complete" => streams[a.stream] # "running"  BY <1>1, <1>2 DEF ResponseFine, Packets, Ends
    <2>7. \A t \in Messages : HasController(t) => t = a.stream  BY <1>2, <2>1 DEF Owned
    <2>8. \A t \in Messages : streams[t] # "running"
      <3> SUFFICES ASSUME NEW t \in Messages, streams[t] = "running" PROVE FALSE  OBVIOUS
      <3>1. t = a.stream  BY <2>7 DEF HasController, Messages
      <3>2. a.type \in Ends \/ a.type = "complete"  BY <1>4 DEF ClosesStream, Ends
      <3> QED  BY <2>5, <2>6, <3>1, <3>2
    <2>9. front => Free
      <3> SUFFICES ASSUME front, NEW t \in Messages, HasController(t) PROVE FALSE  BY DEF Free
      <3>1. a.type \in Ends  BY <1>4 DEF ClosesStream, Ends
      <3> QED  BY <2>5, <2>7, <3>1 DEF HasController
    <2>10. N \in SUBSET Range(toMain) /\ Q \in SUBSET Range(toRenderer) /\ N \in SUBSET Requests /\ Q \in SUBSET Responses
      BY <1>2
    <2>11. \A x \in Range(toRenderer) \ Q : x = a \/ x.type \in {"ask", "answered"}  BY <1>2 DEF NotAsked
    <2>12. \A x \in Range(toRenderer) \ Q : x.type \in Ends => \A y \in Q : ~Clash(x, y)
      BY <1>2, <2>11 DEF Ends
    <2>13. NoneClash(N, Q)  BY <1>2 DEF NoneClash
    <2>14. \A x \in Range(toMain) \ N : x.type # "start"  BY DEF NotAsked
    <2>15. \A x \in Range(toRenderer) \ Q : x.type # "refused"  BY <1>3, <2>11
    <2> HIDE DEF N, Q
    <2>16. AllFine(desk, front, N, Q, written)  BY <1>2, <2>10, <2>12, LessFine
    <2>17. Accounted(desk, N, Q, refused)  BY <1>2, <2>10, <2>14, <2>15, LessAccounted
    <2>18. /\ \A x \in N : x.type # "start"
           /\ \A x \in Q : x.type \notin {"started", "refused"}
      <3>1. desk.active.listener # 0 \/ Idle(desk)  BY <2>1
      <3>2. AllFine(desk, front, N, Q, written) /\ N \in SUBSET Requests /\ Q \in SUBSET Responses  BY <2>10, <2>16
      <3> QED  BY <3>1, <3>2, IdleStarts
    <2>19. ~NoSteer(N, Q) => Free
      <3> SUFFICES ASSUME ~NoSteer(N, Q) PROVE front  BY <2>9
      <3>1. CASE \E x \in N : x.type = "cancel" /\ x.id # 0
        <4>1. PICK x \in N : x.type = "cancel" /\ x.id # 0  BY <3>1
        <4>2. RequestFine(x, desk, front, Q, written)  BY <2>16 DEF AllFine
        <4> QED  BY <4>1, <4>2 DEF RequestFine, Steers, StartRequest, AskRequest
      <3>2. CASE \E x \in Q : x.type = "canceled" /\ x.id # 0
        <4>1. PICK x \in Q : x.type = "canceled" /\ x.id # 0  BY <3>2
        <4>2. ResponseFine(x, desk, front, Q, written)  BY <2>16 DEF AllFine
        <4> QED  BY <4>1, <4>2 DEF ResponseFine, Steers, Packets, Ends
      <3> QED  BY <3>1, <3>2 DEF NoSteer
    <2>20. front \in BOOLEAN  BY DEF DeskInv, Sound
    <2>21. Sound(e, front, N, Q, refused, written)
      <3>1. Owned(desk) /\ Queued(desk, written)  BY <1>2
      <3>2. (\A x \in N : x.type # "start") /\ \A x \in Q : x.type \notin {"started", "refused"}  BY <2>18
      <3>3. e \in Desks /\ Forgotten(desk, e)  BY <2>4
      <3> QED  BY <2>8, <2>13, <2>16, <2>17, <2>19, <2>20, <3>1, <3>2, <3>3, CloseKeepsSound
    <2>22. Sound(e, front', {x \in Range(toMain) : NotAsked(x)}, {x \in Range(Tail(toRenderer)) : NotAsked(x)}, refused', written')
      BY <1>1, <2>21 DEF N, Q, Received
    <2>23. MainTyped'  BY <1>1, <1>2 DEF MainTyped
    <2>24. front' /\ Idle(e) /\ e.queue # <<>> => Free  BY <1>1, <2>9
    <2> QED  BY <1>1, <1>2, <2>2, <2>3, <2>22, <2>23, <2>24, RenderKeeps
  <1>5. CASE ~(Handles(a) /\ ClosesStream(a)) /\ Handles(a) /\ front
    <2>1. RunEffects(desk, <<>>, Tail(toRenderer))  BY <1>1, <1>5
    <2>2. a.type \notin Ends  BY <1>5 DEF ClosesStream, Ends
    <2>3. Range(Tail(toRenderer)) \subseteq Range(toRenderer)
          /\ \A x \in Range(toRenderer) \ Range(Tail(toRenderer)) : x = a
        BY <1>2 DEF Received
    <2> QED  BY <1>1, <1>2, <1>3, <2>1, <2>2, <2>3, RenderAgain
  <1>6. CASE ~Handles(a) \/ (~ClosesStream(a) /\ ~front)
    <2>1. toRenderer' = Tail(toRenderer) /\ UNCHANGED <<desk, toMain>>  BY <1>1, <1>6
    <2>2. a.type \in Ends => a.stream # desk.active.stream
      <3> SUFFICES ASSUME a.type \in Ends, a.stream = desk.active.stream PROVE FALSE  OBVIOUS
      <3>1. ~Handles(a)  BY <1>6 DEF ClosesStream, Ends
      <3>2. a.stream # 0  BY <1>1, <1>2 DEF ResponseFine, Packets, Ends
      <3>3. PICK n : desk.listeners = {[id |-> n, stream |-> desk.active.stream]}  BY <1>2, <3>2 DEF Shape
      <3>4. [id |-> n, stream |-> desk.active.stream] \in desk.listeners  BY <3>3
      <3>5. \E l \in desk.listeners : l.stream = a.stream  BY <3>4
      <3> QED  BY <3>1, <3>5 DEF Handles
    <2> QED  BY <1>1, <1>3, <2>1, <2>2, DropKeeps
  <1> QED  BY <1>4, <1>5, <1>6

\* The stream has started, and is followed from now on.
LEMMA OpenedKeeps ==
    ASSUME MaxMessages \in Nat, DeskInv, toRenderer # <<>>, NEW a, a = Head(toRenderer), StreamOpened(a)
    PROVE  DeskInv'
  <1> DEFINE N == Range(toMain)
             R == Range(toRenderer)
  <1>1. /\ a.type = "started"
        /\ desk' = [desk EXCEPT !.active = [stream |-> a.stream, listener |-> a.id],
                                !.listeners = {l \in @ : l.id # a.id} \cup {[id |-> a.id, stream |-> a.stream]}]
        /\ toRenderer' = Tail(toRenderer)
        /\ UNCHANGED <<front, toMain, streams, current, posted, refused, written>>
      BY DEF StreamOpened
  <1>2. /\ a \in Responses /\ a \in R
        /\ Tail(toRenderer) \in Seq(Responses) /\ Ordered(Tail(toRenderer))
        /\ R = Received \cup {a}
        /\ \A y \in Received : ~Clash(a, y)
        /\ ResponseFine(a, desk, front, R, written)
        /\ Channels /\ MainTyped /\ desk \in Desks /\ Shape(desk)
        /\ NoneClash(N, R)
        /\ AllFine(desk, front, N, R, written)
        /\ Owned(desk) /\ Queued(desk, written)
        /\ Accounted(desk, N, R, refused)
        /\ N \in SUBSET Requests
        /\ Opened(desk, N, R)
      BY HeadFacts
  <1>3. PICK m : m = a.stream  OBVIOUS
  <1>4. a.id = m /\ desk.active = Placeholder(m) /\ Lives(m, R)
    BY <1>1, <1>2, <1>3 DEF ResponseFine, Packets, Ends
  <1>5. m \in Messages /\ m # 0 /\ m \in Numbers /\ m \in Int  BY <1>2, <1>3, <1>4 DEF Lives, Messages, Numbers, Responses
  <1>6. desk.active.stream = m /\ desk.active.listener = 0 /\ Opening(desk)  BY <1>4, <1>5 DEF Placeholder, Opening
  <1>7. PICK e : e = desk'  OBVIOUS
  <1>8. /\ e \in Desks /\ e.active = [stream |-> m, listener |-> m] /\ e.listeners = {[id |-> m, stream |-> m]}
        /\ e.sending = desk.sending /\ e.queue = desk.queue /\ e.taken = desk.taken
    <2>1. desk.listeners = {[id |-> m, stream |-> m]}  BY <1>2, <1>5, <1>6 DEF Shape
    <2>2. {l \in desk.listeners : l.id # m} \cup {[id |-> m, stream |-> m]} = {[id |-> m, stream |-> m]}  BY <2>1
    <2>3. [stream |-> m, listener |-> m] \in [stream : Numbers, listener : Int]
          /\ {[id |-> m, stream |-> m]} \in SUBSET [id : Int, stream : Messages]
        BY <1>5
    <2>4. e = [desk EXCEPT !.active = [stream |-> m, listener |-> m], !.listeners = {[id |-> m, stream |-> m]}]
      BY <1>1, <1>3, <1>4, <1>7, <2>2
    <2> QED  BY <1>2, <2>3, <2>4 DEF Desks
  <1>9. NoSteer(N, R)  BY <1>2, <1>6, SteerEmpties
  <1>10. /\ \A x \in N : x.type # "start"
         /\ \A x \in Received : x.type \notin {"started", "refused"}
    <2>1. \A x \in N : ~Clash(x, a)  BY <1>2 DEF NoneClash
    <2> QED  BY <1>1, <1>2, <2>1 DEF Clash
  <1>11. Lives(m, Received)
    <2>1. \A x \in R \ Received : x.type \notin Ends  BY <1>1, <1>2 DEF Ends
    <2> QED  BY <1>4, <2>1 DEF Lives, Announces
  <1>12. AllFine(e, front, N, Received, written)
    <2>1. ASSUME NEW x \in N PROVE RequestFine(x, e, front, Received, written)
      <3>1. RequestFine(x, desk, front, R, written) /\ x.type # "start" /\ (x.type = "cancel" => x.id = 0)
        BY <1>2, <1>9, <1>10 DEF AllFine, NoSteer
      <3> QED  BY <1>5, <1>6, <3>1 DEF RequestFine, Idle, NoStream
    <2>2. ASSUME NEW x \in Received PROVE ResponseFine(x, e, front, Received, written)
      <3>1. /\ ResponseFine(x, desk, front, R, written) /\ x.type \notin {"started", "refused"}
            /\ x.type = "canceled" => x.id = 0
        BY <1>2, <1>9, <1>10 DEF AllFine, NoSteer
      <3>2. x.type # "answered"  BY <1>5, <1>6, <3>1 DEF ResponseFine, Idle, NoStream, Packets, Ends
      <3> QED  BY <3>1, <3>2 DEF ResponseFine
    <2> QED  BY <2>1, <2>2 DEF AllFine
  <1>13. Opened(e, N, Received)  BY <1>5, <1>8, <1>11 DEF Opened, Opening
  <1>14. Owned(e)  BY <1>2, <1>5, <1>6, <1>8 DEF Owned, Idle, NoStream
  <1>15. Queued(e, written)  BY <1>2, <1>8 DEF Queued
  <1>16. Accounted(e, N, Received, refused)
    <2>1. \A x \in N \ N : x.type # "start"  OBVIOUS
    <2>2. \A x \in R \ Received : x.type # "refused"  BY <1>1, <1>2
    <2>3. N \in SUBSET N /\ Received \in SUBSET R  BY <1>2
    <2> HIDE DEF N, R
    <2>4. Accounted(desk, N, Received, refused)  BY <1>2, <2>1, <2>2, <2>3, LessAccounted
    <2> QED  BY <1>8, <2>4 DEF Accounted
  <1>17. Shape(e)  BY <1>2, <1>5, <1>6, <1>8 DEF Shape
  <1>18. NoneClash(N, Received)  BY <1>2 DEF NoneClash
  <1>19. front \in BOOLEAN  BY DEF DeskInv, Sound
  <1>20. Sound(e, front, N, Received, refused, written)
    BY <1>8, <1>12, <1>13, <1>14, <1>15, <1>16, <1>17, <1>18, <1>19 DEF Sound
  <1>21. Sound(desk', front', Range(toMain'), Range(toRenderer'), refused', written')
    <2>1. Range(toMain') = N /\ Range(toRenderer') = Received  BY <1>1 DEF Received
    <2> QED  BY <1>1, <1>7, <1>20, <2>1
  <1>22. MainTyped' /\ Channels'  BY <1>1, <1>2 DEF MainTyped, Channels
  <1>23. ~Idle(desk')  BY <1>5, <1>7, <1>8 DEF Idle, NoStream
  <1> QED  BY <1>1, <1>21, <1>22, <1>23, PlainKeeps

\* The stream could not start: its message is reported.
LEMMA RefusedKeeps ==
    ASSUME MaxMessages \in Nat, DeskInv, toRenderer # <<>>, NEW a, a = Head(toRenderer), StreamRefused(a)
    PROVE  DeskInv'
  <1> DEFINE N == {x \in Range(toMain) : NotAsked(x)}
             Q == {x \in Received : NotAsked(x)}
  <1>1. /\ a.type = "refused" /\ refused' = refused \cup {a.id}
        /\ RunEffects(FinalizeTurn([desk EXCEPT !.listeners = {l \in @ : l.id # a.id}]), <<>>, Tail(toRenderer))
        /\ UNCHANGED <<front, streams, current, posted, written>>
      BY DEF StreamRefused
  <1>2. /\ a \in Responses /\ a \in Range(toRenderer)
        /\ Tail(toRenderer) \in Seq(Responses) /\ Ordered(Tail(toRenderer))
        /\ Range(toRenderer) = Received \cup {a}
        /\ \A y \in Received : ~Clash(a, y)
        /\ ResponseFine(a, desk, front, Range(toRenderer), written)
        /\ Received \in SUBSET Responses
        /\ Channels /\ MainTyped /\ desk \in Desks /\ Shape(desk)
        /\ NoneClash(Range(toMain), Range(toRenderer))
        /\ AllFine(desk, front, Range(toMain), Range(toRenderer), written)
        /\ Owned(desk) /\ Queued(desk, written)
        /\ Accounted(desk, Range(toMain), Range(toRenderer), refused)
        /\ Range(toMain) \in SUBSET Requests
        /\ toMain \in Seq(Requests) /\ Ordered(toMain)
      BY HeadFacts
  <1>3. PICK m : m = a.id  OBVIOUS
  <1>4. m # 0 /\ desk.active = Placeholder(m) /\ Free  BY <1>1, <1>2, <1>3 DEF ResponseFine, Packets, Ends
  <1>5. m \in Messages  BY <1>2, <1>3, <1>4 DEF Responses, Messages, Numbers
  <1>6. desk.active.stream = m /\ desk.active.listener = 0 /\ Opening(desk)  BY <1>4 DEF Placeholder, Opening
  <1>7. PICK e : e = FinalizeTurn([desk EXCEPT !.listeners = {l \in @ : l.id # a.id}])  OBVIOUS
  <1>8. e \in Desks /\ Forgotten(desk, e)
    <2>1. desk.listeners = {[id |-> m, stream |-> m]}  BY <1>2, <1>4, <1>6 DEF Shape
    <2>2. {l \in desk.listeners : l.id # a.id} = {}  BY <1>3, <2>1
    <2>3. e = FinalizeTurn([desk EXCEPT !.listeners = {}])  BY <1>7, <2>2
    <2>4. e = [desk EXCEPT !.active = NoStream, !.sending = FALSE, !.listeners = {}]
      <3>1. \A l \in {} : FALSE  OBVIOUS
      <3>2. [desk EXCEPT !.listeners = {}].listeners = {}  BY <1>2 DEF Desks
      <3> QED  BY <1>2, <2>3, <3>2 DEF FinalizeTurn, Desks
    <2>5. NoStream \in [stream : Numbers, listener : Int]  BY DEF NoStream, Numbers
    <2> QED  BY <1>2, <2>4, <2>5 DEF Desks, Forgotten
  <1>9. /\ \A x \in Range(toMain) : x.type # "start"
        /\ \A x \in Received : x.type \notin {"started", "refused"}
    <2>1. \A x \in Range(toMain) : ~Clash(x, a)  BY <1>2 DEF NoneClash
    <2> QED  BY <1>1, <1>2, <2>1 DEF Clash
  <1>10. NoSteer(Range(toMain), Range(toRenderer))  BY <1>2, <1>6, SteerEmpties
  <1>11. N \in SUBSET Range(toMain) /\ Q \in SUBSET Range(toRenderer)  BY <1>2
  <1>12. AllFine(desk, front, N, Q, written)
    <2>1. \A x \in Range(toRenderer) \ Q : x.type \in Ends => \A y \in Q : ~Clash(x, y)
      BY <1>1, <1>2 DEF Ends, NotAsked
    <2> HIDE DEF N, Q
    <2> QED  BY <1>2, <1>11, <2>1, LessFine
  <1>13. Accounted(desk, N, Q, refused')
    <2>1. \A k \in Range(desk.taken) : k \in Range(posted) \cup refused' \/ Pending(k, N, Q)
      <3> SUFFICES ASSUME NEW k \in Range(desk.taken), k \notin Range(posted) \cup refused' PROVE Pending(k, N, Q)
          OBVIOUS
      <3>1. Pending(k, Range(toMain), Range(toRenderer))  BY <1>1, <1>2 DEF Accounted
      <3>2. k # a.id  BY <1>1
      <3>3. StartRequest(k) \notin Range(toMain)  BY <1>9 DEF StartRequest
      <3>4. Answer("refused", k, 0) \in Range(toRenderer)  BY <3>1, <3>3 DEF Pending
      <3>5. Answer("refused", k, 0) # a  BY <3>2 DEF Answer
      <3>6. Answer("refused", k, 0) \in Received  BY <1>2, <3>4, <3>5
      <3> QED  BY <3>6 DEF Pending, NotAsked, Answer
    <2>2. posted = Only(desk.taken, Range(posted)) /\ Range(posted) = {k \in Messages : streams[k] # "none"}
      BY <1>2 DEF Accounted
    <2> QED  BY <2>1, <2>2 DEF Accounted
  <1>14. front \in BOOLEAN  BY DEF DeskInv, Sound
  <1>15. Sound(e, front, N, Q, refused', written)
    <2>1. /\ \A x \in N : x.type # "start"
          /\ \A x \in Q : x.type \notin {"started", "refused"}
      BY <1>9
    <2>2. \A t \in Messages : streams[t] # "running"  BY <1>4 DEF Free, HasController, Messages
    <2>3. NoneClash(N, Q)  BY <1>2 DEF NoneClash
    <2> HIDE DEF N, Q
    <2> QED  BY <1>2, <1>4, <1>8, <1>12, <1>13, <1>14, <2>1, <2>2, <2>3, CloseKeepsSound
  <1>16. Sound(e, front', {x \in Range(toMain) : NotAsked(x)}, {x \in Range(Tail(toRenderer)) : NotAsked(x)}, refused', written')
    BY <1>1, <1>15 DEF Received
  <1>17. MainTyped'  BY <1>1, <1>2, <1>3, <1>5 DEF MainTyped
  <1>18. RunEffects(e, <<>>, Tail(toRenderer))  BY <1>1, <1>7
  <1> QED  BY <1>1, <1>2, <1>4, <1>16, <1>17, <1>18, RenderKeeps

\* The stream is cancelled: a steered message takes its place.
LEMMA CanceledKeeps ==
    ASSUME MaxMessages \in Nat, DeskInv, toRenderer # <<>>, NEW a, a = Head(toRenderer), CancelAnswered(a)
    PROVE  DeskInv'
  <1> DEFINE N == {x \in Range(toMain) : NotAsked(x)}
             Q == {x \in Received : NotAsked(x)}
  <1>1. /\ a.type = "canceled" /\ UNCHANGED <<front, streams, current, posted, refused, written>>
        /\ IF a.id = 0 THEN RunEffects(desk, <<>>, Tail(toRenderer)) ELSE SteerContinues(a.id)
      BY DEF CancelAnswered
  <1>2. /\ a \in Responses /\ a \in Range(toRenderer)
        /\ Tail(toRenderer) \in Seq(Responses) /\ Ordered(Tail(toRenderer))
        /\ Range(toRenderer) = Received \cup {a}
        /\ \A y \in Received : ~Clash(a, y)
        /\ ResponseFine(a, desk, front, Range(toRenderer), written)
        /\ Received \in SUBSET Responses
        /\ Channels /\ MainTyped /\ desk \in Desks /\ Shape(desk)
        /\ NoneClash(Range(toMain), Range(toRenderer))
        /\ AllFine(desk, front, Range(toMain), Range(toRenderer), written)
        /\ Owned(desk) /\ Queued(desk, written)
        /\ Accounted(desk, Range(toMain), Range(toRenderer), refused)
        /\ Range(toMain) \in SUBSET Requests
        /\ toMain \in Seq(Requests) /\ Ordered(toMain)
      BY HeadFacts
  <1>3. CASE a.id = 0
    <2>1. RunEffects(desk, <<>>, Tail(toRenderer))  BY <1>1, <1>3
    <2>2. Range(Tail(toRenderer)) \subseteq Range(toRenderer)
          /\ \A x \in Range(toRenderer) \ Range(Tail(toRenderer)) : x = a
        BY <1>2 DEF Received
    <2>3. a.type \notin {"started", "refused"} /\ a.type \notin Ends  BY <1>1 DEF Ends
    <2> QED  BY <1>1, <1>2, <2>1, <2>2, <2>3, RenderAgain
  <1>4. CASE a.id # 0
    <2>1. PICK m : m = a.id  OBVIOUS
    <2>2. Steers(m, desk, front, Range(toRenderer), written) /\ Free
      BY <1>1, <1>2, <1>4, <2>1 DEF ResponseFine, Packets, Ends
    <2>3. /\ front /\ desk.queue = <<>> /\ m \in 1 .. written /\ m \notin Range(desk.taken)
          /\ Idle(desk) \/ (desk.active.listener # 0 /\ desk.active.listener = desk.disposes)
        BY <2>2 DEF Steers
    <2>4. PICK e : e = [desk EXCEPT !.active = NoStream, !.sending = FALSE, !.disposes = 0,
                                    !.listeners = {l \in @ : l.id # desk.disposes}]
        OBVIOUS
    <2>5. {l \in desk.listeners : l.id # desk.disposes} = {}
      <3>1. CASE Idle(desk)
        <4>1. desk.listeners = {}  BY <1>2, <3>1 DEF Shape, Idle, NoStream
        <4> QED  BY <4>1
      <3>2. CASE ~Idle(desk)
        <4>1. desk.active.listener # 0 /\ desk.active.listener = desk.disposes  BY <2>3, <3>2
        <4>2. desk.active.stream # 0  BY <1>2, <3>2 DEF Shape, Idle
        <4>3. desk.listeners = {[id |-> desk.active.listener, stream |-> desk.active.stream]}
            BY <1>2, <4>1, <4>2 DEF Shape
        <4> QED  BY <4>1, <4>3
      <3> QED  BY <3>1, <3>2
    <2>6. e \in Desks /\ Forgotten(desk, e) /\ e.queue = <<>> /\ e.taken = desk.taken
      <3>1. NoStream \in [stream : Numbers, listener : Int]  BY DEF NoStream, Numbers
      <3>2. e = [desk EXCEPT !.active = NoStream, !.sending = FALSE, !.disposes = 0, !.listeners = {}]
        BY <2>4, <2>5
      <3>3. PICK b : b = [desk EXCEPT !.active = NoStream, !.sending = FALSE, !.listeners = {}]  OBVIOUS
      <3>4. b \in Desks /\ b.active = NoStream /\ b.sending = FALSE /\ b.listeners = {}
            /\ b.queue = desk.queue /\ b.taken = desk.taken
        BY <1>2, <3>1, <3>3 DEF Desks
      <3>5. PICK zero \in Int : zero = 0  OBVIOUS
      <3>6. e = [b EXCEPT !.disposes = zero]  BY <1>2, <3>2, <3>3, <3>5 DEF Desks
      <3>7. /\ e \in Desks /\ e.active = NoStream /\ e.sending = FALSE /\ e.listeners = {}
            /\ e.queue = desk.queue /\ e.taken = desk.taken
        BY <3>4, <3>6 DEF Desks
      <3> QED  BY <2>3, <3>7 DEF Forgotten
    <2>7. /\ \A x \in Range(toMain) : x.type # "start"
          /\ \A x \in Range(toRenderer) : x.type \notin {"started", "refused"}
      <3>1. Range(toRenderer) \in SUBSET Responses  BY <1>2
      <3> QED  BY <1>2, <2>3, <3>1, IdleStarts
    <2>8. NoSteer(N, Q)
      <3>1. \A x \in Range(toMain) : ~Clash(x, a)  BY <1>2 DEF NoneClash
      <3>2. \A x \in Range(toMain) : x.type # "cancel"  BY <1>1, <3>1 DEF Clash
      <3>3. \A x \in Received : x.type # "canceled"  BY <1>1, <1>2 DEF Clash
      <3> QED  BY <3>2, <3>3 DEF NoSteer
    <2>9. N \in SUBSET Range(toMain) /\ Q \in SUBSET Range(toRenderer) /\ N \in SUBSET Requests /\ Q \in SUBSET Responses
      BY <1>2
    <2>10. \A x \in Range(toRenderer) \ Q : x.type \in {"ask", "answered", "canceled"}  BY <1>1, <1>2 DEF NotAsked
    <2>11. \A x \in Range(toRenderer) \ Q : x.type \in Ends => \A y \in Q : ~Clash(x, y)  BY <2>10 DEF Ends
    <2>12. NoneClash(N, Q)  BY <1>2 DEF NoneClash
    <2>13. \A x \in Range(toMain) \ N : x.type # "start"  BY DEF NotAsked
    <2>14. \A x \in Range(toRenderer) \ Q : x.type # "refused"  BY <2>10
    <2>15. /\ \A x \in N : x.type # "start"
           /\ \A x \in Q : x.type \notin {"started", "refused"}
      BY <2>7, <2>9
    <2>16. \A x \in N \cup Q : NotAsked(x)  OBVIOUS
    <2>17. \A t \in Messages : streams[t] # "running"  BY <2>2 DEF Free, HasController, Messages
    <2>18. front \in BOOLEAN /\ written \in Numbers  BY <1>2 DEF DeskInv, Sound, MainTyped
    <2> HIDE DEF N, Q
    <2>19. AllFine(desk, front, N, Q, written)  BY <1>2, <2>9, <2>11, LessFine
    <2>20. Accounted(desk, N, Q, refused)  BY <1>2, <2>9, <2>13, <2>14, LessAccounted
    <2>21. Sound(e, front, N, Q, refused, written)
      BY <1>2, <2>2, <2>6, <2>12, <2>15, <2>17, <2>18, <2>19, <2>20, CloseKeepsSound
    <2>22. Idle(e)  BY <2>6 DEF Forgotten, Idle
    <2>23. m \notin Range(e.queue) /\ m \notin Range(e.taken)  BY <2>3, <2>6 DEF Range
    <2>24. /\ Sound(SendMessageText(e, m), front, N \cup {StartRequest(m)}, Q, refused, written)
           /\ StartRequest(m) \in Requests
           /\ \A y \in N : ~Clash(y, StartRequest(m))
      BY <2>2, <2>3, <2>8, <2>9, <2>16, <2>18, <2>21, <2>22, <2>23, SendKeepsSound
    <2>25. PICK d : d = SendMessageText(e, m)  OBVIOUS
    <2>26. RunEffects(d, <<StartRequest(m)>>, Tail(toRenderer))
      <3>1. SteerContinues(m)  BY <1>1, <1>4, <2>1
      <3>2. RunEffects(SendMessageText(e, m), [i \in 1 .. (1 + Len(<<>>)) |-> StartRequest((<<m>> \o <<>>)[i])], Tail(toRenderer))
        BY <2>4, <2>6, <3>1 DEF SteerContinues
      <3>3. [i \in 1 .. (1 + Len(<<>>)) |-> StartRequest((<<m>> \o <<>>)[i])] = <<StartRequest(m)>>
        <4>1. 1 + Len(<<>>) = 1 /\ <<m>> \o <<>> = <<m>>  OBVIOUS
        <4>2. [i \in 1 .. 1 |-> StartRequest(<<m>>[i])] = [i \in 1 .. 1 |-> StartRequest(m)]  OBVIOUS
        <4>3. [i \in 1 .. 1 |-> StartRequest(m)] = <<StartRequest(m)>>  OBVIOUS
        <4> QED  BY <4>1, <4>2, <4>3
      <3> QED  BY <2>25, <3>2, <3>3
    <2>27. ~Idle(d)
      <3>1. m # 0  BY <2>3
      <3> QED  BY <2>6, <2>25, <3>1 DEF SendMessageText, Placeholder, Idle, NoStream, Desks
    <2>28. Sound(d, front', {x \in Range(toMain) : NotAsked(x)} \cup {StartRequest(m)},
                 {x \in Range(Tail(toRenderer)) : NotAsked(x)}, refused', written')
      BY <1>1, <2>24, <2>25 DEF N, Q, Received
    <2>29. \A y \in {x \in Range(toMain) : NotAsked(x)} : ~Clash(y, StartRequest(m))  BY <2>24 DEF N
    <2>30. MainTyped'  BY <1>1, <1>2 DEF MainTyped
    <2>31. StartRequest(m) \in Requests  BY <2>24
    <2> QED  BY <1>1, <1>2, <2>26, <2>27, <2>28, <2>29, <2>30, <2>31, RenderSends
  <1> QED  BY <1>3, <1>4

\* The main process has answered what runs: without a stream, the renderer follows it.
LEMMA ReconnectKeeps ==
    ASSUME MaxMessages \in Nat, DeskInv, toRenderer # <<>>, NEW a, a = Head(toRenderer), Reconnect(a)
    PROVE  DeskInv'
  <1> DEFINE N == {x \in Range(toMain) : NotAsked(x)}
             Q == {x \in Received : NotAsked(x)}
  <1>1. /\ a.type = "answered" /\ UNCHANGED <<front, streams, current, posted, refused, written>>
        /\ IF a.stream = 0 \/ desk.active # NoStream
           THEN toRenderer' = Tail(toRenderer) /\ UNCHANGED <<desk, toMain>>
           ELSE RunEffects([desk EXCEPT !.active = [stream |-> a.stream, listener |-> -a.stream], !.sending = TRUE,
                                        !.listeners = @ \cup {[id |-> -a.stream, stream |-> a.stream]}],
                           <<>>, Tail(toRenderer))
      BY DEF Reconnect
  <1>2. /\ a \in Responses /\ a \in Range(toRenderer)
        /\ Tail(toRenderer) \in Seq(Responses) /\ Ordered(Tail(toRenderer))
        /\ Range(toRenderer) = Received \cup {a}
        /\ \A y \in Received : ~Clash(a, y)
        /\ ResponseFine(a, desk, front, Range(toRenderer), written)
        /\ Received \in SUBSET Responses
        /\ Channels /\ MainTyped /\ desk \in Desks /\ Shape(desk)
        /\ NoneClash(Range(toMain), Range(toRenderer))
        /\ AllFine(desk, front, Range(toMain), Range(toRenderer), written)
        /\ Owned(desk) /\ Queued(desk, written)
        /\ Accounted(desk, Range(toMain), Range(toRenderer), refused)
        /\ Range(toMain) \in SUBSET Requests
        /\ toMain \in Seq(Requests) /\ Ordered(toMain)
      BY HeadFacts
  <1>3. Idle(desk) /\ OnlyRuns(a.stream) /\ (a.stream # 0 => Lives(a.stream, Range(toRenderer)))
    BY <1>1, <1>2 DEF ResponseFine, Packets, Ends
  <1>4. CASE a.stream = 0 \/ desk.active # NoStream
    <2>1. toRenderer' = Tail(toRenderer) /\ UNCHANGED <<desk, toMain>>  BY <1>1, <1>4
    <2>2. Free  BY <1>3, <1>4 DEF OnlyRuns, Free, Idle, Messages
    <2>3. a.type \notin {"started", "refused"} /\ a.type \notin Ends  BY <1>1 DEF Ends
    <2> QED  BY <1>1, <2>1, <2>2, <2>3, DropKeeps
  <1>5. CASE a.stream # 0 /\ desk.active = NoStream
    <2>1. PICK s : s = a.stream  OBVIOUS
    <2>2. s # 0 /\ s \in Messages /\ s \in Numbers /\ s \in Int /\ -s \in Int /\ -s # 0 /\ OnlyRuns(s)
          /\ Lives(s, Range(toRenderer))
      BY <1>2, <1>3, <1>5, <2>1 DEF Lives, Responses, Numbers
    <2>3. PICK e : e = [desk EXCEPT !.active = [stream |-> a.stream, listener |-> -a.stream], !.sending = TRUE,
                                    !.listeners = @ \cup {[id |-> -a.stream, stream |-> a.stream]}]
        OBVIOUS
    <2>4. /\ e \in Desks /\ e.active = [stream |-> s, listener |-> -s] /\ e.sending = TRUE
          /\ e.listeners = {[id |-> -s, stream |-> s]} /\ e.queue = desk.queue /\ e.taken = desk.taken
      <3>1. desk.listeners = {}  BY <1>2, <1>5 DEF Shape, NoStream
      <3>2. [stream |-> s, listener |-> -s] \in [stream : Numbers, listener : Int]
            /\ {[id |-> -s, stream |-> s]} \in SUBSET [id : Int, stream : Messages]
          BY <2>2
      <3>3. e = [desk EXCEPT !.active = [stream |-> s, listener |-> -s], !.sending = TRUE,
                             !.listeners = {[id |-> -s, stream |-> s]}]
        BY <2>1, <2>3, <3>1
      <3> QED  BY <1>2, <3>2, <3>3 DEF Desks
    <2>5. NoSteer(N, Q)
      <3>1. ASSUME NEW k, Steers(k, desk, front, Range(toRenderer), written) PROVE FALSE
        BY <1>1, <1>2, <1>5, <3>1 DEF Steers
      <3>2. ASSUME NEW x \in Range(toMain), x.type = "cancel" PROVE x.id = 0
        <4>1. RequestFine(x, desk, front, Range(toRenderer), written)  BY <1>2 DEF AllFine
        <4> QED  BY <3>1, <3>2, <4>1 DEF RequestFine, StartRequest, AskRequest
      <3>3. ASSUME NEW x \in Received, x.type = "canceled" PROVE x.id = 0
        <4>1. ResponseFine(x, desk, front, Range(toRenderer), written)  BY <1>2 DEF AllFine
        <4> QED  BY <3>1, <3>3, <4>1 DEF ResponseFine, Packets, Ends
      <3> QED  BY <3>2, <3>3 DEF NoSteer
    <2>6. /\ \A x \in Range(toMain) : x.type # "start"
          /\ \A x \in Range(toRenderer) : x.type \notin {"started", "refused"}
      <3>1. Range(toRenderer) \in SUBSET Responses  BY <1>2
      <3> QED  BY <1>2, <1>3, <3>1, IdleStarts
    <2>7. N \in SUBSET Range(toMain) /\ Q \in SUBSET Range(toRenderer)  BY <1>2
    <2>8. \A x \in Range(toRenderer) \ Q : x.type \in {"ask", "answered"}  BY <1>1, <1>2 DEF NotAsked
    <2>9. AllFine(e, front, N, Q, written)
      <3>1. ASSUME NEW x \in N PROVE RequestFine(x, e, front, Q, written)
        <4>1. RequestFine(x, desk, front, Range(toRenderer), written) /\ x.type # "start" /\ NotAsked(x)
              /\ (x.type = "cancel" => x.id = 0)
            BY <1>2, <2>5, <2>6 DEF AllFine, NoSteer
        <4> QED  BY <4>1 DEF RequestFine, NotAsked, AskRequest
      <3>2. ASSUME NEW x \in Q PROVE ResponseFine(x, e, front, Q, written)
        <4>1. /\ ResponseFine(x, desk, front, Range(toRenderer), written) /\ NotAsked(x)
              /\ x.type \notin {"started", "refused"} /\ (x.type = "canceled" => x.id = 0)
            BY <1>2, <2>5, <2>6 DEF AllFine, NoSteer
        <4> QED  BY <4>1 DEF ResponseFine, NotAsked
      <3> QED  BY <3>1, <3>2 DEF AllFine
    <2>10. Lives(s, Q)
      <3>1. \A x \in Range(toRenderer) \ Q : x.type \notin Ends  BY <2>8 DEF Ends
      <3> QED  BY <2>2, <3>1 DEF Lives, Announces
    <2>11. Opened(e, N, Q)  BY <2>2, <2>4, <2>10 DEF Opened, Opening
    <2>12. Owned(e)  BY <1>2, <2>2, <2>4 DEF Owned, OnlyRuns
    <2>13. Queued(e, written) /\ Shape(e)  BY <1>2, <2>2, <2>4 DEF Queued, Shape
    <2>14. Accounted(e, N, Q, refused)
      <3>1. \A x \in Range(toMain) \ N : x.type # "start"  BY <2>6
      <3>2. \A x \in Range(toRenderer) \ Q : x.type # "refused"  BY <2>8
      <3> HIDE DEF N, Q
      <3>3. Accounted(desk, N, Q, refused)  BY <1>2, <2>7, <3>1, <3>2, LessAccounted
      <3> QED  BY <2>4, <3>3 DEF Accounted
    <2>15. NoneClash(N, Q)  BY <1>2 DEF NoneClash
    <2>16. front \in BOOLEAN  BY DEF DeskInv, Sound
    <2>17. Sound(e, front, N, Q, refused, written)
      BY <2>4, <2>9, <2>11, <2>12, <2>13, <2>14, <2>15, <2>16 DEF Sound
    <2>18. Sound(e, front', {x \in Range(toMain) : NotAsked(x)}, {x \in Range(Tail(toRenderer)) : NotAsked(x)}, refused', written')
      BY <1>1, <2>17 DEF Received
    <2>19. MainTyped'  BY <1>1, <1>2 DEF MainTyped
    <2>20. RunEffects(e, <<>>, Tail(toRenderer))  BY <1>1, <1>5, <2>3
    <2>21. ~Idle(e)  BY <2>2, <2>4 DEF Idle, NoStream
    <2> QED  BY <1>1, <1>2, <2>18, <2>19, <2>20, <2>21, RenderKeeps
  <1> QED  BY <1>4, <1>5

-----------------------------------------------------------------------------
(* What the main process does. *)

Unanswered == Range(Tail(toMain))

\* What the invariant says of the request received and of those after it.
LEMMA RequestFacts ==
    ASSUME DeskInv, toMain # <<>>, NEW r, r = Head(toMain)
    PROVE  /\ r \in Requests /\ r \in Range(toMain)
           /\ Tail(toMain) \in Seq(Requests) /\ Ordered(Tail(toMain))
           /\ Range(toMain) = Unanswered \cup {r}
           /\ \A x \in Unanswered : ~Clash(r, x)
           /\ \A y \in Range(toRenderer) : ~Clash(r, y)
           /\ RequestFine(r, desk, front, Range(toRenderer), written)
           /\ Unanswered \in SUBSET Requests /\ Range(toRenderer) \in SUBSET Responses
           /\ toRenderer \in Seq(Responses) /\ Ordered(toRenderer)
           /\ NoneClash(Unanswered, Range(toRenderer))
  <1>1. /\ Channels /\ Sound(desk, front, Range(toMain), Range(toRenderer), refused, written)
      BY DEF DeskInv
  <1>2. toRenderer \in Seq(Responses) /\ Ordered(toRenderer) /\ toMain \in Seq(Requests) /\ Ordered(toMain)
    BY <1>1 DEF Channels
  <1>3. /\ Head(toMain) \in Requests /\ Tail(toMain) \in Seq(Requests)
        /\ Range(toMain) = Range(Tail(toMain)) \cup {Head(toMain)}
      BY <1>2, TailRange
  <1>4. Ordered(Tail(toMain)) /\ \A x \in Range(Tail(toMain)) : ~Clash(Head(toMain), x)
    BY <1>2, ReceiveOrdered
  <1>5. Unanswered \in SUBSET Requests /\ Range(toRenderer) \in SUBSET Responses
    BY <1>2, <1>3, RangeOfSeq DEF Unanswered
  <1>6. r \in Range(toMain)  BY <1>3
  <1>7. RequestFine(r, desk, front, Range(toRenderer), written)  BY <1>1, <1>6 DEF Sound, AllFine
  <1>8. \A y \in Range(toRenderer) : ~Clash(r, y)  BY <1>1, <1>6 DEF Sound, NoneClash
  <1>9. NoneClash(Unanswered, Range(toRenderer))  BY <1>1, <1>3 DEF Sound, NoneClash, Unanswered
  <1> QED  BY <1>2, <1>3, <1>4, <1>5, <1>6, <1>7, <1>8, <1>9 DEF Unanswered

\* An answer takes the place of its request, and a packet follows what was sent before it.
Replies(r, a) == \/ r.type = "start" /\ a.type \in {"started", "refused"}
                 \/ r.type = "cancel" /\ a.type = "canceled"
                 \/ r.type = "ask" /\ a.type = "answered"
\* An answer is sent after its request was received.
LEMMA AnswerOrdered ==
    ASSUME NEW list \in Seq(Responses), Ordered(list), NEW r, NEW a \in Responses, Replies(r, a),
           \A y \in Range(list) : ~Clash(r, y) /\ (y.type \in Packets => ~Clash(y, a)),
           NEW M \in SUBSET Requests, \A x \in M : ~Clash(r, x), NoneClash(M, Range(list))
    PROVE  /\ Append(list, a) \in Seq(Responses) /\ Range(Append(list, a)) = Range(list) \cup {a}
           /\ Ordered(Append(list, a)) /\ NoneClash(M, Range(list) \cup {a})
  <1>1. \A y : y.type \notin Packets /\ ~Clash(r, y) => ~Clash(y, a)
    BY DEF Replies, Clash, Packets, Ends
  <1>2. \A y \in Range(list) : ~Clash(y, a)  BY <1>1
  <1>3. \A x \in M : x.type \notin Packets  BY DEF Requests, Packets, Ends
  <1>4. \A x \in M : ~Clash(x, a)  BY <1>1, <1>3
  <1>5. NoneClash(M, Range(list) \cup {a})  BY <1>4 DEF NoneClash
  <1>6. Append(list, a) \in Seq(Responses) /\ Range(Append(list, a)) = Range(list) \cup {a} /\ Ordered(Append(list, a))
    BY <1>2, SendEnds
  <1> QED  BY <1>5, <1>6

\* A packet is sent.
LEMMA PacketOrdered ==
    ASSUME NEW list \in Seq(Responses), Ordered(list), NEW p \in Responses, p.type \in Packets,
           NEW M \in SUBSET Requests, NoneClash(M, Range(list))
    PROVE  /\ Append(list, p) \in Seq(Responses) /\ Range(Append(list, p)) = Range(list) \cup {p}
           /\ Ordered(Append(list, p)) /\ NoneClash(M, Range(list) \cup {p})
  <1>1. \A y : ~Clash(y, p)  BY DEF Clash, Packets, Ends
  <1>2. NoneClash(M, Range(list) \cup {p})  BY <1>1 DEF NoneClash
  <1>3. Append(list, p) \in Seq(Responses) /\ Range(Append(list, p)) = Range(list) \cup {p} /\ Ordered(Append(list, p))
    BY <1>1, SendEnds
  <1> QED  BY <1>2, <1>3

\* The main process answers a request or broadcasts a packet, and no stream starts.
Moves(R) ==
    \A t \in Messages :
      /\ HasController(t)' => HasController(t) /\ current' = current
      /\ streams'[t] = "none" <=> streams[t] = "none"
      /\ streams'[t] = "running" => streams[t] = "running"
      /\ streams[t] = "over" => streams'[t] = "over"
      /\ streams'[t] = "over" => streams[t] = "over" \/ Announces(t, R)
\* A step of the main process that starts no stream: what it answers or broadcasts decides.
LEMMA MoveKeeps ==
    ASSUME DeskInv, MainTyped', Channels', UNCHANGED <<desk, front, posted, refused, written>>,
           NEW M, NEW R, M = Range(toMain'), R = Range(toRenderer'),
           M \subseteq Range(toMain), Range(toRenderer) \subseteq R, NoneClash(M, R), Moves(R),
           \A x \in Range(toMain) \ M : /\ x.type = "start" => Answer("refused", x.stream, 0) \in R
                                        /\ x.type = "ask" => \E y \in R : ~NotAsked(y),
           \A x \in R \ Range(toRenderer) :
             /\ ResponseFine(x, desk, front, Range(toRenderer), written)'
             /\ x.type = "answered" => x.stream = 0 \/ (Idle(desk) /\ ~Free)
    PROVE  DeskInv'
  <1>1. Sound(desk, front, Range(toMain), Range(toRenderer), refused, written)
        /\ Settled(desk, front, Range(toMain), Range(toRenderer))
      BY DEF DeskInv
  <1>2. desk \in Desks /\ front \in BOOLEAN /\ Shape(desk)
        /\ AllFine(desk, front, Range(toMain), Range(toRenderer), written)
        /\ Opened(desk, Range(toMain), Range(toRenderer)) /\ Owned(desk) /\ Queued(desk, written)
        /\ Accounted(desk, Range(toMain), Range(toRenderer), refused)
      BY <1>1 DEF Sound
  <1>3. UNCHANGED desk /\ UNCHANGED front /\ UNCHANGED posted /\ UNCHANGED refused /\ UNCHANGED written  OBVIOUS
  <1>4. Free => Free'  BY DEF Moves, Free
  <1>5. \A s : OnlyRuns(s) => OnlyRuns(s)'  BY DEF Moves, OnlyRuns
  <1>6. \A s : Lives(s, Range(toRenderer)) => Lives(s, Range(toRenderer))'
    <2> SUFFICES ASSUME NEW s, Lives(s, Range(toRenderer)) PROVE Lives(s, Range(toRenderer))'  OBVIOUS
    <2>1. s \in Messages /\ streams[s] # "none" /\ (streams[s] = "over" => Announces(s, Range(toRenderer)))
      BY DEF Lives
    <2>2. streams'[s] # "none" /\ (streams'[s] = "over" => streams[s] = "over" \/ Announces(s, R))
      BY <2>1 DEF Moves
    <2>3. Announces(s, Range(toRenderer)) => Announces(s, R)  BY DEF Announces
    <2> QED  BY <2>1, <2>2, <2>3 DEF Lives, Announces
  <1>7. \A m : Steers(m, desk, front, Range(toRenderer), written) => Steers(m, desk, front, Range(toRenderer), written)'
    <2> SUFFICES ASSUME NEW m, Steers(m, desk, front, Range(toRenderer), written)
                 PROVE  Steers(m, desk, front, Range(toRenderer), written)'
        OBVIOUS
    <2>1. Idle(desk) => Free  BY DEF Steers
    <2>2. \A x \in R : x.type = "answered" => x.stream = 0  BY <2>1 DEF Steers
    <2> QED  BY <1>3, <1>4, <2>2 DEF Steers, Idle
  <1>8. ASSUME NEW x \in M PROVE RequestFine(x, desk, front, Range(toRenderer), written)'
    <2>1. RequestFine(x, desk, front, Range(toRenderer), written)  BY <1>2 DEF AllFine
    <2>2. CASE x.type = "start"
      <3>1. x = StartRequest(x.stream) /\ x.stream # 0 /\ desk.active = Placeholder(x.stream)
            /\ streams[x.stream] = "none" /\ Free
          BY <2>1, <2>2 DEF RequestFine, AskRequest
      <3>2. x.stream \in Messages
        <4>1. x.stream \in Numbers  BY <1>2, <3>1 DEF Desks, Placeholder
        <4> QED  BY <3>1, <4>1 DEF Numbers, Messages
      <3>3. streams'[x.stream] = "none"  BY <3>1, <3>2 DEF Moves
      <3> QED  BY <1>3, <1>4, <2>2, <3>1, <3>3 DEF RequestFine
    <2>3. CASE x.type # "start"  BY <1>3, <1>5, <1>7, <2>1, <2>3 DEF RequestFine, Idle
    <2> QED  BY <2>2, <2>3
  <1>9. ASSUME NEW x \in Range(toRenderer) PROVE ResponseFine(x, desk, front, Range(toRenderer), written)'
    <2>1. ResponseFine(x, desk, front, Range(toRenderer), written)  BY <1>2 DEF AllFine
    <2>2. CASE x.type = "started"  BY <1>3, <1>6, <2>1, <2>2 DEF ResponseFine, Packets, Ends
    <2>3. CASE x.type = "refused"
      <3>1. x.stream = 0 /\ x.id # 0 /\ desk.active = Placeholder(x.id) /\ streams[x.id] = "none" /\ Free
        BY <2>1, <2>3 DEF ResponseFine, Packets, Ends
      <3>2. x.id \in Messages
        <4>1. x.id \in Numbers  BY <1>2, <3>1 DEF Desks, Placeholder
        <4> QED  BY <3>1, <4>1 DEF Numbers, Messages
      <3>3. streams'[x.id] = "none"  BY <3>1, <3>2 DEF Moves
      <3> QED  BY <1>3, <1>4, <2>3, <3>1, <3>3 DEF ResponseFine
    <2>4. CASE x.type = "canceled"  BY <1>3, <1>4, <1>7, <2>1, <2>4 DEF ResponseFine, Packets, Ends
    <2>5. CASE x.type = "answered"  BY <1>3, <1>5, <1>6, <2>1, <2>5 DEF ResponseFine, Packets, Ends, Idle
    <2>6. CASE x.type \notin {"started", "refused", "canceled", "answered"}
      <3>1. /\ x.type \in Packets /\ x.id = 0 /\ x.stream # 0 /\ streams[x.stream] # "none"
            /\ x.type = "complete" => streams[x.stream] # "running"
            /\ x.type \in Ends => streams[x.stream] = "over"
        BY <2>1, <2>6 DEF ResponseFine
      <3>2. x.stream \in Messages
        <4>1. x \in Responses  BY RangeOfSeq DEF DeskInv, Channels
        <4> QED  BY <3>1, <4>1 DEF Responses, Numbers, Messages
      <3>3. /\ streams'[x.stream] # "none"
            /\ x.type = "complete" => streams'[x.stream] # "running"
            /\ x.type \in Ends => streams'[x.stream] = "over"
        BY <3>1, <3>2 DEF Moves
      <3> QED  BY <3>1, <3>3 DEF ResponseFine
    <2> QED  BY <2>2, <2>3, <2>4, <2>5, <2>6
  <1>10. AllFine(desk, front, Range(toMain), Range(toRenderer), written)'  BY <1>8, <1>9 DEF AllFine
  <1>11. \A k : StartRequest(k) \in Range(toMain) => StartRequest(k) \in M \/ Answer("refused", k, 0) \in R
    BY DEF StartRequest
  <1>12. Opened(desk, Range(toMain), Range(toRenderer))'
    BY <1>2, <1>3, <1>6, <1>11 DEF Opened, Opening
  <1>13. Owned(desk)'
    <2> SUFFICES ASSUME NEW t \in Messages, HasController(t)'
                 PROVE  current' = t /\ (streams'[t] = "running" \/ ~Idle(desk) => desk.active.stream = t)
        BY <1>3 DEF Owned, Idle
    <2> QED  BY <1>2 DEF Owned, Moves
  <1>14. Accounted(desk, Range(toMain), Range(toRenderer), refused)'
    <2>1. {k \in Messages : streams'[k] # "none"} = {k \in Messages : streams[k] # "none"}  BY DEF Moves
    <2>2. \A k : Pending(k, Range(toMain), Range(toRenderer)) => Pending(k, M, R)  BY <1>11 DEF Pending
    <2> QED  BY <1>2, <1>3, <2>1, <2>2 DEF Accounted, Pending
  <1>15. Queued(desk, written)' /\ Shape(desk)' /\ desk' \in Desks /\ front' \in BOOLEAN
    BY <1>2, <1>3 DEF Queued, Shape
  <1>16. NoneClash(Range(toMain), Range(toRenderer))'  BY DEF NoneClash
  <1>17. Sound(desk, front, Range(toMain), Range(toRenderer), refused, written)'
    BY <1>10, <1>12, <1>13, <1>14, <1>15, <1>16 DEF Sound
  <1>18. Settled(desk, front, Range(toMain), Range(toRenderer))'
    <2> SUFFICES ASSUME front, Idle(desk) PROVE desk.queue = <<>> /\ (Free' \/ \E x \in M \cup R : ~NotAsked(x))
        BY <1>3 DEF Settled, Idle
    <2>1. desk.queue = <<>> /\ (Free \/ \E x \in Range(toMain) \cup Range(toRenderer) : ~NotAsked(x))  BY <1>1 DEF Settled
    <2>2. ASSUME NEW x \in Range(toMain), ~NotAsked(x) PROVE \E y \in M \cup R : ~NotAsked(y)
      <3>1. x.type = "ask"
        <4>1. x \in Requests  BY RangeOfSeq DEF DeskInv, Channels
        <4> QED  BY <2>2, <4>1 DEF Requests, NotAsked
      <3> QED  BY <2>2, <3>1
    <2> QED  BY <1>4, <2>1, <2>2
  <1> QED  BY <1>17, <1>18 DEF DeskInv

\* A list ends with its last element.
LEMMA LastSplits ==
    ASSUME NEW S, NEW list \in Seq(S), list # <<>>, NEW x, x = Last(list)
    PROVE  x \in S /\ \E rest \in Seq(S) : list = Append(rest, x)
  <1>1. PICK n : n = Len(list)  OBVIOUS
  <1>2. n \in Nat /\ n > 0 /\ DOMAIN list = 1 .. n /\ \A i \in 1 .. n : list[i] \in S
    BY <1>1, EmptySeq, LenProperties, ElementOfSeq
  <1>3. PICK rest : rest = [i \in 1 .. n - 1 |-> list[i]]  OBVIOUS
  <1>4. rest \in Seq(S) /\ Len(rest) = n - 1
    <2>1. \A i \in 1 .. n - 1 : i \in 1 .. n  BY <1>2
    <2>2. \A i \in 1 .. n - 1 : list[i] \in S  BY <1>2, <2>1
    <2>3. n - 1 \in Nat  BY <1>2
    <2> QED  BY <1>3, <2>2, <2>3
  <1>5. x = list[n] /\ x \in S  BY <1>1, <1>2 DEF Last
  <1>6. PICK more : more = Append(rest, x)  OBVIOUS
  <1>7. /\ more \in Seq(S) /\ Len(more) = n /\ more[n] = x
        /\ \A i \in 1 .. n - 1 : more[i] = rest[i]
    <2>1. /\ Append(rest, x) \in Seq(S) /\ Len(Append(rest, x)) = Len(rest) + 1
          /\ \A i \in 1 .. Len(rest) : Append(rest, x)[i] = rest[i]
          /\ Append(rest, x)[Len(rest) + 1] = x
      BY <1>4, <1>5, AppendProperties
    <2>2. Len(rest) + 1 = n  BY <1>2, <1>4
    <2> QED  BY <1>4, <1>6, <2>1, <2>2
  <1>8. ASSUME NEW i \in 1 .. n PROVE more[i] = list[i]
    <2>1. CASE i = n  BY <1>5, <1>7, <2>1
    <2>2. CASE i # n
      <3>1. i \in 1 .. n - 1  BY <1>2, <2>2
      <3> QED  BY <1>3, <1>7, <3>1
    <2> QED  BY <2>1, <2>2
  <1>9. more = list  BY <1>1, <1>2, <1>7, <1>8, SeqEqual
  <1> QED  BY <1>4, <1>5, <1>6, <1>9

\* A start that is answered with the stream of its message, which nothing holds up: a stream
\* that runs would be reused, but none does.
LEMMA StartKeeps == ASSUME MaxMessages \in Nat, DeskInv, StartStream PROVE DeskInv'
  <1> DEFINE R == Range(toRenderer)
  <1>1. PICK r : r = Head(toMain)  OBVIOUS
  <1>2. toMain # <<>> /\ r.type = "start" /\ UNCHANGED <<desk, front, refused, written>>
    <2>1. Requested("start") /\ UNCHANGED <<desk, front, refused, written>>  BY DEF StartStream
    <2>2. toMain # <<>> /\ Head(toMain).type = "start"  BY <2>1 DEF Requested
    <2> QED  BY <1>1, <2>1, <2>2
  <1>3. /\ r \in Requests
        /\ Tail(toMain) \in Seq(Requests) /\ Ordered(Tail(toMain))
        /\ Range(toMain) = Unanswered \cup {r}
        /\ \A x \in Unanswered : ~Clash(r, x)
        /\ \A y \in R : ~Clash(r, y)
        /\ RequestFine(r, desk, front, R, written)
        /\ Unanswered \in SUBSET Requests
        /\ toRenderer \in Seq(Responses) /\ Ordered(toRenderer)
        /\ NoneClash(Unanswered, R)
    BY <1>1, <1>2, RequestFacts
  <1>4. PICK m : m = r.stream  OBVIOUS
  <1>5. r = StartRequest(m) /\ m # 0 /\ desk.active = Placeholder(m) /\ streams[m] = "none" /\ Free
    BY <1>2, <1>3, <1>4 DEF RequestFine, AskRequest
  <1>6. m \in Messages /\ m \in Numbers  BY <1>3, <1>4, <1>5 DEF Requests, Numbers, Messages
  <1>7. r.id = m  BY <1>5 DEF StartRequest
  <1>8. /\ Channels /\ MainTyped /\ Sound(desk, front, Range(toMain), R, refused, written)  BY DEF DeskInv
  <1>9. ~HasController(current)
    <2>1. current \in Messages \/ current = 0  BY <1>8 DEF MainTyped, Numbers, Messages
    <2> QED  BY <1>5, <2>1 DEF Free, HasController
  <1>10. PICK a : a = Answer("started", m, m)  OBVIOUS
  <1>11. /\ streams' = [streams EXCEPT ![m] = "running"] /\ current' = m /\ posted' = Append(posted, m)
         /\ toRenderer' = Append(toRenderer, a) /\ toMain' = Tail(toMain)
    BY <1>1, <1>4, <1>7, <1>9, <1>10 DEF StartStream, StreamReply
  <1>12. a \in Responses /\ a.type = "started"  BY <1>6, <1>10 DEF Answer, Responses
  <1>13. desk \in Desks /\ front \in BOOLEAN /\ Shape(desk) /\ AllFine(desk, front, Range(toMain), R, written)
         /\ Opened(desk, Range(toMain), R) /\ Queued(desk, written) /\ Accounted(desk, Range(toMain), R, refused)
      BY <1>8 DEF Sound
  <1>14. \A y \in R : y.type \in Packets => y.stream # m
    <2> SUFFICES ASSUME NEW y \in R, y.type \in Packets PROVE streams[y.stream] # "none"  BY <1>5
    <2>1. ResponseFine(y, desk, front, R, written)  BY <1>13 DEF AllFine
    <2> QED  BY <2>1 DEF ResponseFine, Packets, Ends
  <1>15. /\ Append(toRenderer, a) \in Seq(Responses) /\ Range(Append(toRenderer, a)) = R \cup {a}
         /\ Ordered(Append(toRenderer, a)) /\ NoneClash(Unanswered, R \cup {a})
    <2>1. Replies(r, a)  BY <1>2, <1>12 DEF Replies
    <2>2. \A y \in R : ~Clash(r, y) /\ (y.type \in Packets => ~Clash(y, a))
      <3>1. a.stream = m  BY <1>10 DEF Answer
      <3> QED  BY <1>3, <1>12, <1>14, <3>1 DEF Clash, Packets, Ends
    <2> QED  BY <1>3, <1>12, <2>1, <2>2, AnswerOrdered
  <1>16. Range(toMain') = Unanswered /\ Range(toRenderer') = R \cup {a}  BY <1>11, <1>15 DEF Unanswered
  <1>17. Channels'  BY <1>3, <1>11, <1>15 DEF Channels
  <1>18. MainTyped'
    <2>1. streams' \in [Messages -> StreamStates]  BY <1>8, <1>11 DEF MainTyped, StreamStates
    <2>2. Append(posted, m) \in Seq(Messages)  BY <1>6, <1>8, AppendRange DEF MainTyped
    <2> QED  BY <1>2, <1>6, <1>8, <1>11, <2>1, <2>2 DEF MainTyped
  <1>19. \A t \in Messages : streams'[t] = IF t = m THEN "running" ELSE streams[t]  BY <1>8, <1>11 DEF MainTyped
  <1>20. \A t \in Messages : HasController(t)' => t = m  BY <1>5, <1>19 DEF Free, HasController
  <1>21. desk.active.stream = m /\ desk.active.listener = 0 /\ ~Idle(desk) /\ Opening(desk)
    BY <1>5 DEF Placeholder, Idle, NoStream, Opening
  <1>22. NoSteer(Range(toMain), R)  BY <1>13, <1>21, SteerEmpties
  <1>23. ASSUME NEW x \in Unanswered PROVE RequestFine(x, desk, front, Range(toRenderer), written)'
    <2>1. RequestFine(x, desk, front, R, written) /\ (x.type = "cancel" => x.id = 0)
      BY <1>3, <1>13, <1>22 DEF AllFine, NoSteer
    <2>2. x.type # "start"  BY <1>2, <1>3 DEF Clash
    <2> QED  BY <1>2, <1>21, <2>1, <2>2 DEF RequestFine
  <1>24. ASSUME NEW x \in R PROVE ResponseFine(x, desk, front, Range(toRenderer), written)'
    <2>1. ResponseFine(x, desk, front, R, written) /\ (x.type = "canceled" => x.id = 0)
      BY <1>13, <1>22 DEF AllFine, NoSteer
    <2>2. x.type \notin {"started", "refused"}  BY <1>2, <1>3 DEF Clash
    <2>3. x.type # "answered"  BY <1>21, <2>1, <2>2 DEF ResponseFine, Packets, Ends
    <2>4. CASE x.type = "canceled"  BY <1>2, <2>1, <2>4 DEF ResponseFine, Packets, Ends
    <2>5. CASE x.type # "canceled"
      <3>1. /\ x.type \in Packets /\ x.id = 0 /\ x.stream # 0 /\ streams[x.stream] # "none"
            /\ x.type = "complete" => streams[x.stream] # "running"
            /\ x.type \in Ends => streams[x.stream] = "over"
        BY <2>1, <2>2, <2>3, <2>5 DEF ResponseFine
      <3>2. x.stream \in Messages
        <4>1. x \in Responses  BY <1>8, RangeOfSeq DEF Channels
        <4> QED  BY <3>1, <4>1 DEF Responses, Numbers, Messages
      <3>3. streams'[x.stream] = streams[x.stream]  BY <1>14, <1>19, <3>1, <3>2
      <3> QED  BY <3>1, <3>3 DEF ResponseFine
    <2> QED  BY <2>4, <2>5
  <1>25. ResponseFine(a, desk, front, Range(toRenderer), written)'
    <2>1. Lives(m, Range(toRenderer))'  BY <1>6, <1>19 DEF Lives
    <2> QED  BY <1>2, <1>5, <1>10, <2>1 DEF ResponseFine, Answer
  <1>26. AllFine(desk, front, Range(toMain), Range(toRenderer), written)'
    BY <1>16, <1>23, <1>24, <1>25 DEF AllFine
  <1>27. Opened(desk, Range(toMain), Range(toRenderer))'
    BY <1>2, <1>10, <1>13, <1>16, <1>21 DEF Opened, Opening
  <1>28. Owned(desk)'  BY <1>2, <1>11, <1>20, <1>21 DEF Owned
  <1>29. Accounted(desk, Range(toMain), Range(toRenderer), refused)'
    <2>1. posted \in Seq(Messages) /\ desk.taken \in Seq(Messages) /\ desk.taken # <<>> /\ Last(desk.taken) = m
      BY <1>8, <1>13, <1>21 DEF MainTyped, Desks, Opened
    <2>2. Range(posted) = {k \in Messages : streams[k] # "none"} /\ posted = Only(desk.taken, Range(posted))
      BY <1>13 DEF Accounted
    <2>3. Range(posted') = Range(posted) \cup {m}
      <3>1. Range(Append(posted, m)) = Range(posted) \cup {m}  BY <1>6, <2>1, AppendRange
      <3> QED  BY <1>11, <3>1
    <2>4. Range(posted') = {k \in Messages : streams'[k] # "none"}  BY <1>6, <1>19, <2>2, <2>3
    <2>5. posted' = Only(desk.taken, Range(posted) \cup {m})
      <3>0. PICK taken : taken = desk.taken  OBVIOUS
      <3>1. PICK rest \in Seq(Messages) : desk.taken = Append(rest, m)
        <4>1. taken \in Seq(Messages) /\ taken # <<>> /\ m = Last(taken)  BY <2>1, <3>0
        <4>2. \E rest \in Seq(Messages) : taken = Append(rest, m)  BY <4>1, LastSplits
        <4> QED  BY <3>0, <4>2
      <3>2. m \notin Range(posted)  BY <1>5, <2>2
      <3>3. m \notin Range(rest)
        <4>1. IsInjective(Append(rest, m))  BY <1>13, <3>1 DEF Queued
        <4>2. Len(rest) \in Nat /\ DOMAIN rest = 1 .. Len(rest) /\ DOMAIN Append(rest, m) = 1 .. Len(rest) + 1
              /\ Append(rest, m)[Len(rest) + 1] = m
              /\ \A i \in 1 .. Len(rest) : Append(rest, m)[i] = rest[i]
          BY <1>6, AppendProperties
        <4>3. \A i \in 1 .. Len(rest) : i \in 1 .. Len(rest) + 1 /\ i # Len(rest) + 1  BY <4>2
        <4>4. Len(rest) + 1 \in 1 .. Len(rest) + 1  BY <4>2
        <4> SUFFICES ASSUME NEW i \in 1 .. Len(rest), rest[i] = m PROVE FALSE  BY <4>2 DEF Range
        <4> QED  BY <4>1, <4>2, <4>3, <4>4 DEF IsInjective
      <3>4. Only(Append(rest, m), Range(posted)) = Only(rest, Range(posted))  BY <1>6, <3>2, OnlyAppend
      <3>5. Only(Append(rest, m), Range(posted) \cup {m}) = Append(Only(rest, Range(posted) \cup {m}), m)
        BY <1>6, OnlyAppend
      <3>6. Only(rest, Range(posted) \cup {m}) = Only(rest, Range(posted))
        <4>1. Range(rest) \cap (Range(posted) \cup {m}) = Range(rest) \cap Range(posted)  BY <3>3
        <4> QED  BY <4>1, OnlySame
      <3>7. posted = Only(rest, Range(posted))  BY <2>2, <3>1, <3>4
      <3>8. Only(desk.taken, Range(posted) \cup {m}) = Append(posted, m)  BY <3>1, <3>5, <3>6, <3>7
      <3> QED  BY <1>11, <3>8
    <2>6. ASSUME NEW k \in Range(desk.taken) PROVE k \in Range(posted) \cup {m} \cup refused \/ Pending(k, Unanswered, R \cup {a})
      <3>1. k \in Range(posted) \cup refused \/ Pending(k, Range(toMain), R)  BY <1>13 DEF Accounted
      <3>2. k # m => StartRequest(k) # r  BY <1>5 DEF StartRequest
      <3> QED  BY <1>3, <3>1, <3>2 DEF Pending
    <2>7. posted' = Only(desk.taken, Range(posted'))  BY <2>3, <2>5
    <2> QED  BY <1>2, <1>16, <2>3, <2>4, <2>6, <2>7 DEF Accounted, Pending
  <1>30. NoneClash(Range(toMain), Range(toRenderer))'  BY <1>15, <1>16 DEF NoneClash
  <1>31. Queued(desk, written)' /\ Shape(desk)' /\ desk' \in Desks /\ front' \in BOOLEAN
    BY <1>2, <1>13 DEF Queued, Shape
  <1>32. Sound(desk, front, Range(toMain), Range(toRenderer), refused, written)'
    BY <1>26, <1>27, <1>28, <1>29, <1>30, <1>31 DEF Sound
  <1>33. Settled(desk, front, Range(toMain), Range(toRenderer))'  BY <1>2, <1>21 DEF Settled, Idle
  <1> QED  BY <1>17, <1>18, <1>32, <1>33 DEF DeskInv

\* A start that is refused.
LEMMA RefuseKeeps == ASSUME DeskInv, RefuseStream PROVE DeskInv'
  <1> DEFINE R == Range(toRenderer)
  <1>1. PICK r : r = Head(toMain)  OBVIOUS
  <1>2. toMain # <<>> /\ r.type = "start" /\ UNCHANGED <<desk, front, streams, current, posted, refused, written>>
    <2>1. Requested("start") /\ UNCHANGED <<desk, front, streams, current, posted, refused, written>>  BY DEF RefuseStream
    <2>2. toMain # <<>> /\ Head(toMain).type = "start"  BY <2>1 DEF Requested
    <2> QED  BY <1>1, <2>1, <2>2
  <1>3. /\ r \in Requests
        /\ Tail(toMain) \in Seq(Requests) /\ Ordered(Tail(toMain))
        /\ Range(toMain) = Unanswered \cup {r}
        /\ \A x \in Unanswered : ~Clash(r, x)
        /\ \A y \in R : ~Clash(r, y)
        /\ RequestFine(r, desk, front, R, written)
        /\ Unanswered \in SUBSET Requests
        /\ toRenderer \in Seq(Responses) /\ Ordered(toRenderer)
        /\ NoneClash(Unanswered, R)
    BY <1>1, <1>2, RequestFacts
  <1>4. r = StartRequest(r.stream) /\ r.stream # 0 /\ desk.active = Placeholder(r.stream)
        /\ streams[r.stream] = "none" /\ Free
    BY <1>2, <1>3 DEF RequestFine, AskRequest
  <1>5. PICK a : a = Answer("refused", r.stream, 0)  OBVIOUS
  <1>6. a \in Responses /\ a.type = "refused"
    <2>1. r.stream \in Numbers /\ 0 \in Numbers
      <3>1. r.stream \in Numbers  BY <1>3 DEF Requests
      <3>2. MaxMessages \in Nat  BY MessagesAssumption
      <3> QED  BY <3>1, <3>2 DEF Numbers
    <2> QED  BY <1>5, <2>1 DEF Answer, Responses
  <1>7. toRenderer' = Append(toRenderer, a) /\ toMain' = Tail(toMain)
    <2>1. r.id = r.stream  BY <1>4 DEF StartRequest
    <2> QED  BY <1>1, <1>5, <2>1 DEF RefuseStream
  <1>8. /\ Append(toRenderer, a) \in Seq(Responses) /\ Range(Append(toRenderer, a)) = R \cup {a}
        /\ Ordered(Append(toRenderer, a)) /\ NoneClash(Unanswered, R \cup {a})
    <2>1. Replies(r, a)  BY <1>2, <1>6 DEF Replies
    <2>2. \A y \in R : ~Clash(r, y) /\ (y.type \in Packets => ~Clash(y, a))
      BY <1>3, <1>6 DEF Clash, Packets, Ends
    <2> QED  BY <1>3, <1>6, <2>1, <2>2, AnswerOrdered
  <1>9. Range(toMain') = Unanswered /\ Range(toRenderer') = R \cup {a}  BY <1>7, <1>8 DEF Unanswered
  <1>10. Channels'  BY <1>3, <1>7, <1>8 DEF Channels
  <1>11. MainTyped'  BY <1>2 DEF DeskInv, MainTyped
  <1>12. Moves(R \cup {a})  BY <1>2 DEF Moves, HasController
  <1>13. ASSUME NEW x \in Range(toMain) \ Unanswered
         PROVE  /\ x.type = "start" => Answer("refused", x.stream, 0) \in R \cup {a}
                /\ x.type = "ask" => \E y \in R \cup {a} : ~NotAsked(y)
    <2>1. x = r  BY <1>3
    <2> QED  BY <1>2, <1>5, <2>1
  <1>14. ResponseFine(a, desk, front, Range(toRenderer), written)'
    <2>1. Free'  BY <1>2, <1>4 DEF Free, HasController
    <2> QED  BY <1>2, <1>4, <1>5, <2>1 DEF ResponseFine, Answer
  <1>15. UNCHANGED <<desk, front, posted, refused, written>>  BY <1>2
  <1>16. Unanswered \subseteq Range(toMain) /\ R \subseteq R \cup {a}  BY <1>3
  <1>17. ASSUME NEW x \in (R \cup {a}) \ Range(toRenderer)
         PROVE  /\ ResponseFine(x, desk, front, Range(toRenderer), written)'
                /\ x.type = "answered" => x.stream = 0 \/ (Idle(desk) /\ ~Free)
    BY <1>6, <1>14
  <1> HIDE DEF R
  <1> QED  BY <1>8, <1>9, <1>10, <1>11, <1>12, <1>13, <1>15, <1>16, <1>17, MoveKeeps DEF R

\* The question is answered with the stream that runs, if one does.
LEMMA AskKeeps == ASSUME DeskInv, GetActiveStream PROVE DeskInv'
  <1> DEFINE R == Range(toRenderer)
  <1>1. PICK r : r = Head(toMain)  OBVIOUS
  <1>2. toMain # <<>> /\ r.type = "ask" /\ UNCHANGED <<desk, front, streams, current, posted, refused, written>>
    <2>1. Requested("ask") /\ UNCHANGED <<desk, front, streams, current, posted, refused, written>>  BY DEF GetActiveStream
    <2>2. toMain # <<>> /\ Head(toMain).type = "ask"  BY <2>1 DEF Requested
    <2> QED  BY <1>1, <2>1, <2>2
  <1>3. /\ r \in Requests
        /\ Tail(toMain) \in Seq(Requests) /\ Ordered(Tail(toMain))
        /\ Range(toMain) = Unanswered \cup {r}
        /\ \A x \in Unanswered : ~Clash(r, x)
        /\ \A y \in R : ~Clash(r, y)
        /\ RequestFine(r, desk, front, R, written)
        /\ Unanswered \in SUBSET Requests
        /\ toRenderer \in Seq(Responses) /\ Ordered(toRenderer)
        /\ NoneClash(Unanswered, R)
    BY <1>1, <1>2, RequestFacts
  <1>4. front /\ Idle(desk)  BY <1>2, <1>3 DEF RequestFine
  <1>5. PICK s : s = IF HasController(current) THEN current ELSE 0  OBVIOUS
  <1>6. PICK a : a = Answer("answered", 0, s)  OBVIOUS
  <1>7. toRenderer' = Append(toRenderer, a) /\ toMain' = Tail(toMain)  BY <1>5, <1>6 DEF GetActiveStream
  <1>8. MainTyped /\ Owned(desk) /\ AllFine(desk, front, Range(toMain), R, written)  BY DEF DeskInv, Sound
  <1>9. s \in Numbers /\ OnlyRuns(s) /\ (s # 0 => s \in Messages /\ HasController(s))
    <2>1. MaxMessages \in Nat /\ current \in Numbers  BY <1>8, MessagesAssumption DEF MainTyped
    <2>2. s \in Numbers /\ (s # 0 => s \in Messages /\ HasController(s))
      BY <1>5, <2>1 DEF Numbers, Messages
    <2>3. OnlyRuns(s)
      <3> SUFFICES ASSUME NEW t \in Messages, HasController(t) PROVE t = s  BY DEF OnlyRuns
      <3> QED  BY <1>5, <1>8 DEF Owned
    <2> QED  BY <2>2, <2>3
  <1>10. a \in Responses /\ a.type = "answered" /\ a.id = 0 /\ a.stream = s
    <2>1. 0 \in Numbers  BY MessagesAssumption DEF Numbers
    <2> QED  BY <1>6, <1>9, <2>1 DEF Answer, Responses
  <1>11. \A y \in R : y.type \in Ends => y.stream # s
    <2>0. \A y \in R : y.type \in Ends => y.stream # 0
      <3> SUFFICES ASSUME NEW y \in R, y.type \in Ends PROVE y.stream # 0  OBVIOUS
      <3>1. ResponseFine(y, desk, front, R, written)  BY <1>8 DEF AllFine
      <3> QED  BY <3>1 DEF ResponseFine, Packets, Ends
    <2> SUFFICES ASSUME NEW y \in R, y.type \in Ends, s # 0 PROVE y.stream # s  BY <2>0
    <2>1. ResponseFine(y, desk, front, R, written)  BY <1>8 DEF AllFine
    <2>2. streams[y.stream] = "over"  BY <2>1 DEF ResponseFine, Packets, Ends
    <2> QED  BY <1>9, <2>2 DEF HasController
  <1>12. /\ Append(toRenderer, a) \in Seq(Responses) /\ Range(Append(toRenderer, a)) = R \cup {a}
         /\ Ordered(Append(toRenderer, a)) /\ NoneClash(Unanswered, R \cup {a})
    <2>1. Replies(r, a)  BY <1>2, <1>10 DEF Replies
    <2>2. \A y \in R : ~Clash(r, y) /\ (y.type \in Packets => ~Clash(y, a))
      BY <1>3, <1>10, <1>11 DEF Clash, Packets, Ends
    <2> QED  BY <1>3, <1>10, <2>1, <2>2, AnswerOrdered
  <1>13. Range(toMain') = Unanswered /\ Range(toRenderer') = R \cup {a}  BY <1>7, <1>12 DEF Unanswered
  <1>14. Channels'  BY <1>3, <1>7, <1>12 DEF Channels
  <1>15. MainTyped'  BY <1>2, <1>8 DEF MainTyped
  <1>16. Moves(R \cup {a})  BY <1>2 DEF Moves, HasController
  <1>17. ASSUME NEW x \in Range(toMain) \ Unanswered
         PROVE  /\ x.type = "start" => Answer("refused", x.stream, 0) \in R \cup {a}
                /\ x.type = "ask" => \E y \in R \cup {a} : ~NotAsked(y)
    <2>1. x = r  BY <1>3
    <2>2. ~NotAsked(a)  BY <1>10 DEF NotAsked
    <2> QED  BY <1>2, <2>1, <2>2
  <1>18. ResponseFine(a, desk, front, Range(toRenderer), written)'
    <2>1. OnlyRuns(s)'  BY <1>2, <1>9 DEF OnlyRuns, HasController
    <2>2. s # 0 => Lives(s, Range(toRenderer))'  BY <1>2, <1>9 DEF Lives, HasController
    <2> QED  BY <1>2, <1>4, <1>10, <2>1, <2>2 DEF ResponseFine, Idle
  <1>19. s = 0 \/ (Idle(desk) /\ ~Free)  BY <1>4, <1>9 DEF Free
  <1>20. UNCHANGED <<desk, front, posted, refused, written>>  BY <1>2
  <1>21. Unanswered \subseteq Range(toMain) /\ R \subseteq R \cup {a}  BY <1>3
  <1>22. ASSUME NEW x \in (R \cup {a}) \ Range(toRenderer)
         PROVE  /\ ResponseFine(x, desk, front, Range(toRenderer), written)'
                /\ x.type = "answered" => x.stream = 0 \/ (Idle(desk) /\ ~Free)
    BY <1>10, <1>18, <1>19
  <1> HIDE DEF R
  <1> QED  BY <1>12, <1>13, <1>14, <1>15, <1>16, <1>17, <1>20, <1>21, <1>22, MoveKeeps DEF R

\* The controller of a stream is forgotten.
LEMMA ReleaseMoves ==
    ASSUME DeskInv, NEW s \in Messages, HasController(s), NEW v \in {"aborting", "over"},
           streams' = [streams EXCEPT ![s] = v], NEW R, v = "over" => Announces(s, R)
    PROVE  Free' /\ Moves(R) /\ streams' \in [Messages -> StreamStates] /\ streams'[s] = v
  <1>1. streams \in [Messages -> StreamStates] /\ Owned(desk)  BY DEF DeskInv, MainTyped, Sound
  <1>2. \A t \in Messages : streams'[t] = IF t = s THEN v ELSE streams[t]  BY <1>1
  <1>3. \A t \in Messages : HasController(t) => t = s  BY <1>1 DEF Owned
  <1>4. \A t \in Messages : ~HasController(t)'
    <2> SUFFICES ASSUME NEW t \in Messages, HasController(t)' PROVE FALSE  OBVIOUS
    <2>1. t # 0 /\ streams'[t] \in {"running", "closing"}  BY DEF HasController
    <2>2. CASE t = s  BY <1>2, <2>1, <2>2
    <2>3. CASE t # s
      <3>1. HasController(t)  BY <1>2, <2>1, <2>3 DEF HasController
      <3> QED  BY <1>3, <2>3, <3>1
    <2> QED  BY <2>2, <2>3
  <1>5. Free'  BY <1>4 DEF Free
  <1>6. streams[s] \in {"running", "closing"}  BY DEF HasController
  <1>7. Moves(R)  BY <1>2, <1>4, <1>6 DEF Moves
  <1>8. streams' \in [Messages -> StreamStates]  BY <1>1 DEF StreamStates
  <1> QED  BY <1>2, <1>5, <1>7, <1>8

\* A cancel is answered, which may come after the last packet of its stream.
LEMMA CancelStreamKeeps == ASSUME DeskInv, CancelStreamRequest PROVE DeskInv'
  <1> DEFINE R == Range(toRenderer)
  <1>1. PICK r : r = Head(toMain)  OBVIOUS
  <1>2. toMain # <<>> /\ r.type = "cancel" /\ UNCHANGED <<desk, front, posted, refused, written>>
        /\ toMain' = Tail(toMain)
    <2>1. Requested("cancel") /\ UNCHANGED <<desk, front, posted, refused, written>> /\ toMain' = Tail(toMain)
      BY DEF CancelStreamRequest
    <2>2. toMain # <<>> /\ Head(toMain).type = "cancel"  BY <2>1 DEF Requested
    <2> QED  BY <1>1, <2>1, <2>2
  <1>3. /\ r \in Requests
        /\ Tail(toMain) \in Seq(Requests) /\ Ordered(Tail(toMain))
        /\ Range(toMain) = Unanswered \cup {r}
        /\ \A x \in Unanswered : ~Clash(r, x)
        /\ \A y \in R : ~Clash(r, y)
        /\ RequestFine(r, desk, front, R, written)
        /\ Unanswered \in SUBSET Requests
        /\ toRenderer \in Seq(Responses) /\ Ordered(toRenderer)
        /\ NoneClash(Unanswered, R)
    BY <1>1, <1>2, RequestFacts
  <1>4. PICK s : s = r.stream  OBVIOUS
  <1>5. s # 0 /\ s \in Messages /\ s \in Numbers /\ (r.id # 0 => Steers(r.id, desk, front, R, written) /\ OnlyRuns(s))
    <2>1. s # 0 /\ (r.id # 0 => Steers(r.id, desk, front, R, written) /\ OnlyRuns(s))
      BY <1>2, <1>3, <1>4 DEF RequestFine, AskRequest
    <2>2. s \in Numbers  BY <1>3, <1>4 DEF Requests
    <2> QED  BY <2>1, <2>2, MessagesAssumption DEF Numbers, Messages
  <1>6. PICK a : a = Answer("canceled", r.id, 0)  OBVIOUS
  <1>7. a \in Responses /\ a.type = "canceled" /\ a.id = r.id /\ a.stream = 0 /\ Replies(r, a)
    <2>1. r.id \in Numbers /\ 0 \in Numbers  BY <1>3, MessagesAssumption DEF Requests, Numbers
    <2> QED  BY <1>2, <1>6, <2>1 DEF Answer, Responses, Replies
  <1>8. \A y : ~(y.type \in Packets /\ Clash(y, a))  BY <1>7 DEF Clash, Packets, Ends
  <1>9. UNCHANGED <<desk, front, posted, refused, written>>  BY <1>2
  <1>10. Unanswered \subseteq Range(toMain)  BY <1>3
  <1>11. Range(toMain') = Unanswered  BY <1>2 DEF Unanswered
  <1>12. /\ Append(toRenderer, a) \in Seq(Responses) /\ Range(Append(toRenderer, a)) = R \cup {a}
         /\ Ordered(Append(toRenderer, a)) /\ NoneClash(Unanswered, R \cup {a})
    BY <1>3, <1>7, <1>8, AnswerOrdered
  <1>13. ASSUME NEW x \in Range(toMain) \ Unanswered
         PROVE  x.type # "start" /\ x.type # "ask"
    <2>1. x = r  BY <1>3
    <2> QED  BY <1>2, <2>1
  <1>14. MainTyped  BY DEF DeskInv
  <1>15. CASE ~HasController(s)
    <2>1. toRenderer' = Append(toRenderer, a) /\ UNCHANGED <<streams, current>>
      BY <1>1, <1>4, <1>6, <1>15 DEF CancelStreamRequest
    <2>2. Range(toRenderer') = R \cup {a}  BY <1>12, <2>1
    <2>3. Channels'  BY <1>2, <1>3, <1>12, <2>1 DEF Channels
    <2>4. MainTyped'  BY <1>2, <1>14, <2>1 DEF MainTyped
    <2>5. Moves(R \cup {a})  BY <2>1 DEF Moves, HasController
    <2>6. ResponseFine(a, desk, front, Range(toRenderer), written)'
      <3> SUFFICES ASSUME r.id # 0 PROVE Steers(r.id, desk, front, Range(toRenderer), written)' /\ Free'
          BY <1>7 DEF ResponseFine
      <3>1. Steers(r.id, desk, front, R, written) /\ OnlyRuns(s)  BY <1>5
      <3>2. Free'  BY <1>15, <2>1, <3>1 DEF Free, OnlyRuns, HasController
      <3> QED  BY <1>2, <1>7, <2>2, <3>1, <3>2 DEF Steers, Idle
    <2>7. ASSUME NEW x \in (R \cup {a}) \ Range(toRenderer)
          PROVE  /\ ResponseFine(x, desk, front, Range(toRenderer), written)'
                 /\ x.type = "answered" => x.stream = 0 \/ (Idle(desk) /\ ~Free)
      BY <1>7, <2>6
    <2>8. R \subseteq R \cup {a}  OBVIOUS
    <2> HIDE DEF R
    <2> QED  BY <1>9, <1>10, <1>11, <1>12, <1>13, <2>2, <2>3, <2>4, <2>5, <2>7, <2>8, MoveKeeps DEF R
  <1>16. CASE HasController(s) /\ toRenderer' = Append(toRenderer, a) /\ UNCHANGED current
              /\ streams' = [streams EXCEPT ![s] = "aborting"]
    <2>1. Range(toRenderer') = R \cup {a}  BY <1>12, <1>16
    <2>2. Channels'  BY <1>2, <1>3, <1>12, <1>16 DEF Channels
    <2>3. Free' /\ Moves(R \cup {a}) /\ streams' \in [Messages -> StreamStates]
      BY <1>5, <1>16, ReleaseMoves
    <2>4. MainTyped'  BY <1>2, <1>14, <1>16, <2>3 DEF MainTyped
    <2>5. ResponseFine(a, desk, front, Range(toRenderer), written)'
      <3> SUFFICES ASSUME r.id # 0 PROVE Steers(r.id, desk, front, Range(toRenderer), written)' /\ Free'
          BY <1>7 DEF ResponseFine
      <3>1. Steers(r.id, desk, front, R, written)  BY <1>5
      <3> QED  BY <1>2, <1>7, <2>1, <2>3, <3>1 DEF Steers, Idle
    <2>6. ASSUME NEW x \in (R \cup {a}) \ Range(toRenderer)
          PROVE  /\ ResponseFine(x, desk, front, Range(toRenderer), written)'
                 /\ x.type = "answered" => x.stream = 0 \/ (Idle(desk) /\ ~Free)
      BY <1>7, <2>5
    <2>7. R \subseteq R \cup {a}  OBVIOUS
    <2> HIDE DEF R
    <2> QED  BY <1>9, <1>10, <1>11, <1>12, <1>13, <2>1, <2>2, <2>3, <2>4, <2>6, <2>7, MoveKeeps DEF R
  <1>17. CASE HasController(s) /\ toRenderer' = toRenderer \o <<Packet("aborted", s), a>> /\ Ended(s)
    <2>1. PICK p : p = Packet("aborted", s)  OBVIOUS
    <2>2. p \in Responses /\ p.type = "aborted" /\ p.id = 0 /\ p.stream = s /\ p.type \in Packets /\ p.type \in Ends
      <3>1. 0 \in Numbers  BY MessagesAssumption DEF Numbers
      <3> QED  BY <1>5, <2>1, <3>1 DEF Packet, Responses, Packets, Ends
    <2>3. PICK more : more = Append(toRenderer, p)  OBVIOUS
    <2>4. more \in Seq(Responses) /\ Range(more) = R \cup {p} /\ Ordered(more) /\ NoneClash(Unanswered, R \cup {p})
      BY <1>3, <2>2, <2>3, PacketOrdered
    <2>5. /\ Append(more, a) \in Seq(Responses) /\ Range(Append(more, a)) = Range(more) \cup {a}
          /\ Ordered(Append(more, a)) /\ NoneClash(Unanswered, Range(more) \cup {a})
      <3>1. ~Clash(r, p)  BY <1>2, <2>2 DEF Clash, Packets, Ends
      <3>2. \A y \in Range(more) : ~Clash(r, y) /\ (y.type \in Packets => ~Clash(y, a))  BY <1>3, <1>8, <2>4, <3>1
      <3>3. NoneClash(Unanswered, Range(more))  BY <2>4
      <3> QED  BY <1>3, <1>7, <2>4, <3>2, <3>3, AnswerOrdered
    <2>6. toRenderer' = Append(more, a)
      <3>1. toRenderer \o <<p, a>> = Append(Append(toRenderer, p), a)  BY <1>3, <1>7, <2>2
      <3> QED  BY <1>17, <2>1, <2>3, <3>1
    <2>7. PICK Q : Q = R \cup {p, a}  OBVIOUS
    <2>8. Range(toRenderer') = Q /\ NoneClash(Unanswered, Q)
      <3>1. Range(more) \cup {a} = Q  BY <2>4, <2>7
      <3> QED  BY <2>5, <2>6, <3>1
    <2>9. Channels'  BY <1>2, <1>3, <2>5, <2>6 DEF Channels
    <2>10. streams' = [streams EXCEPT ![s] = "over"] /\ current' = (IF current = s THEN 0 ELSE current)
      BY <1>17 DEF Ended
    <2>11. Announces(s, Q)  BY <2>2, <2>7 DEF Announces
    <2>12. Free' /\ Moves(Q) /\ streams' \in [Messages -> StreamStates] /\ streams'[s] = "over"
      BY <1>5, <1>17, <2>10, <2>11, ReleaseMoves
    <2>13. MainTyped'
      <3>1. current' \in Numbers  BY <1>14, <2>10, MessagesAssumption DEF MainTyped, Numbers
      <3> QED  BY <1>2, <1>14, <2>12, <3>1 DEF MainTyped
    <2>14. ResponseFine(a, desk, front, Range(toRenderer), written)'
      <3> SUFFICES ASSUME r.id # 0 PROVE Steers(r.id, desk, front, Range(toRenderer), written)' /\ Free'
          BY <1>7 DEF ResponseFine
      <3>1. Steers(r.id, desk, front, R, written)  BY <1>5
      <3>2. \A x \in Q : x.type = "answered" => x \in R  BY <1>7, <2>2, <2>7
      <3> QED  BY <1>2, <2>8, <2>12, <3>1, <3>2 DEF Steers, Idle
    <2>15. ResponseFine(p, desk, front, Range(toRenderer), written)'
      BY <1>5, <2>2, <2>12 DEF ResponseFine
    <2>16. ASSUME NEW x \in Q \ Range(toRenderer)
           PROVE  /\ ResponseFine(x, desk, front, Range(toRenderer), written)'
                  /\ x.type = "answered" => x.stream = 0 \/ (Idle(desk) /\ ~Free)
      <3>1. x = p \/ x = a  BY <2>7
      <3> QED  BY <1>7, <2>2, <2>14, <2>15, <3>1
    <2>17. R \subseteq Q  BY <2>7
    <2> HIDE DEF R
    <2> QED  BY <1>9, <1>10, <1>11, <1>13, <2>8, <2>9, <2>12, <2>13, <2>16, <2>17, MoveKeeps DEF R
  <1> QED  BY <1>1, <1>4, <1>6, <1>15, <1>16, <1>17 DEF CancelStreamRequest

\* A packet of the stream s is broadcast.
LEMMA PacketSent ==
    ASSUME DeskInv, NEW s \in Messages, NEW kind \in Packets,
           toRenderer' = Append(toRenderer, Packet(kind, s)),
           UNCHANGED <<desk, front, toMain, posted, refused, written>>, MainTyped',
           Moves(Range(toRenderer')), streams'[s] # "none", kind = "complete" => streams'[s] # "running",
           kind \in Ends => streams'[s] = "over"
    PROVE  DeskInv'
  <1> DEFINE R == Range(toRenderer)
  <1>1. PICK p : p = Packet(kind, s)  OBVIOUS
  <1>2. s \in Numbers /\ 0 \in Numbers /\ s # 0  BY MessagesAssumption DEF Numbers, Messages
  <1>3. p \in Responses /\ p.type = kind /\ p.id = 0 /\ p.stream = s
    BY <1>1, <1>2 DEF Packet, Responses
  <1>4. toMain \in Seq(Requests) /\ Ordered(toMain) /\ toRenderer \in Seq(Responses) /\ Ordered(toRenderer)
        /\ NoneClash(Range(toMain), R)
    BY DEF DeskInv, Channels, Sound
  <1>5. Range(toMain) \in SUBSET Requests  BY <1>4, RangeOfSeq
  <1>6. /\ Append(toRenderer, p) \in Seq(Responses) /\ Range(Append(toRenderer, p)) = R \cup {p}
        /\ Ordered(Append(toRenderer, p)) /\ NoneClash(Range(toMain), R \cup {p})
    BY <1>3, <1>4, <1>5, PacketOrdered
  <1>7. PICK Q : Q = R \cup {p}  OBVIOUS
  <1>8. Range(toRenderer') = Q /\ Range(toMain') = Range(toMain) /\ NoneClash(Range(toMain), Q) /\ Moves(Q)
    BY <1>1, <1>6, <1>7
  <1>9. Channels'  BY <1>1, <1>4, <1>6 DEF Channels
  <1>10. ResponseFine(p, desk, front, Range(toRenderer), written)'  BY <1>2, <1>3 DEF ResponseFine
  <1>11. ASSUME NEW x \in Q \ Range(toRenderer)
         PROVE  /\ ResponseFine(x, desk, front, Range(toRenderer), written)'
                /\ x.type = "answered" => x.stream = 0 \/ (Idle(desk) /\ ~Free)
    <2>1. x = p  BY <1>7
    <2> QED  BY <1>3, <1>10, <2>1 DEF Packets, Ends
  <1>12. R \subseteq Q /\ Range(toMain) \subseteq Range(toMain)  BY <1>7
  <1>13. UNCHANGED <<desk, front, posted, refused, written>>  OBVIOUS
  <1>14. ASSUME NEW x \in Range(toMain) \ Range(toMain)
         PROVE  /\ x.type = "start" => Answer("refused", x.stream, 0) \in Q
                /\ x.type = "ask" => \E y \in Q : ~NotAsked(y)
    OBVIOUS
  <1> HIDE DEF R
  <1> QED  BY <1>8, <1>9, <1>11, <1>12, <1>13, <1>14, MoveKeeps DEF R

\* A stream that runs broadcasts an event, or announces the end of its turn; a stream ends.
LEMMA BroadcastKeeps ==
    ASSUME DeskInv, NEW s \in Messages,
           StreamEvent(s) \/ TurnComplete(s) \/ StreamDone(s) \/ StreamFails(s) \/ StreamAborted(s)
    PROVE  DeskInv'
  <1>1. MainTyped /\ Owned(desk)  BY DEF DeskInv, Sound
  <1>2. streams \in [Messages -> StreamStates] /\ current \in Numbers /\ s # 0
    BY <1>1, MessagesAssumption DEF MainTyped, Messages
  <1>3. CASE StreamEvent(s)
    <2>1. /\ streams[s] = "running" /\ toRenderer' = Append(toRenderer, Packet("event", s))
          /\ UNCHANGED <<desk, front, toMain, posted, refused, written>> /\ UNCHANGED <<streams, current>>
      BY <1>3 DEF StreamEvent, Broadcast
    <2>2. MainTyped'  BY <1>1, <2>1 DEF MainTyped
    <2>3. Moves(Range(toRenderer'))  BY <2>1 DEF Moves, HasController
    <2>4. "event" \in Packets /\ "event" # "complete" /\ "event" \notin Ends  BY DEF Packets, Ends
    <2> QED  BY <2>1, <2>2, <2>3, <2>4, PacketSent
  <1>4. CASE TurnComplete(s)
    <2>1. /\ streams[s] = "running" /\ toRenderer' = Append(toRenderer, Packet("complete", s))
          /\ UNCHANGED <<desk, front, toMain, posted, refused, written>>
          /\ streams' = [streams EXCEPT ![s] = "closing"] /\ UNCHANGED current
      BY <1>4 DEF TurnComplete, Broadcast
    <2>2. \A t \in Messages : streams'[t] = IF t = s THEN "closing" ELSE streams[t]  BY <1>2, <2>1
    <2>3. MainTyped'
      <3>1. streams' \in [Messages -> StreamStates]  BY <1>2, <2>1 DEF StreamStates
      <3> QED  BY <1>1, <2>1, <3>1 DEF MainTyped
    <2>4. Moves(Range(toRenderer'))  BY <1>2, <2>1, <2>2 DEF Moves, HasController
    <2>5. "complete" \in Packets /\ "complete" \notin Ends  BY DEF Packets, Ends
    <2>6. streams'[s] = "closing"  BY <2>2
    <2> QED  BY <2>1, <2>3, <2>4, <2>5, <2>6, PacketSent
  <1>5. ASSUME NEW kind \in Ends, NEW from \in {"running", "closing", "aborting"}, Broadcast(s, from, kind), Ended(s)
        PROVE  DeskInv'
    <2>1. /\ streams[s] = from /\ toRenderer' = Append(toRenderer, Packet(kind, s))
          /\ UNCHANGED <<desk, front, toMain, posted, refused, written>>
          /\ streams' = [streams EXCEPT ![s] = "over"] /\ current' = (IF current = s THEN 0 ELSE current)
      BY <1>5 DEF Broadcast, Ended
    <2>2. \A t \in Messages : streams'[t] = IF t = s THEN "over" ELSE streams[t]  BY <1>2, <2>1
    <2>3. MainTyped'
      <3>1. streams' \in [Messages -> StreamStates]  BY <1>2, <2>1 DEF StreamStates
      <3>2. current' \in Numbers  BY <1>2, <2>1, MessagesAssumption DEF Numbers
      <3> QED  BY <1>1, <2>1, <3>1, <3>2 DEF MainTyped
    <2>4. Announces(s, Range(toRenderer'))
      <3>1. toRenderer \in Seq(Responses)  BY DEF DeskInv, Channels
      <3>2. Packet(kind, s) \in Responses
        <4>1. s \in Numbers /\ 0 \in Numbers  BY MessagesAssumption DEF Numbers, Messages
        <4> QED  BY <4>1 DEF Packet, Responses, Packets
      <3>3. Range(Append(toRenderer, Packet(kind, s))) = Range(toRenderer) \cup {Packet(kind, s)}
        BY <3>1, <3>2, AppendRange
      <3>4. Packet(kind, s) \in Range(toRenderer')  BY <2>1, <3>3
      <3> QED  BY <3>4 DEF Announces, Packet
    <2>5. \A t \in Messages : HasController(t)' => HasController(t) /\ current' = current
      <3> SUFFICES ASSUME NEW t \in Messages, HasController(t)' PROVE HasController(t) /\ current' = current  OBVIOUS
      <3>1. t # s /\ HasController(t)  BY <2>2 DEF HasController
      <3>2. current = t  BY <1>1, <3>1 DEF Owned
      <3> QED  BY <2>1, <3>1, <3>2
    <2>6. Moves(Range(toRenderer'))  BY <2>1, <2>2, <2>4, <2>5 DEF Moves
    <2>7. kind \in Packets /\ kind # "complete"  BY DEF Packets, Ends
    <2>8. streams'[s] = "over"  BY <2>2
    <2> QED  BY <2>1, <2>3, <2>6, <2>7, <2>8, PacketSent
  <1>6. {"done", "error", "aborted"} = Ends  BY DEF Ends
  <1>7. CASE StreamDone(s)  BY <1>5, <1>6, <1>7 DEF StreamDone
  <1>8. CASE StreamFails(s)  BY <1>5, <1>6, <1>8 DEF StreamFails
  <1>9. CASE StreamAborted(s)  BY <1>5, <1>6, <1>9 DEF StreamAborted
  <1> QED  BY <1>3, <1>4, <1>7, <1>8, <1>9

-----------------------------------------------------------------------------
(* The invariant, and what it says of the messages and of the streams.      *)

\* The desktop starts in the invariant.
LEMMA DeskInitInv == DeskInit => DeskInv
  <1> SUFFICES ASSUME DeskInit PROVE DeskInv  OBVIOUS
  <1>1. /\ desk = [queue |-> <<>>, active |-> NoStream, sending |-> FALSE, listeners |-> {}, taken |-> <<>>, disposes |-> 0]
        /\ front = TRUE /\ toMain = <<>> /\ toRenderer = <<>>
        /\ streams = [m \in Messages |-> "none"] /\ current = 0
        /\ posted = <<>> /\ refused = {} /\ written = 0
      BY DEF DeskInit
  <1>2. 0 \in Numbers  BY MessagesAssumption DEF Numbers
  <1>3. \A S : <<>> \in Seq(S)  OBVIOUS
  <1>4. Range(<<>>) = {} /\ IsInjective(<<>>) /\ Ordered(<<>>)  BY DEF Range, IsInjective, Ordered
  <1>5. Channels  BY <1>1, <1>3, <1>4 DEF Channels
  <1>6. MainTyped  BY <1>1, <1>2, <1>3 DEF MainTyped, StreamStates
  <1>7. Free  BY <1>1 DEF Free, HasController
  <1>8. desk \in Desks
    <2>1. NoStream \in [stream : Numbers, listener : Int]  BY <1>2 DEF NoStream
    <2>2. {} \in SUBSET [id : Int, stream : Messages] /\ 0 \in Int  OBVIOUS
    <2> QED  BY <1>1, <1>3, <2>1, <2>2 DEF Desks
  <1>9. /\ desk.queue = <<>> /\ desk.taken = <<>> /\ desk.active = NoStream /\ ~desk.sending /\ desk.listeners = {}
    BY <1>1
  <1>10. Shape(desk) /\ Opened(desk, {}, {}) /\ Owned(desk)
    BY <1>7, <1>9 DEF Shape, Opened, Opening, Owned, Free, NoStream
  <1>11. Queued(desk, written)  BY <1>4, <1>9 DEF Queued
  <1>12. Accounted(desk, {}, {}, refused)
    <2>1. Range(posted) = {} /\ Range(desk.taken) = {}  BY <1>1, <1>4, <1>9
    <2>2. {m \in Messages : streams[m] # "none"} = {}  BY <1>1
    <2>3. Only(<<>>, {}) = <<>>
      <3>1. <<>> \in Seq(Messages)  OBVIOUS
      <3>2. Only(<<>>, {}) \in Seq(Messages) /\ Range(Only(<<>>, {})) = Range(<<>>) \cap {}  BY <3>1, OnlyOrder
      <3>3. PICK list \in Seq(Messages) : list = Only(<<>>, {})  BY <3>2
      <3>4. Range(list) = {}  BY <3>2, <3>3
      <3>5. list = <<>>
        <4> SUFFICES ASSUME list # <<>> PROVE FALSE  OBVIOUS
        <4>1. Range(list) = Range(Tail(list)) \cup {Head(list)}  BY TailRange
        <4> QED  BY <3>4, <4>1
      <3> QED  BY <3>3, <3>5
    <2> QED  BY <1>1, <1>9, <2>1, <2>2, <2>3 DEF Accounted
  <1>13. NoneClash({}, {}) /\ AllFine(desk, front, {}, {}, written)  BY DEF NoneClash, AllFine
  <1>14. Range(toMain) = {} /\ Range(toRenderer) = {}  BY <1>1, <1>4
  <1>15. Sound(desk, front, Range(toMain), Range(toRenderer), refused, written)
    BY <1>1, <1>8, <1>10, <1>11, <1>12, <1>13, <1>14 DEF Sound
  <1>16. Settled(desk, front, Range(toMain), Range(toRenderer))  BY <1>7, <1>9 DEF Settled
  <1> QED  BY <1>5, <1>6, <1>15, <1>16 DEF DeskInv

\* Every step keeps it, when the user does nothing risky.
LEMMA DeskNextInv == ASSUME Risky = {}, DeskInv, [DeskNext]_deskVars PROVE DeskInv'
  <1>0. MaxMessages \in Nat  BY MessagesAssumption
  <1>1. CASE SubmitMessage  BY <1>0, <1>1, SubmitMessageKeeps
  <1>2. CASE EnqueueConversationMessage  BY <1>0, <1>2, EnqueueKeeps
  <1>3. CASE RemoveQueuedMessage  BY <1>3, RemoveKeeps
  <1>4. CASE ReorderQueuedMessage  BY <1>4, ReorderKeeps
  <1>5. CASE CancelActive  BY <1>0, <1>5, CancelActiveKeeps
  <1>6. CASE SteerQueuedMessage  BY <1>0, <1>6, SteerKeeps
  <1>7. CASE ShowConversation  BY <1>0, <1>7, ShowKeeps
  <1>8. CASE HideConversation  BY <1>0, <1>8, HideKeeps
  <1>9. CASE Rerender  BY <1>0, <1>9, RerenderKeeps
  <1>10. CASE RendererReceives
    <2>1. PICK a : a = Head(toRenderer)  OBVIOUS
    <2>2. toRenderer # <<>>
          /\ (HandlePacket(a) \/ StreamOpened(a) \/ StreamRefused(a) \/ CancelAnswered(a) \/ Reconnect(a))
        BY <1>10, <2>1 DEF RendererReceives
    <2>3. CASE HandlePacket(a)  BY <1>0, <2>1, <2>2, <2>3, PacketKeeps
    <2>4. CASE StreamOpened(a)  BY <1>0, <2>1, <2>2, <2>4, OpenedKeeps
    <2>5. CASE StreamRefused(a)  BY <1>0, <2>1, <2>2, <2>5, RefusedKeeps
    <2>6. CASE CancelAnswered(a)  BY <1>0, <2>1, <2>2, <2>6, CanceledKeeps
    <2>7. CASE Reconnect(a)  BY <1>0, <2>1, <2>2, <2>7, ReconnectKeeps
    <2> QED  BY <2>2, <2>3, <2>4, <2>5, <2>6, <2>7
  <1>11. CASE StartStream  BY <1>0, <1>11, StartKeeps
  <1>12. CASE RefuseStream  BY <1>12, RefuseKeeps
  <1>13. CASE GetActiveStream  BY <1>13, AskKeeps
  <1>14. CASE CancelStreamRequest  BY <1>14, CancelStreamKeeps
  <1>15. CASE \E s \in Messages : StreamEvent(s) \/ TurnComplete(s) \/ StreamDone(s) \/ StreamFails(s) \/ StreamAborted(s)
    BY <1>15, BroadcastKeeps
  <1>16. CASE UNCHANGED deskVars
    <2>1. UNCHANGED <<desk, front, toMain, toRenderer, streams, current, posted, refused, written>>
      BY <1>16 DEF deskVars
    <2>2. /\ Channels /\ MainTyped
          /\ Sound(desk, front, Range(toMain), Range(toRenderer), refused, written)
          /\ Settled(desk, front, Range(toMain), Range(toRenderer))
        BY DEF DeskInv
    <2>3. MainTyped' /\ Channels'  BY <2>1, <2>2 DEF MainTyped, Channels
    <2>4. Sound(desk', front', Range(toMain'), Range(toRenderer'), refused', written')  BY <2>1, <2>2
    <2>5. front' /\ Idle(desk') => /\ desk'.queue = <<>>
                                   /\ Free \/ \E x \in Range(toMain') \cup Range(toRenderer') : ~NotAsked(x)
      BY <2>1, <2>2 DEF Settled
    <2> QED  BY <2>1, <2>3, <2>4, <2>5, PlainKeeps
  <1> QED
    BY <1>1, <1>2, <1>3, <1>4, <1>5, <1>6, <1>7, <1>8, <1>9, <1>10, <1>11, <1>12, <1>13, <1>14, <1>15, <1>16 DEF DeskNext

\* What is on its way is kept by filter unless it is the question or its answer.
LEMMA WantedEmpty ==
    ASSUME Channels, Wanted(toMain \o toRenderer) = <<>>
    PROVE  \A x \in Range(toMain) \cup Range(toRenderer) : ~NotAsked(x)
  <1>1. PICK S : S = Requests \cup Responses  OBVIOUS
  <1>2. toMain \in Seq(Requests) /\ toRenderer \in Seq(Responses)  BY DEF Channels
  <1>3. toMain \in Seq(S) /\ toRenderer \in Seq(S)  BY <1>1, <1>2
  <1>4. PICK both : both = toMain \o toRenderer  OBVIOUS
  <1>5. /\ both \in Seq(S) /\ Len(both) = Len(toMain) + Len(toRenderer)
        /\ \A i \in 1 .. Len(toMain) + Len(toRenderer) :
             both[i] = IF i <= Len(toMain) THEN toMain[i] ELSE toRenderer[i - Len(toMain)]
      BY <1>3, <1>4, ConcatProperties
  <1>6. PICK k \in Nat : k = Len(toMain)  BY <1>2, LenProperties
  <1>7. PICK l \in Nat : l = Len(toRenderer)  BY <1>2, LenProperties
  <1>8. DOMAIN toMain = 1 .. k /\ DOMAIN toRenderer = 1 .. l /\ DOMAIN both = 1 .. k + l
    BY <1>2, <1>5, <1>6, <1>7, LenProperties
  <1>9. ASSUME NEW x \in Range(toMain) PROVE x \in Range(both)
    <2>1. PICK i \in 1 .. k : x = toMain[i]  BY <1>8 DEF Range
    <2>2. i \in 1 .. k + l /\ i <= k  OBVIOUS
    <2>3. x = both[i]  BY <1>5, <1>6, <1>7, <2>1, <2>2
    <2> QED  BY <1>8, <2>2, <2>3 DEF Range
  <1>10. ASSUME NEW x \in Range(toRenderer) PROVE x \in Range(both)
    <2>1. PICK i \in 1 .. l : x = toRenderer[i]  BY <1>8 DEF Range
    <2>2. k + i \in 1 .. k + l /\ ~(k + i <= k) /\ (k + i) - k = i  OBVIOUS
    <2>3. x = both[k + i]  BY <1>5, <1>6, <1>7, <2>1, <2>2
    <2> QED  BY <1>8, <2>2, <2>3 DEF Range
  <1>11. Range(Wanted(both)) = {r \in Range(both) : NotAsked(r)}  BY <1>5, WantedKeeps
  <1>12. Range(Wanted(both)) = {}
    <2>1. Wanted(both) = <<>>  BY <1>4
    <2> QED  BY <2>1 DEF Range
  <1> QED  BY <1>9, <1>10, <1>11, <1>12

\* It says that nothing is left behind.
LEMMA InvNothingStuck == DeskInv => NothingStuck
  <1> SUFFICES ASSUME DeskInv, \A m \in Messages : streams[m] \in {"none", "over"}, Wanted(toMain \o toRenderer) = <<>>
               PROVE  /\ ~desk.sending /\ desk.active = NoStream
                      /\ desk.listeners = {}
                      /\ front => desk.queue = <<>>
      BY DEF NothingStuck
  <1>1. /\ Channels /\ Shape(desk) /\ Opened(desk, Range(toMain), Range(toRenderer))
        /\ Settled(desk, front, Range(toMain), Range(toRenderer))
    BY DEF DeskInv, Sound
  <1>2. \A x \in Range(toMain) \cup Range(toRenderer) : ~NotAsked(x)  BY <1>1, WantedEmpty
  <1>3. desk.active.stream = 0
    <2> SUFFICES ASSUME desk.active.stream # 0 PROVE FALSE  OBVIOUS
    <2>1. CASE desk.active.listener = 0
      <3>1. \E x \in Range(toMain) \cup Range(toRenderer) : x.type \in {"start", "started", "refused"}
        BY <1>1, <2>1 DEF Opened, Opening, StartRequest, Answer
      <3> QED  BY <1>2, <3>1 DEF NotAsked
    <2>2. CASE desk.active.listener # 0
      <3>1. Lives(desk.active.stream, Range(toRenderer))  BY <1>1, <2>2 DEF Opened
      <3>2. \E x \in Range(toRenderer) : x.type \in Ends  BY <3>1 DEF Lives, Announces
      <3> QED  BY <1>2, <3>2 DEF NotAsked, Ends
    <2> QED  BY <2>1, <2>2
  <1>4. desk.active = NoStream /\ ~desk.sending /\ desk.listeners = {}  BY <1>1, <1>3 DEF Shape
  <1>5. front => desk.queue = <<>>  BY <1>1, <1>4 DEF Settled, Idle
  <1> QED  BY <1>4, <1>5

\* It says that the active stream has one listener, and that what runs is active.
LEMMA InvPacketsOnce == DeskInv => PacketsOnce
  <1> SUFFICES ASSUME DeskInv PROVE PacketsOnce  OBVIOUS
  <1>1. Shape(desk) /\ Owned(desk)  BY DEF DeskInv, Sound
  <1>2. ASSUME desk.active # NoStream PROVE Cardinality({l \in desk.listeners : l.stream = desk.active.stream}) = 1
    <2>1. desk.active.stream # 0  BY <1>1, <1>2 DEF Shape
    <2>2. PICK n : desk.listeners = {[id |-> n, stream |-> desk.active.stream]}  BY <1>1, <2>1 DEF Shape
    <2>3. {l \in desk.listeners : l.stream = desk.active.stream} = {[id |-> n, stream |-> desk.active.stream]}
      BY <2>2
    <2> QED  BY <2>3, FS_Singleton
  <1>3. ASSUME NEW m \in Messages, streams[m] = "running" PROVE desk.active.stream = m
    <2>1. HasController(m)  BY <1>3 DEF HasController, Messages
    <2> QED  BY <1>1, <1>3, <2>1 DEF Owned
  <1> QED  BY <1>2, <1>3 DEF PacketsOnce

\* It says that no message that was taken is lost.
LEMMA InvTakenIsSent == DeskInv => TakenIsSent
  <1> SUFFICES ASSUME DeskInv PROVE TakenIsSent  OBVIOUS
  <1>1. Accounted(desk, Range(toMain), Range(toRenderer), refused)  BY DEF DeskInv, Sound
  <1>2. ASSUME NEW m, Pending(m, Range(toMain), Range(toRenderer)) PROVE Waiting(m)
    <2>1. CASE StartRequest(m) \in Range(toMain)
      <3>1. \E i \in DOMAIN toMain : toMain[i] = StartRequest(m)  BY <2>1 DEF Range
      <3> QED  BY <3>1 DEF Waiting
    <2>2. CASE Answer("refused", m, 0) \in Range(toRenderer)
      <3>1. \E i \in DOMAIN toRenderer : toRenderer[i] = Answer("refused", m, 0)  BY <2>2 DEF Range
      <3> QED  BY <3>1 DEF Waiting
    <2> QED  BY <1>2, <2>1, <2>2 DEF Pending
  <1> QED  BY <1>1, <1>2 DEF Accounted, TakenIsSent

\* The invariant holds in every state.
LEMMA DeskInvariance == ASSUME Risky = {} PROVE DeskSpec => []DeskInv
  <1>1. DeskInv /\ [DeskNext]_deskVars => DeskInv'  BY DeskNextInv
  <1> QED  BY DeskInitInv, <1>1, PTL DEF DeskSpec

\* A message taken from the composer or the queue is sent to the server once and in order,
\* or refused and reported, unless the user steers with others queued or selects a closing
\* conversation with messages queued.
THEOREM TakenMessagesAreSent == ASSUME Risky = {} PROVE DeskSpec => []TakenIsSent
  BY DeskInvariance, InvTakenIsSent, PTL

\* While a stream is active its packets have one listener and the stream that runs is the
\* active one; when nothing runs and nothing is on its way, nothing is left behind.
THEOREM StreamsAreFollowed == ASSUME Risky = {} PROVE DeskSpec => []StreamsFollowed
  <1>1. DeskInv => StreamsFollowed  BY InvNothingStuck, InvPacketsOnce DEF StreamsFollowed
  <1> QED  BY DeskInvariance, <1>1, PTL
-----------------------------------------------------------------------------
(* The sidebar: types, and what its operators return. *)

ListRows == [id : Nat \ {0}, at : Nat]
ListPages == [rows : Seq(ListRows), more : BOOLEAN]
ConvRows == [id : Nat \ {0}, ws : Workspaces, at : Nat]
CallOps == {"list", "workspaces", "create", "delete", "rename", "create_ws", "delete_ws"}
CallRows == [op : CallOps,
             ws : Workspaces \cup {None0}, conv : Nat, preserve : BOOLEAN, cursor : Nat, sel : Nat, then : Nat,
             answer : Seq(ListPages) \cup Seq(Nat), state : {"asked", "answered"}]

ServerTypes ==
    /\ server \in [wss : SUBSET Workspaces, convs : SUBSET ConvRows, last : Nat]
    /\ IsFiniteSet(server.wss) /\ IsFiniteSet(server.convs)
ListTypes ==
    /\ ServerTypes
    /\ pick \in [ws : Workspaces \cup {None0}, conv : Nat]
    /\ lists \in [Workspaces -> Seq(ListRows)]
    /\ pages \in [Workspaces -> [more : BOOLEAN, cursor : Nat]]
    /\ known \in Seq(Workspaces)
    /\ calls \in Seq(CallRows)

\* A time belongs to one conversation.
OneEach(rows) == \A a, b \in rows : a.at = b.at => a.id = b.id

\* None stands for no workspace.
LEMMA SpaceIds == \A w \in Workspaces \cup {None0} : w \in Nat /\ (w \in Workspaces => w # None0)
  <1>1. \A w \in Workspaces : w \in Nat /\ w # 0  BY ListsAssumption
  <1> QED  BY <1>1 DEF None0

\* A row is its id and its time.
LEMMA SameRow == \A a, b \in ListRows : a.id = b.id /\ a.at = b.at => a = b
  BY DEF ListRows

\* A list's rows are finitely many, and its ids are those of its rows.
LEMMA RowsListed ==
    ASSUME NEW S, NEW list \in Seq(S)
    PROVE  /\ IsFiniteSet(ToSet(list)) /\ ToSet(list) \in SUBSET S
           /\ Ids(list) = {r.id : r \in ToSet(list)}
           /\ list = <<>> <=> ToSet(list) = {}
  <1>1. DOMAIN list = 1 .. Len(list) /\ Len(list) \in Nat  OBVIOUS
  <1>2. IsFiniteSet(DOMAIN list)  BY <1>1, OneTo
  <1>3. ToSet(list) = {list[i] : i \in DOMAIN list}  BY DEF ToSet
  <1>4. IsFiniteSet(ToSet(list))
    <2>1. list \in Surjection(DOMAIN list, ToSet(list))  BY <1>1, <1>3 DEF Surjection
    <2> QED  BY <1>2, <2>1, FS_Surjection
  <1>5. \A i \in DOMAIN list : list[i] \in S  BY <1>1, ElementOfSeq
  <1>6. ToSet(list) \in SUBSET S  BY <1>3, <1>5
  <1>7. Ids(list) = {r.id : r \in ToSet(list)}  BY <1>3 DEF Ids
  <1>8. list = <<>> <=> ToSet(list) = {}
    <2>1. list # <<>> => 1 \in DOMAIN list  BY <1>1
    <2>2. list = <<>> => DOMAIN list = {}  OBVIOUS
    <2> QED  BY <1>3, <2>1, <2>2
  <1> QED  BY <1>4, <1>6, <1>7, <1>8

\* The rows changed no earlier than a row, and the place they give it
After(rows, r) == {q \in rows : q.at >= r.at}
PlaceAfter(rows, r) == Cardinality(After(rows, r))

\* Sorted by time, rows that differ in time are all there, each once.
LEMMA NewestRows ==
    ASSUME NEW rows \in SUBSET ListRows, IsFiniteSet(rows), OneEach(rows)
    PROVE  /\ Newest(rows) \in Seq(rows) /\ Newest(rows) \in Seq(ListRows)
           /\ ToSet(Newest(rows)) = rows
           /\ Len(Newest(rows)) = Cardinality(rows)
  <1> DEFINE n == Cardinality(rows)
             at == [r \in rows |-> PlaceAfter(rows, r)]
             nth(k) == CHOOSE r \in rows : PlaceAfter(rows, r) = k
  <1>0. n \in Nat /\ IsFiniteSet(1 .. n) /\ Cardinality(1 .. n) = n  BY FS_CardinalityType, OneTo
  <1>1. \A r \in rows : r \in ListRows /\ r.at \in Nat  BY DEF ListRows
  <1>2. ASSUME NEW r \in rows PROVE IsFiniteSet(After(rows, r)) /\ PlaceAfter(rows, r) \in 1 .. n
    <2>1. After(rows, r) \in SUBSET rows /\ r \in After(rows, r)  BY <1>1 DEF After
    <2>2. IsFiniteSet(After(rows, r)) /\ Cardinality(After(rows, r)) <= n  BY <2>1, FS_Subset
    <2>3. Cardinality(After(rows, r)) \in Nat  BY <2>2, FS_CardinalityType
    <2>4. Cardinality(After(rows, r)) # 0
      <3>1. Cardinality(After(rows, r)) = 0 => After(rows, r) = {}  BY <2>2, FS_EmptySet
      <3> QED  BY <2>1, <3>1
    <2> QED  BY <1>0, <2>2, <2>3, <2>4 DEF PlaceAfter
  <1>3. ASSUME NEW a \in rows, NEW b \in rows, a.at > b.at, PlaceAfter(rows, a) = PlaceAfter(rows, b) PROVE FALSE
    <2>1. After(rows, a) \in SUBSET After(rows, b) /\ b \in After(rows, b) /\ b \notin After(rows, a)
        BY <1>1, <1>3 DEF After
    <2>2. IsFiniteSet(After(rows, b)) /\ Cardinality(After(rows, a)) = Cardinality(After(rows, b))
        BY <1>2, <1>3 DEF PlaceAfter
    <2>3. After(rows, a) = After(rows, b)  BY <2>1, <2>2, FS_Subset
    <2> QED  BY <2>1, <2>3
  <1>4. \A a, b \in rows : PlaceAfter(rows, a) = PlaceAfter(rows, b) => a = b
    <2> SUFFICES ASSUME NEW a \in rows, NEW b \in rows, PlaceAfter(rows, a) = PlaceAfter(rows, b) PROVE a = b
        OBVIOUS
    <2>1. ~(a.at > b.at) /\ ~(b.at > a.at)  BY <1>3
    <2>2. a.at = b.at  BY <1>1, <2>1
    <2> QED  BY <1>1, <2>2, SameRow DEF OneEach
  <1>5. at \in Injection(rows, 1 .. n)
    <2>1. at \in [rows -> 1 .. n]  BY <1>2
    <2> QED  BY <1>4, <2>1 DEF Injection, IsInjective
  <1>6. at \in Surjection(rows, 1 .. n)
    <2> HIDE DEF at
    <2>1. Cardinality(rows) = Cardinality(1 .. n)  BY <1>0
    <2> HIDE DEF n
    <2> QED  BY <1>0, <1>5, <2>1, FS_Injection
  <1>7. \A k \in 1 .. n : \E r \in rows : PlaceAfter(rows, r) = k  BY <1>6 DEF Surjection
  <1>8. \A k \in 1 .. n : nth(k) \in rows /\ PlaceAfter(rows, nth(k)) = k  BY <1>7
  <1>9. \A r \in rows : nth(PlaceAfter(rows, r)) = r  BY <1>2, <1>4, <1>8
  <1>10. Newest(rows) = [k \in 1 .. n |-> nth(k)]  BY DEF Newest, PlaceAfter, After
  <1> HIDE DEF nth, n
  <1>11. Newest(rows) \in Seq(rows) /\ Len(Newest(rows)) = n  BY <1>0, <1>8, <1>10
  <1>12. ToSet(Newest(rows)) = rows
    <2>1. \A k \in DOMAIN Newest(rows) : Newest(rows)[k] \in rows  BY <1>8, <1>10
    <2>2. \A r \in rows : PlaceAfter(rows, r) \in DOMAIN Newest(rows) /\ Newest(rows)[PlaceAfter(rows, r)] = r
        BY <1>2, <1>9, <1>10
    <2> QED  BY <2>1, <2>2 DEF ToSet
  <1>13. Newest(rows) \in Seq(ListRows)  BY <1>8, <1>0, <1>10
  <1> QED  BY <1>11, <1>12, <1>13 DEF n

\* A list of workspaces has each of them.
LEMMA ListedAll ==
    ASSUME NEW wss \in SUBSET Workspaces, IsFiniteSet(wss)
    PROVE  /\ Listed(wss) \in Seq(wss) /\ Listed(wss) \in Seq(Workspaces) /\ ToSet(Listed(wss)) = wss
           /\ wss # {} => Listed(wss)[1] \in wss
  <1> DEFINE n == Cardinality(wss)
             nth(k) == CHOOSE w \in wss : PlaceIn(wss, w) = k
  <1>0. n \in Nat  BY FS_CardinalityType
  <1>1. wss \in SUBSET Nat  BY ListsAssumption
  <1>2. \A k \in 1 .. n : nth(k) \in wss /\ PlaceIn(wss, nth(k)) = k  BY <1>1, PlacesFill
  <1>3. \A w \in wss : PlaceIn(wss, w) \in 1 .. n /\ nth(PlaceIn(wss, w)) = w
    <2> TAKE w \in wss
    <2>1. PlaceIn(wss, w) \in 1 .. n  BY <1>1, PlacesFill
    <2>2. nth(PlaceIn(wss, w)) \in wss /\ PlaceIn(wss, nth(PlaceIn(wss, w))) = PlaceIn(wss, w)  BY <1>2, <2>1
    <2> HIDE DEF nth
    <2>3. PICK v : v = nth(PlaceIn(wss, w))  OBVIOUS
    <2>4. v \in wss /\ PlaceIn(wss, v) = PlaceIn(wss, w)  BY <2>2, <2>3
    <2>5. v = w  BY <1>1, <2>4, PlacesFill
    <2> QED  BY <2>1, <2>3, <2>5
  <1>4. Listed(wss) = [k \in 1 .. n |-> nth(k)]  BY DEF Listed, PlaceIn
  <1> HIDE DEF nth, n
  <1>5. Listed(wss) \in Seq(wss) /\ Listed(wss) \in Seq(Workspaces)  BY <1>0, <1>2, <1>4
  <1>6. ToSet(Listed(wss)) = wss
    <2>1. \A k \in DOMAIN Listed(wss) : Listed(wss)[k] \in wss  BY <1>2, <1>4
    <2>2. \A w \in wss : PlaceIn(wss, w) \in DOMAIN Listed(wss) /\ Listed(wss)[PlaceIn(wss, w)] = w  BY <1>3, <1>4
    <2> QED  BY <2>1, <2>2 DEF ToSet
  <1>7. wss # {} => 1 \in DOMAIN Listed(wss)
    <2>1. ASSUME NEW w \in wss PROVE 1 \in 1 .. n  BY <1>0, <1>3
    <2> QED  BY <1>4, <2>1
  <1> QED  BY <1>2, <1>4, <1>5, <1>6, <1>7

\* A merge has the rows that come in, and those there were of the other conversations.
LEMMA MergeRows ==
    ASSUME NEW old \in Seq(ListRows), NEW new \in Seq(ListRows), OneEach(ToSet(old) \cup ToSet(new))
    PROVE  /\ Merge(old, new) \in Seq(ListRows)
           /\ ToSet(Merge(old, new)) = ToSet(new) \cup {c \in ToSet(old) : c.id \notin Ids(new)}
  <1> DEFINE rows == ToSet(new) \cup {c \in ToSet(old) : c.id \notin Ids(new)}
  <1>1. IsFiniteSet(ToSet(old)) /\ IsFiniteSet(ToSet(new)) /\ ToSet(old) \in SUBSET ListRows /\ ToSet(new) \in SUBSET ListRows
      BY RowsListed
  <1>2. IsFiniteSet(ToSet(old) \cup ToSet(new))  BY <1>1, FS_Union
  <1>3. rows \in SUBSET (ToSet(old) \cup ToSet(new))  OBVIOUS
  <1>4. IsFiniteSet(rows)  BY <1>2, <1>3, FS_Subset
  <1>5. rows \in SUBSET ListRows /\ OneEach(rows)  BY <1>1, <1>3 DEF OneEach
  <1>6. Merge(old, new) = Newest(rows)  BY DEF Merge
  <1> HIDE DEF rows
  <1>7. Merge(old, new) \in Seq(ListRows) /\ ToSet(Merge(old, new)) = rows  BY <1>4, <1>5, <1>6, NewestRows
  <1> QED  BY <1>7 DEF rows

-----------------------------------------------------------------------------
(* The sidebar: the inductive invariant. *)

\* One request of the user at a time, in the workspace that is selected
OneAtATime == MaxCalls = 1 /\ UsesOthers = FALSE

HomeIds(w) == {c.id : c \in {d \in server.convs : d.ws = w}}
OnServer(id) == \E c \in server.convs : c.id = id
HomeListed(w) == Ids(lists[w]) \subseteq HomeIds(w)
FirstOf == IF server.wss = {} THEN None0 ELSE Listed(server.wss)[1]

\* The rows the server, the lists and the answers under way have: no time stands for two
\* conversations, and no id or time is later than the last change.
AnswerRows(c) == IF c.op = "list" /\ c.state = "answered" THEN ToSet(c.answer[1].rows) ELSE {}
ConvMarks == {[id |-> c.id, at |-> c.at] : c \in server.convs}
ListMarks == UNION {ToSet(lists[w]) : w \in Workspaces}
AnswerMarks == UNION {AnswerRows(c) : c \in ToSet(calls)}
Marks == ConvMarks \cup ListMarks \cup AnswerMarks
Stamped ==
    /\ \A m \in Marks : m \in ListRows /\ m.at <= server.last /\ m.id <= server.last
    /\ OneEach(Marks)

\* A conversation is in one workspace, that exists, and in the list of no other.
Homes ==
    /\ \A c, d \in server.convs : c.id = d.id => c = d
    /\ \A c \in server.convs : c.ws \in server.wss
    /\ \A w \in Workspaces : \A r \in ToSet(lists[w]), c \in server.convs : c.id = r.id => c.ws = w

\* The selection is what the server has, and the conversation can be reached.
RightSpace == (pick.ws = None0 <=> server.wss = {}) /\ (pick.ws # None0 => pick.ws \in server.wss)
KnownExist == ToSet(known) \subseteq server.wss
InReach == pick.conv # None0 =>
    pick.conv \in HomeIds(pick.ws) /\ (pick.conv \in Ids(lists[pick.ws]) \/ pages[pick.ws].more)
AllSettled == RightSpace /\ KnownExist /\ (\A w \in server.wss : HomeListed(w)) /\ InReach

\* A page answered has conversations of its workspace, all of them unless more follow.
PageFine(c) ==
    c.state = "answered" =>
        /\ Len(c.answer) = 1 /\ c.answer[1] \in ListPages
        /\ Ids(c.answer[1].rows) \subseteq HomeIds(c.ws)
        /\ c.answer[1].more => c.answer[1].rows # <<>>
        /\ c.cursor = None0 /\ ~c.answer[1].more => HomeIds(c.ws) \subseteq Ids(c.answer[1].rows)
ListFine(c) ==
    /\ c.ws = pick.ws /\ c.ws # None0
    /\ c.then # None0 => c.then \in HomeIds(c.ws) /\ c.cursor = None0
    /\ PageFine(c)
SpacesFine(c) == c.state = "answered" => c.answer = Listed(server.wss)

\* Requests that read: a page of the selected workspace, or the workspaces, which leave the
\* selection as it is.
Reads(c) ==
    \/ c.op = "list" /\ ListFine(c)
    \/ /\ c.op = "workspaces" /\ SpacesFine(c) /\ c.then = None0
       /\ c.sel \in server.wss \/ pick.ws = FirstOf

\* A first page is to come that puts the selection right.
Refreshing ==
    /\ \A c \in ToSet(calls) : c.op = "list" => c.cursor = None0
    /\ \E c \in ToSet(calls) : c.op = "list"
    /\ pick.conv # None0 => OnServer(pick.conv)
Loading ==
    /\ RightSpace
    /\ KnownExist \/ \E c \in ToSet(calls) : c.op = "workspaces"
    /\ \A c \in ToSet(calls) : Reads(c)
    /\ \A w \in server.wss \ {pick.ws} : HomeListed(w)
    /\ Refreshing \/ ((pick.ws # None0 => HomeListed(pick.ws)) /\ InReach)

\* The selected workspace was deleted: the next answer selects the first one.
Homeless ==
    /\ calls # <<>> /\ pick = [ws |-> None0, conv |-> None0]
    /\ \A c \in ToSet(calls) : /\ c.op = "workspaces" /\ SpacesFine(c) /\ c.then = None0
                               /\ c.sel \notin server.wss
    /\ \A w \in server.wss : HomeListed(w)

\* A workspace was created, and is to be selected.
Founding(w, sel) ==
    /\ w \in server.wss /\ sel = pick.ws
    /\ pick.ws \in server.wss \ {w} \/ (pick.ws = None0 /\ server.wss = {w})
    /\ pick.conv # None0 => pick.conv \in HomeIds(pick.ws)
    /\ \A v \in server.wss \ {w} : HomeListed(v)
Founded ==
    /\ Len(calls) = 1 /\ calls[1].op = "workspaces"
    /\ SpacesFine(calls[1]) /\ Founding(calls[1].then, calls[1].sel)

\* The request of the user is under way, or its answer.
Creating(u) ==
    /\ u.op = "create" /\ AllSettled /\ u.ws = pick.ws /\ u.sel = pick.ws /\ pick.ws # None0 /\ pick.conv = None0
    /\ u.state = "answered" => Len(u.answer) = 1 /\ u.answer[1] \in HomeIds(u.ws)
Deleting(u) ==
    /\ u.op = "delete" /\ u.ws = pick.ws /\ pick.ws # None0 /\ u.sel = pick.conv /\ RightSpace /\ KnownExist
    /\ \A w \in server.wss \ {u.ws} : HomeListed(w)
    /\ u.state = "asked" => HomeListed(u.ws) /\ InReach /\ u.conv \in HomeIds(u.ws)
    /\ u.state = "answered" => Ids(lists[u.ws]) \ {u.conv} \subseteq HomeIds(u.ws) /\ (pick.conv = u.conv \/ InReach)
Renaming(u) == u.op = "rename" /\ AllSettled /\ u.ws = pick.ws /\ pick.ws # None0
CreatingSpace(u) ==
    /\ u.op = "create_ws" /\ u.sel = pick.ws /\ u.ws \in Workspaces
    /\ u.state = "asked" => AllSettled /\ u.ws \notin server.wss
    /\ u.state = "answered" => Founding(u.ws, u.sel)
DeletingSpace(u) ==
    /\ u.op = "delete_ws" /\ u.sel = pick.ws /\ u.ws \in Workspaces
    /\ u.state = "asked" => AllSettled
    /\ u.state = "answered" => /\ u.ws \notin server.wss /\ \A w \in server.wss : HomeListed(w)
                               /\ pick.ws = u.ws \/ (RightSpace /\ InReach)
Asking ==
    /\ Len(calls) = 1
    /\ \/ Creating(calls[1]) \/ Deleting(calls[1]) \/ Renaming(calls[1])
       \/ CreatingSpace(calls[1]) \/ DeletingSpace(calls[1])

ListInv == ListTypes /\ Stamped /\ Homes /\ (Loading \/ Homeless \/ Founded \/ Asking)
ListIInv == ~failed => ListInv

-----------------------------------------------------------------------------
(* Requests. *)

\* What is left of the requests when one is taken
LEMMA OthersLeft ==
    ASSUME calls \in Seq(CallRows), NEW i \in DOMAIN calls
    PROVE  /\ Others(i) \in Seq(CallRows)
           /\ ToSet(Others(i)) \subseteq ToSet(calls)
           /\ \A c \in ToSet(calls) : c # calls[i] => c \in ToSet(Others(i))
           /\ Len(calls) = 1 => Others(i) = <<>>
  <1>1. i \in 1 .. Len(calls) /\ DOMAIN calls = 1 .. Len(calls) /\ Len(calls) \in Nat  OBVIOUS
  <1>2. PICK q : q = Others(i)  OBVIOUS
  <1>3. q \in Seq(CallRows) /\ Changed(q, calls, i, 0, FALSE)  BY <1>1, <1>2, ChangedRemove DEF Others
  <1>4. DOMAIN q = 1 .. Len(q) /\ Len(q) \in Nat  BY <1>3
  <1>5. ToSet(q) = {q[k] : k \in 1 .. Len(q)} /\ ToSet(calls) = {calls[k] : k \in 1 .. Len(calls)}
      BY <1>1, <1>4 DEF ToSet
  <1>6. Left(calls, i) = (1 .. Len(calls)) \ {i}  BY DEF Left
  <1>7. \A k \in 1 .. Len(q) : \E j \in Left(calls, i) : q[k] = calls[j]  BY <1>3 DEF Changed
  <1>8. \A j \in Left(calls, i) : \E k \in 1 .. Len(q) : q[k] = calls[j]  BY <1>3 DEF Changed
  <1>9. Len(calls) = 1 => q = <<>>
    <2>1. Len(calls) = 1 => Left(calls, i) = {}  BY <1>1, <1>6
    <2>2. Len(q) # 0 => 1 \in 1 .. Len(q)  BY <1>4
    <2>3. Len(q) = 0 => q = <<>>  BY <1>3
    <2> QED  BY <1>7, <2>1, <2>2, <2>3
  <1>10. ToSet(q) \subseteq ToSet(calls)  BY <1>5, <1>6, <1>7
  <1>11. \A c \in ToSet(calls) : c # calls[i] => c \in ToSet(q)  BY <1>5, <1>6, <1>8
  <1> QED  BY <1>2, <1>3, <1>9, <1>10, <1>11

\* Lists joined have the elements of both.
LEMMA JoinedCalls ==
    ASSUME NEW S, NEW p \in Seq(S), NEW q \in Seq(S)
    PROVE  p \o q \in Seq(S) /\ ToSet(p \o q) = ToSet(p) \cup ToSet(q)
  <1>1. PICK r : r = p \o q  OBVIOUS
  <1>2. /\ r \in Seq(S) /\ Len(r) = Len(p) + Len(q)
        /\ \A k \in 1 .. Len(p) + Len(q) : r[k] = IF k <= Len(p) THEN p[k] ELSE q[k - Len(p)]
      BY <1>1, ConcatProperties
  <1>3. Len(p) \in Nat /\ Len(q) \in Nat  OBVIOUS
  <1>4. /\ ToSet(p) = {p[k] : k \in 1 .. Len(p)} /\ ToSet(q) = {q[k] : k \in 1 .. Len(q)}
        /\ ToSet(r) = {r[k] : k \in 1 .. Len(r)}
      BY <1>2 DEF ToSet
  <1>5. \A k \in 1 .. Len(p) : k \in 1 .. Len(r) /\ r[k] = p[k]  BY <1>2, <1>3
  <1>6. \A k \in 1 .. Len(q) : k + Len(p) \in 1 .. Len(r) /\ r[k + Len(p)] = q[k]
    <2> TAKE k \in 1 .. Len(q)
    <2>1. k + Len(p) \in 1 .. Len(p) + Len(q) /\ ~(k + Len(p) <= Len(p)) /\ (k + Len(p)) - Len(p) = k  BY <1>3
    <2> QED  BY <1>2, <2>1
  <1>7. \A k \in 1 .. Len(r) : r[k] \in ToSet(p) \cup ToSet(q)
    <2> TAKE k \in 1 .. Len(r)
    <2>1. CASE k <= Len(p)
      <3>1. k \in 1 .. Len(p)  BY <1>2, <1>3, <2>1
      <3> QED  BY <1>4, <1>5, <3>1
    <2>2. CASE ~(k <= Len(p))
      <3>1. k - Len(p) \in 1 .. Len(q) /\ r[k] = q[k - Len(p)]  BY <1>2, <1>3, <2>2
      <3> QED  BY <1>4, <3>1
    <2> QED  BY <2>1, <2>2
  <1>8. ToSet(p) \subseteq ToSet(r)  BY <1>4, <1>5
  <1>9. ToSet(q) \subseteq ToSet(r)  BY <1>4, <1>6
  <1>10. ToSet(r) = ToSet(p) \cup ToSet(q)
    <2>1. ToSet(r) \subseteq ToSet(p) \cup ToSet(q)  BY <1>4, <1>7
    <2> QED  BY <1>8, <1>9, <2>1
  <1> QED  BY <1>1, <1>2, <1>10

\* A list of one
LEMMA OneCall == ASSUME NEW S, NEW c \in S PROVE <<c>> \in Seq(S) /\ ToSet(<<c>>) = {c} /\ Len(<<c>>) = 1 /\ <<c>>[1] = c
  <1>1. DOMAIN <<c>> = {1} /\ <<c>>[1] = c
    <2>1. 1 .. 1 = {1}  OBVIOUS
    <2> QED  BY <2>1
  <1> QED  BY <1>1 DEF ToSet

\* A list of none
LEMMA NoCalls == ASSUME NEW S PROVE <<>> \in Seq(S) /\ ToSet(<<>>) = {}
  <1>1. DOMAIN <<>> = {}
    <2>1. 1 .. 0 = {}  OBVIOUS
    <2> QED  BY <2>1
  <1> QED  BY <1>1 DEF ToSet

\* A list with one more
LEMMA AddedCall ==
    ASSUME NEW S, NEW p \in Seq(S), NEW c \in S
    PROVE  Append(p, c) \in Seq(S) /\ ToSet(Append(p, c)) = ToSet(p) \cup {c}
  <1>1. Append(p, c) = p \o <<c>>  BY AppendIsConcat
  <1>2. <<c>> \in Seq(S) /\ ToSet(<<c>>) = {c}  BY OneCall
  <1>3. PICK q : q = <<c>>  OBVIOUS
  <1>4. q \in Seq(S) /\ ToSet(q) = {c} /\ Append(p, c) = p \o q  BY <1>1, <1>2, <1>3
  <1>5. p \o q \in Seq(S) /\ ToSet(p \o q) = ToSet(p) \cup ToSet(q)  BY <1>4, JoinedCalls
  <1> QED  BY <1>4, <1>5

\* The only request there is
LEMMA TheOnly ==
    ASSUME calls \in Seq(CallRows), NEW i \in DOMAIN calls, Len(calls) = 1
    PROVE  i = 1 /\ ToSet(calls) = {calls[1]} /\ calls[1] \in CallRows
  <1>1. DOMAIN calls = 1 .. 1  OBVIOUS
  <1>2. 1 .. 1 = {1}  OBVIOUS
  <1>3. calls[1] \in CallRows  BY <1>1, <1>2, ElementOfSeq
  <1> QED  BY <1>1, <1>2, <1>3 DEF ToSet

\* What is asked for
FreshCall(c, op, ws) ==
    /\ c \in CallRows /\ c.op = op /\ c.ws = ws /\ c.conv = 0 /\ c.preserve = TRUE /\ c.cursor = 0 /\ c.sel = 0
    /\ c.then = 0 /\ c.answer = <<>> /\ c.state = "asked"
FreshList(c, ws, cursor, then) ==
    c \in CallRows /\ c.op = "list" /\ c.ws = ws /\ c.cursor = cursor /\ c.then = then /\ c.state = "asked"
FreshSpaces(c, sel, then) ==
    c \in CallRows /\ c.op = "workspaces" /\ c.sel = sel /\ c.then = then /\ c.state = "asked"

\* A request is made with nothing in it but what it asks for.
LEMMA CallFields == ASSUME NEW op \in CallOps, NEW ws \in Workspaces \cup {None0} PROVE FreshCall(Call(op, ws), op, ws)
  <1>1. <<>> \in Seq(Nat)  BY EmptySeq
  <1> QED  BY <1>1 DEF Call, CallRows, FreshCall, None0

\* A request for a first page
LEMMA ListCallFields ==
    ASSUME NEW ws \in Workspaces \cup {None0}, NEW preserve \in BOOLEAN
    PROVE  FreshList(ListCall(ws, preserve), ws, 0, 0)
  <1>1. "list" \in CallOps  BY DEF CallOps
  <1>2. PICK b : b = Call("list", ws)  OBVIOUS
  <1>3. FreshCall(b, "list", ws)  BY <1>1, <1>2, CallFields
  <1>4. PICK c : c = [b EXCEPT !.preserve = preserve]  OBVIOUS
  <1>5. FreshList(c, ws, 0, 0)  BY <1>3, <1>4 DEF CallRows, FreshCall, FreshList
  <1>6. ListCall(ws, preserve) = c  BY <1>2, <1>4 DEF ListCall
  <1> QED  BY <1>5, <1>6

\* A request for an older page, or for a conversation that is to be selected
LEMMA ListCallWith ==
    ASSUME NEW ws \in Workspaces \cup {None0}, NEW n \in Nat
    PROVE  /\ FreshList([ListCall(ws, TRUE) EXCEPT !.cursor = n], ws, n, 0)
           /\ FreshList([ListCall(ws, TRUE) EXCEPT !.then = n], ws, 0, n)
  <1>1. PICK b : b = ListCall(ws, TRUE)  OBVIOUS
  <1>2. FreshList(b, ws, 0, 0)
    <2>1. TRUE \in BOOLEAN  OBVIOUS
    <2> QED  BY <1>1, <2>1, ListCallFields
  <1>3. FreshList([b EXCEPT !.cursor = n], ws, n, 0)  BY <1>2 DEF FreshList, CallRows
  <1>4. FreshList([b EXCEPT !.then = n], ws, 0, n)  BY <1>2 DEF FreshList, CallRows
  <1> QED  BY <1>1, <1>3, <1>4

\* A request for the workspaces
LEMMA SpacesCallFields ==
    ASSUME NEW n \in Nat
    PROVE  FreshSpaces(WorkspacesCall(n), n, 0)
  <1>1. "workspaces" \in CallOps  BY DEF CallOps
  <1>2. PICK b : b = Call("workspaces", None0)  OBVIOUS
  <1>3. FreshCall(b, "workspaces", None0)  BY <1>1, <1>2, CallFields
  <1>4. PICK c : c = [b EXCEPT !.sel = n]  OBVIOUS
  <1>5. FreshSpaces(c, n, 0)  BY <1>3, <1>4 DEF CallRows, FreshCall, FreshSpaces
  <1>6. WorkspacesCall(n) = c  BY <1>2, <1>4 DEF WorkspacesCall
  <1> QED  BY <1>5, <1>6

\* A request for the workspaces of which one is to be selected
LEMMA SpacesCallWith ==
    ASSUME NEW n \in Nat, NEW m \in Nat
    PROVE  FreshSpaces([WorkspacesCall(n) EXCEPT !.then = m], n, m)
  <1>1. PICK b : b = WorkspacesCall(n)  OBVIOUS
  <1>2. FreshSpaces(b, n, 0)  BY <1>1, SpacesCallFields
  <1> QED  BY <1>1, <1>2 DEF CallRows, FreshSpaces

\* A render that sees another workspace asks for the workspaces, and for its list.
LEMMA EffectCalls ==
    ASSUME NEW from \in Workspaces \cup {None0}, NEW to \in Workspaces \cup {None0}
    PROVE  /\ from = to => Effects(from, to) = <<>>
           /\ Effects(from, to) \in Seq(CallRows)
           /\ from # to => ToSet(Effects(from, to)) =
                {WorkspacesCall(to)} \cup IF to = None0 THEN {} ELSE {ListCall(to, TRUE)}
  <1>2. to \in Nat  BY SpaceIds
  <1>3. CASE from = to  BY <1>3, NoCalls DEF Effects
  <1>4. CASE from # to /\ to = None0
    <2>1. Effects(from, to) = <<WorkspacesCall(to)>> \o <<>>  BY <1>4 DEF Effects
    <2>2. WorkspacesCall(to) \in CallRows  BY <1>2, SpacesCallFields DEF FreshSpaces
    <2>3. <<WorkspacesCall(to)>> \in Seq(CallRows) /\ ToSet(<<WorkspacesCall(to)>>) = {WorkspacesCall(to)}  BY <2>2, OneCall
    <2>4. <<>> \in Seq(CallRows) /\ ToSet(<<>>) = {}  BY NoCalls
    <2> QED  BY <1>4, <2>1, <2>3, <2>4, JoinedCalls
  <1>5. CASE from # to /\ to # None0
    <2>1. Effects(from, to) = <<WorkspacesCall(to)>> \o <<ListCall(to, TRUE)>>  BY <1>5 DEF Effects
    <2>2. WorkspacesCall(to) \in CallRows /\ ListCall(to, TRUE) \in CallRows
        BY <1>2, SpacesCallFields, ListCallFields DEF FreshSpaces, FreshList
    <2>3. <<WorkspacesCall(to)>> \in Seq(CallRows) /\ ToSet(<<WorkspacesCall(to)>>) = {WorkspacesCall(to)}  BY <2>2, OneCall
    <2>4. <<ListCall(to, TRUE)>> \in Seq(CallRows) /\ ToSet(<<ListCall(to, TRUE)>>) = {ListCall(to, TRUE)}  BY <2>2, OneCall
    <2>5. PICK p, q : p = <<WorkspacesCall(to)>> /\ q = <<ListCall(to, TRUE)>>  OBVIOUS
    <2>6. p \in Seq(CallRows) /\ q \in Seq(CallRows) /\ ToSet(p) = {WorkspacesCall(to)} /\ ToSet(q) = {ListCall(to, TRUE)}
          /\ Effects(from, to) = p \o q
        BY <2>1, <2>3, <2>4, <2>5
    <2>9. p \in Seq(CallRows) /\ q \in Seq(CallRows)  BY <2>6
    <2>7. p \o q \in Seq(CallRows)  BY <2>9, JoinedCalls
    <2>8. ToSet(p \o q) = ToSet(p) \cup ToSet(q)  BY <2>9, JoinedCalls
    <2> QED  BY <1>5, <2>6, <2>7, <2>8
  <1> QED  BY <1>3, <1>4, <1>5

-----------------------------------------------------------------------------
(* The user. *)

\* With nothing under way, all is settled.
LEMMA AtEase ==
    ASSUME ListInv, OneAtATime, MayAsk
    PROVE  calls = <<>> /\ ToSet(calls) = {} /\ AllSettled
  <1>1. calls \in Seq(CallRows) /\ Len(calls) \in Nat /\ Len(calls) < 1  BY DEF ListInv, ListTypes, OneAtATime, MayAsk
  <1>2. Len(calls) = 0  BY <1>1
  <1>3. calls = <<>>  BY <1>1, <1>2
  <1>4. ToSet(calls) = {}  BY <1>3, NoCalls
  <1>5. Loading  BY <1>2, <1>3 DEF ListInv, Homeless, Founded, Asking
  <1>6. AllSettled  BY <1>4, <1>5 DEF Loading, Refreshing, AllSettled, RightSpace
  <1> QED  BY <1>3, <1>4, <1>6

\* Requests that are asked for leave the rows there are.
LEMMA MarksKept ==
    ASSUME Stamped, Homes, UNCHANGED <<server, lists>>,
           \A c \in ToSet(calls)' : c.state = "asked" \/ c \in ToSet(calls)
    PROVE  Stamped' /\ Homes'
  <1>1. server' = server /\ lists' = lists  OBVIOUS
  <1>2. \A c \in ToSet(calls)' : AnswerRows(c) = {} \/ c \in ToSet(calls)  BY DEF AnswerRows
  <1>3. AnswerMarks' \subseteq AnswerMarks
    <2>1. UNION {AnswerRows(c) : c \in ToSet(calls)'} \subseteq UNION {AnswerRows(c) : c \in ToSet(calls)}  BY <1>2
    <2> QED  BY <2>1 DEF AnswerMarks, AnswerRows
  <1>4. Marks' \subseteq Marks  BY <1>1, <1>3 DEF Marks, ConvMarks, ListMarks
  <1>5. Stamped'  BY <1>1, <1>4 DEF Stamped, OneEach
  <1>6. Homes'  BY <1>1 DEF Homes
  <1> QED  BY <1>5, <1>6

\* The user makes a request that reads.
LEMMA ReadsNext ==
    ASSUME ListInv, AllSettled, calls = <<>>, UNCHANGED <<server, lists, pages, known>>,
           pick' \in [ws : Workspaces \cup {None0}, conv : Nat], RightSpace', InReach',
           calls' \in Seq(CallRows),
           \A c \in ToSet(calls)' :
              /\ c.state = "asked" /\ c.then = 0
              /\ \/ c.op = "list" /\ c.ws = pick'.ws /\ c.ws # None0
                 \/ c.op = "workspaces" /\ c.sel \in server.wss
    PROVE  ListInv'
  <1>1. server' = server /\ lists' = lists /\ pages' = pages /\ known' = known  OBVIOUS
  <1>2. ListTypes'  BY <1>1 DEF ListInv, ListTypes, ServerTypes
  <1>3. Stamped' /\ Homes'  BY MarksKept DEF ListInv
  <1>4. \A w : HomeListed(w)' <=> HomeListed(w)  BY <1>1 DEF HomeListed, HomeIds, Ids
  <1>5. \A w \in server.wss : HomeListed(w)'  BY <1>4 DEF AllSettled
  <1>6. KnownExist'  BY <1>1 DEF AllSettled, KnownExist, ToSet
  <1>7. \A c \in ToSet(calls)' : Reads(c)'
    <2> TAKE c \in ToSet(calls)'
    <2>1. c.state = "asked" /\ c.then = 0  OBVIOUS
    <2>2. CASE c.op = "list" /\ c.ws = pick'.ws /\ c.ws # None0
        BY <2>1, <2>2 DEF Reads, ListFine, PageFine, None0
    <2>3. CASE c.op = "workspaces" /\ c.sel \in server.wss
        BY <1>1, <2>1, <2>3 DEF Reads, SpacesFine, None0
    <2> QED  BY <2>2, <2>3
  <1>8. pick'.ws # None0 => HomeListed(pick.ws)'  BY <1>1, <1>5 DEF RightSpace
  <1>9. Loading'  BY <1>1, <1>5, <1>6, <1>7, <1>8 DEF Loading
  <1> QED  BY <1>2, <1>3, <1>9 DEF ListInv

\* Another conversation is chosen, in the same workspace or in another.
LEMMA SelectKeepsLists == ASSUME ListInv, OneAtATime, SelectConversation PROVE ListInv'
  <1>1. calls = <<>> /\ AllSettled  BY AtEase DEF SelectConversation
  <1>2. UNCHANGED <<server, lists, pages, known>>  BY DEF SelectConversation
  <1>3. PICK ws \in ToSet(known) : \E conv \in {None0} \cup UNION {Ids(lists[w]) : w \in Workspaces} :
            /\ conv = None0 \/ conv \in Ids(lists[ws])
            /\ pick' = Picked(ws, conv)
            /\ calls' = calls \o Effects(pick.ws, ws)
      BY DEF SelectConversation
  <1>4. PICK conv : /\ conv = None0 \/ conv \in Ids(lists[ws])
                    /\ pick' = Picked(ws, conv) /\ calls' = calls \o Effects(pick.ws, ws)
      BY <1>3
  <1>5. ws \in server.wss /\ ws \in Workspaces /\ ws # None0 /\ ws \in Nat
    <2>1. ws \in server.wss  BY <1>1 DEF AllSettled, KnownExist
    <2>2. ws \in Workspaces  BY <2>1 DEF ListInv, ListTypes, ServerTypes
    <2> QED  BY <2>1, <2>2, SpaceIds
  <1>6. pick.ws \in Workspaces \cup {None0}  BY DEF ListInv, ListTypes
  <1>7. lists[ws] \in Seq(ListRows)  BY <1>5 DEF ListInv, ListTypes
  <1>8. conv # None0 => conv \in HomeIds(ws) /\ conv \in Nat
    <2>1. Ids(lists[ws]) = {r.id : r \in ToSet(lists[ws])} /\ ToSet(lists[ws]) \in SUBSET ListRows  BY <1>7, RowsListed
    <2>2. \A r \in ListRows : r.id \in Nat  BY DEF ListRows
    <2>3. HomeListed(ws)  BY <1>1, <1>5 DEF AllSettled
    <2> QED  BY <1>4, <2>1, <2>2, <2>3 DEF HomeListed
  <1>9. pick' = [ws |-> ws, conv |-> conv]  BY <1>4, <1>5 DEF Picked
  <1>10. pick' \in [ws : Workspaces \cup {None0}, conv : Nat]  BY <1>5, <1>8, <1>9 DEF None0
  <1>11. RightSpace'  BY <1>2, <1>5, <1>9 DEF RightSpace
  <1>12. InReach'  BY <1>2, <1>4, <1>8, <1>9 DEF InReach, HomeIds, Ids
  <1>13. Effects(pick.ws, ws) \in Seq(CallRows)  BY <1>5, <1>6, EffectCalls
  <1>14. calls' = Effects(pick.ws, ws)  BY <1>1, <1>4, <1>13, ConcatEmptySeq
  <1>15. \A c \in ToSet(calls)' :
              /\ c.state = "asked" /\ c.then = 0
              /\ \/ c.op = "list" /\ c.ws = pick'.ws /\ c.ws # None0
                 \/ c.op = "workspaces" /\ c.sel \in server.wss
    <2>1. CASE pick.ws = ws
      <3>1. ToSet(calls') = {}  BY <1>5, <1>6, <1>14, <2>1, EffectCalls, NoCalls
      <3> QED  BY <3>1
    <2>2. CASE pick.ws # ws
      <3>0. ToSet(Effects(pick.ws, ws)) = {WorkspacesCall(ws)} \cup IF ws = None0 THEN {} ELSE {ListCall(ws, TRUE)}
          BY <1>5, <1>6, <2>2, EffectCalls
      <3>1. ToSet(calls') = {WorkspacesCall(ws), ListCall(ws, TRUE)}  BY <1>5, <1>14, <3>0
      <3>2. FreshSpaces(WorkspacesCall(ws), ws, 0)  BY <1>5, SpacesCallFields
      <3>3. FreshList(ListCall(ws, TRUE), ws, 0, 0)  BY <1>5, ListCallFields
      <3> QED  BY <1>5, <1>9, <3>1, <3>2, <3>3 DEF FreshSpaces, FreshList
    <2> QED  BY <2>1, <2>2
  <1> HIDE DEF Effects, Picked
  <1> QED  BY <1>1, <1>2, <1>10, <1>11, <1>12, <1>13, <1>14, <1>15, ReadsNext

\* A list request from rest
LEMMA AskList ==
    ASSUME ListInv, OneAtATime, MayAsk, pick.ws # None0, NEW c \in CallRows,
           c.op = "list", c.ws = pick.ws, c.then = 0, c.state = "asked",
           Asks(c), UNCHANGED <<server, pick, lists, pages, known, failed>>
    PROVE  ListInv'
  <1>1. calls = <<>> /\ AllSettled  BY AtEase
  <1>2. calls' = <<c>>  BY <1>1 DEF Asks
  <1>3. calls' \in Seq(CallRows) /\ ToSet(calls') = {c}  BY <1>2, OneCall
  <1>4. pick' \in [ws : Workspaces \cup {None0}, conv : Nat]  BY DEF ListInv, ListTypes
  <1>5. RightSpace' /\ InReach'  BY <1>1 DEF AllSettled, RightSpace, InReach, HomeIds, Ids
  <1>6. \A d \in ToSet(calls)' :
              /\ d.state = "asked" /\ d.then = 0
              /\ \/ d.op = "list" /\ d.ws = pick'.ws /\ d.ws # None0
                 \/ d.op = "workspaces" /\ d.sel \in server.wss
      BY <1>3
  <1> QED  BY <1>1, <1>3, <1>4, <1>5, <1>6, ReadsNext

\* The list is refreshed.
LEMMA RefreshKeepsLists == ASSUME ListInv, OneAtATime, RefreshConversations PROVE ListInv'
  <1>1. pick.ws \in Workspaces \cup {None0}  BY DEF ListInv, ListTypes
  <1>2. PICK c : c = ListCall(pick.ws, TRUE)  OBVIOUS
  <1>3. c \in CallRows /\ c.op = "list" /\ c.ws = pick.ws /\ c.then = 0 /\ c.state = "asked"
    <2>1. TRUE \in BOOLEAN  OBVIOUS
    <2>2. FreshList(c, pick.ws, 0, 0)  BY <1>1, <1>2, <2>1, ListCallFields
    <2> QED  BY <2>2 DEF FreshList
  <1>4. MayAsk /\ pick.ws # None0 /\ Asks(c) /\ UNCHANGED <<server, pick, lists, pages, known, failed>>
      BY <1>2 DEF RefreshConversations
  <1> QED  BY <1>3, <1>4, AskList

\* An older page is asked for.
LEMMA LoadMoreKeepsLists == ASSUME ListInv, OneAtATime, LoadMoreConversations PROVE ListInv'
  <1>1. PICK ws \in ToSet(known) : /\ ws = pick.ws \/ UsesOthers
                                   /\ Asks([ListCall(ws, TRUE) EXCEPT !.cursor = pages[ws].cursor])
      BY DEF LoadMoreConversations
  <1>2. ws = pick.ws  BY <1>1 DEF OneAtATime
  <1>3. ws \in Workspaces /\ ws # None0
    <2>1. AllSettled  BY AtEase DEF LoadMoreConversations
    <2>2. ws \in Workspaces  BY <2>1 DEF AllSettled, KnownExist, ListInv, ListTypes, ServerTypes
    <2> QED  BY <2>2, SpaceIds
  <1>4. pages[ws].cursor \in Nat  BY <1>3 DEF ListInv, ListTypes
  <1>5. PICK c : c = [ListCall(ws, TRUE) EXCEPT !.cursor = pages[ws].cursor]  OBVIOUS
  <1>6. c \in CallRows /\ c.op = "list" /\ c.ws = pick.ws /\ c.then = 0 /\ c.state = "asked"
    <2>1. FreshList(c, ws, pages[ws].cursor, 0)  BY <1>3, <1>4, <1>5, ListCallWith
    <2> QED  BY <1>2, <2>1 DEF FreshList
  <1>7. MayAsk /\ Asks(c) /\ UNCHANGED <<server, pick, lists, pages, known, failed>>
      BY <1>1, <1>5 DEF LoadMoreConversations
  <1> QED  BY <1>2, <1>3, <1>6, <1>7, AskList

\* A request of the user that changes something
LEMMA AskChange ==
    ASSUME ListInv, OneAtATime, MayAsk, NEW u \in CallRows, u.state = "asked",
           Asks(u), UNCHANGED <<server, pick, lists, pages, known, failed>>,
           AllSettled => (Creating(u) \/ Deleting(u) \/ Renaming(u) \/ CreatingSpace(u) \/ DeletingSpace(u))
    PROVE  ListInv'
  <1>1. calls = <<>> /\ AllSettled  BY AtEase
  <1>2. calls' = <<u>>  BY <1>1 DEF Asks
  <1>3. calls' \in Seq(CallRows) /\ ToSet(calls') = {u} /\ Len(calls') = 1 /\ calls'[1] = u  BY <1>2, OneCall
  <1>4. ListTypes'  BY <1>3 DEF ListInv, ListTypes, ServerTypes
  <1>5. Stamped' /\ Homes'  BY <1>3, MarksKept DEF ListInv
  <1>6. AllSettled'
    <2>1. RightSpace' /\ KnownExist'  BY <1>1 DEF AllSettled, RightSpace, KnownExist, ToSet
    <2>2. InReach'  BY <1>1 DEF AllSettled, InReach, HomeIds, Ids
    <2>3. \A w \in server'.wss : HomeListed(w)'  BY <1>1 DEF AllSettled, HomeListed, HomeIds, Ids
    <2> QED  BY <2>1, <2>2, <2>3 DEF AllSettled
  <1>7. HomeIds(u.ws)' = HomeIds(u.ws) /\ HomeListed(u.ws)' = HomeListed(u.ws) /\ InReach' = InReach
        /\ Ids(lists[u.ws])' = Ids(lists[u.ws])
      BY DEF HomeIds, HomeListed, InReach, Ids
  <1>8. Creating(u)' \/ Deleting(u)' \/ Renaming(u)' \/ CreatingSpace(u)' \/ DeletingSpace(u)'
    <2>1. CASE Creating(u)  BY <1>6, <2>1 DEF Creating
    <2>2. CASE Deleting(u)
      <3>1. \A w : HomeListed(w)' = HomeListed(w)  BY DEF HomeListed, HomeIds, Ids
      <3>2. RightSpace' /\ KnownExist'  BY <1>6 DEF AllSettled
      <3> QED  BY <1>7, <2>2, <3>1, <3>2 DEF Deleting
    <2>3. CASE Renaming(u)  BY <1>6, <2>3 DEF Renaming
    <2>4. CASE CreatingSpace(u)  BY <1>6, <2>4 DEF CreatingSpace
    <2>5. CASE DeletingSpace(u)  BY <1>6, <2>5 DEF DeletingSpace
    <2> QED  BY <1>1, <2>1, <2>2, <2>3, <2>4, <2>5
  <1>9. Asking'  BY <1>3, <1>8 DEF Asking
  <1> QED  BY <1>4, <1>5, <1>9 DEF ListInv

\* A conversation is to be created.
LEMMA CreateKeepsLists == ASSUME ListInv, OneAtATime, CreateConversation PROVE ListInv'
  <1>1. pick.ws \in Workspaces \cup {None0} /\ pick.ws \in Nat
    <2>1. pick.ws \in Workspaces \cup {None0}  BY DEF ListInv, ListTypes
    <2> QED  BY <2>1, SpaceIds
  <1>2. PICK b : b = Call("create", pick.ws)  OBVIOUS
  <1>3. b \in CallRows /\ b.op = "create" /\ b.ws = pick.ws /\ b.state = "asked"
    <2>1. "create" \in CallOps  BY DEF CallOps
    <2>2. FreshCall(b, "create", pick.ws)  BY <1>1, <1>2, <2>1, CallFields
    <2> QED  BY <2>2 DEF FreshCall
  <1>4. PICK u : u = [b EXCEPT !.sel = pick.ws]  OBVIOUS
  <1>5. u \in CallRows /\ u.op = "create" /\ u.ws = pick.ws /\ u.state = "asked" /\ u.sel = pick.ws
      BY <1>1, <1>3, <1>4 DEF CallRows
  <1>6. MayAsk /\ Asks(u) /\ pick.ws # None0 /\ pick.conv = None0 /\ UNCHANGED <<server, pick, lists, pages, known, failed>>
      BY <1>2, <1>4 DEF CreateConversation
  <1>7. AllSettled => Creating(u)  BY <1>5, <1>6 DEF Creating
  <1> QED  BY <1>5, <1>6, <1>7, AskChange

\* A conversation is to be deleted.
LEMMA DeleteKeepsLists == ASSUME ListInv, OneAtATime, DeleteConversation PROVE ListInv'
  <1>1. pick.ws \in Workspaces \cup {None0} /\ pick.conv \in Nat  BY DEF ListInv, ListTypes
  <1>2. PICK ws \in ToSet(known) : \E id \in Ids(lists[ws]) :
            /\ ws = pick.ws \/ UsesOthers
            /\ Asks([Call("delete", pick.ws) EXCEPT !.conv = id, !.sel = pick.conv])
      BY Zenon DEF DeleteConversation
  <1>3. PICK id \in Ids(lists[ws]) :
            /\ ws = pick.ws \/ UsesOthers
            /\ Asks([Call("delete", pick.ws) EXCEPT !.conv = id, !.sel = pick.conv])
      BY <1>2, Zenon
  <1>4. ws = pick.ws /\ MayAsk /\ pick.ws # None0 /\ UNCHANGED <<server, pick, lists, pages, known, failed>>
      BY <1>3 DEF OneAtATime, DeleteConversation
  <1>5. pick.ws \in Workspaces /\ lists[pick.ws] \in Seq(ListRows)  BY <1>1, <1>4 DEF ListInv, ListTypes
  <1>6. id \in Nat
    <2>1. Ids(lists[ws]) = {r.id : r \in ToSet(lists[ws])} /\ ToSet(lists[ws]) \in SUBSET ListRows  BY <1>4, <1>5, RowsListed
    <2>2. \A r \in ListRows : r.id \in Nat  BY DEF ListRows
    <2> QED  BY <2>1, <2>2
  <1>7. PICK b : b = Call("delete", pick.ws)  OBVIOUS
  <1>8. b \in CallRows /\ b.op = "delete" /\ b.ws = pick.ws /\ b.state = "asked"
    <2>1. "delete" \in CallOps  BY DEF CallOps
    <2>2. FreshCall(b, "delete", pick.ws)  BY <1>1, <1>7, <2>1, CallFields
    <2> QED  BY <2>2 DEF FreshCall
  <1>9. PICK u : u = [b EXCEPT !.conv = id, !.sel = pick.conv]  OBVIOUS
  <1>10. u \in CallRows /\ u.op = "delete" /\ u.ws = pick.ws /\ u.state = "asked" /\ u.sel = pick.conv
         /\ u.conv = id
      BY <1>1, <1>6, <1>8, <1>9 DEF CallRows
  <1>11. Asks(u)  BY <1>3, <1>7, <1>9
  <1>12. AllSettled => Deleting(u)
    <2> SUFFICES ASSUME AllSettled PROVE Deleting(u)  OBVIOUS
    <2>1. pick.ws \in server.wss  BY <1>4 DEF AllSettled, RightSpace
    <2>2. id \in HomeIds(pick.ws)  BY <1>4, <2>1 DEF AllSettled, HomeListed
    <2> QED  BY <1>4, <1>10, <2>1, <2>2 DEF AllSettled, Deleting
  <1> QED  BY <1>4, <1>10, <1>11, <1>12, AskChange

\* A conversation is to be renamed.
LEMMA RenameKeepsLists == ASSUME ListInv, OneAtATime, RenameConversation PROVE ListInv'
  <1>1. pick.ws \in Workspaces \cup {None0} /\ pick.conv \in Nat  BY DEF ListInv, ListTypes
  <1>2. PICK ws \in ToSet(known) : \E id \in Ids(lists[ws]) : Asks([Call("rename", pick.ws) EXCEPT !.conv = id])
      BY DEF RenameConversation
  <1>3. PICK id \in Ids(lists[ws]) : Asks([Call("rename", pick.ws) EXCEPT !.conv = id])  BY <1>2
  <1>4. MayAsk /\ pick.ws # None0 /\ UNCHANGED <<server, pick, lists, pages, known, failed>>
      BY DEF RenameConversation
  <1>5. ws \in Workspaces /\ lists[ws] \in Seq(ListRows)
    <2>1. AllSettled  BY <1>4, AtEase
    <2> QED  BY <2>1 DEF AllSettled, KnownExist, ListInv, ListTypes, ServerTypes
  <1>6. id \in Nat
    <2>1. Ids(lists[ws]) = {r.id : r \in ToSet(lists[ws])} /\ ToSet(lists[ws]) \in SUBSET ListRows  BY <1>5, RowsListed
    <2>2. \A r \in ListRows : r.id \in Nat  BY DEF ListRows
    <2> QED  BY <2>1, <2>2
  <1>7. PICK b : b = Call("rename", pick.ws)  OBVIOUS
  <1>8. b \in CallRows /\ b.op = "rename" /\ b.ws = pick.ws /\ b.state = "asked"
    <2>1. "rename" \in CallOps  BY DEF CallOps
    <2>2. FreshCall(b, "rename", pick.ws)  BY <1>1, <1>7, <2>1, CallFields
    <2> QED  BY <2>2 DEF FreshCall
  <1>9. PICK u : u = [b EXCEPT !.conv = id]  OBVIOUS
  <1>10. u \in CallRows /\ u.op = "rename" /\ u.ws = pick.ws /\ u.state = "asked"
      BY <1>6, <1>8, <1>9 DEF CallRows
  <1>11. Asks(u)  BY <1>3, <1>7, <1>9
  <1>12. AllSettled => Renaming(u)  BY <1>4, <1>10 DEF Renaming
  <1> QED  BY <1>4, <1>10, <1>11, <1>12, AskChange

\* A workspace is to be created.
LEMMA CreateSpaceKeepsLists == ASSUME ListInv, OneAtATime, CreateWorkspace PROVE ListInv'
  <1>1. pick.ws \in Nat
    <2>1. pick.ws \in Workspaces \cup {None0}  BY DEF ListInv, ListTypes
    <2> QED  BY <2>1, SpaceIds
  <1>2. PICK ws \in Workspaces \ server.wss : Asks([Call("create_ws", ws) EXCEPT !.sel = pick.ws])
      BY DEF CreateWorkspace
  <1>3. MayAsk /\ UNCHANGED <<server, pick, lists, pages, known, failed>>  BY DEF CreateWorkspace
  <1>4. PICK b : b = Call("create_ws", ws)  OBVIOUS
  <1>5. b \in CallRows /\ b.op = "create_ws" /\ b.ws = ws /\ b.state = "asked"
    <2>1. "create_ws" \in CallOps  BY DEF CallOps
    <2>2. FreshCall(b, "create_ws", ws)  BY <1>4, <2>1, CallFields
    <2> QED  BY <2>2 DEF FreshCall
  <1>6. PICK u : u = [b EXCEPT !.sel = pick.ws]  OBVIOUS
  <1>7. u \in CallRows /\ u.op = "create_ws" /\ u.ws = ws /\ u.state = "asked" /\ u.sel = pick.ws
      BY <1>1, <1>5, <1>6 DEF CallRows
  <1>8. Asks(u)  BY <1>2, <1>4, <1>6
  <1>9. AllSettled => CreatingSpace(u)  BY <1>7 DEF CreatingSpace
  <1> QED  BY <1>3, <1>7, <1>8, <1>9, AskChange

\* A workspace is to be deleted.
LEMMA DeleteSpaceKeepsLists == ASSUME ListInv, OneAtATime, DeleteWorkspace PROVE ListInv'
  <1>1. pick.ws \in Nat
    <2>1. pick.ws \in Workspaces \cup {None0}  BY DEF ListInv, ListTypes
    <2> QED  BY <2>1, SpaceIds
  <1>2. PICK ws \in ToSet(known) : Asks([Call("delete_ws", ws) EXCEPT !.sel = pick.ws])
      BY DEF DeleteWorkspace
  <1>3. MayAsk /\ UNCHANGED <<server, pick, lists, pages, known, failed>>  BY DEF DeleteWorkspace
  <1>4. ws \in Workspaces
    <2>1. AllSettled  BY <1>3, AtEase
    <2> QED  BY <2>1 DEF AllSettled, KnownExist, ListInv, ListTypes, ServerTypes
  <1>5. PICK b : b = Call("delete_ws", ws)  OBVIOUS
  <1>6. b \in CallRows /\ b.op = "delete_ws" /\ b.ws = ws /\ b.state = "asked"
    <2>1. "delete_ws" \in CallOps  BY DEF CallOps
    <2>2. FreshCall(b, "delete_ws", ws)  BY <1>4, <1>5, <2>1, CallFields
    <2> QED  BY <2>2 DEF FreshCall
  <1>7. PICK u : u = [b EXCEPT !.sel = pick.ws]  OBVIOUS
  <1>8. u \in CallRows /\ u.op = "delete_ws" /\ u.ws = ws /\ u.state = "asked" /\ u.sel = pick.ws
      BY <1>1, <1>6, <1>7 DEF CallRows
  <1>9. Asks(u)  BY <1>2, <1>5, <1>7
  <1>10. AllSettled => DeletingSpace(u)  BY <1>4, <1>8 DEF DeletingSpace
  <1> QED  BY <1>3, <1>8, <1>9, <1>10, AskChange

-----------------------------------------------------------------------------
(* The server. *)

\* The least of two numbers
LEMMA LeastOf == ASSUME NEW a \in Nat, NEW b \in Nat
                 PROVE  Min({a, b}) \in {a, b} /\ Min({a, b}) <= a /\ Min({a, b}) <= b
  <1>1. \E x \in {a, b} : \A y \in {a, b} : x =< y
    <2>1. CASE a <= b  BY <2>1
    <2>2. CASE ~(a <= b)  BY <2>2
    <2> QED  BY <2>1, <2>2
  <1>2. Min({a, b}) \in {a, b} /\ \A y \in {a, b} : Min({a, b}) =< y  BY <1>1 DEF Min
  <1> QED  BY <1>2

\* The conversations of a workspace as rows
LEMMA RowsOfSpace ==
    ASSUME ListTypes, Stamped, NEW w
    PROVE  /\ Of(w) \in SUBSET ListRows /\ IsFiniteSet(Of(w)) /\ Of(w) \in SUBSET Marks
           /\ HomeIds(w) = {r.id : r \in Of(w)}
  <1> DEFINE row == [c \in server.convs |-> [id |-> c.id, at |-> c.at]]
             all == {[id |-> c.id, at |-> c.at] : c \in server.convs}
  <1>1. row \in Surjection(server.convs, all)  BY DEF Surjection
  <1>2. IsFiniteSet(server.convs)  BY DEF ListTypes, ServerTypes
  <1>3. IsFiniteSet(all)
    <2> HIDE DEF row, all
    <2> QED  BY <1>1, <1>2, FS_Surjection
  <1>4. Of(w) = {[id |-> c.id, at |-> c.at] : c \in {d \in server.convs : d.ws = w}}  BY DEF Of
  <1>5. Of(w) \in SUBSET all  BY <1>4
  <1>6. IsFiniteSet(Of(w))  BY <1>3, <1>5, FS_Subset
  <1>7. Of(w) \in SUBSET Marks  BY <1>5 DEF Marks, ConvMarks
  <1>8. Of(w) \in SUBSET ListRows  BY <1>7 DEF Stamped
  <1>9. HomeIds(w) = {r.id : r \in Of(w)}
    <2>1. \A x \in HomeIds(w) : x \in {r.id : r \in Of(w)}
      <3> TAKE x \in HomeIds(w)
      <3>1. PICK c \in server.convs : c.ws = w /\ c.id = x  BY DEF HomeIds
      <3>2. PICK r : r = [id |-> c.id, at |-> c.at]  OBVIOUS
      <3>3. r \in Of(w) /\ r.id = x  BY <1>4, <3>1, <3>2
      <3> QED  BY <3>3
    <2>2. \A r \in Of(w) : r.id \in HomeIds(w)
      <3> TAKE r \in Of(w)
      <3>1. PICK c \in server.convs : c.ws = w /\ r = [id |-> c.id, at |-> c.at]  BY <1>4
      <3> QED  BY <3>1 DEF HomeIds
    <2> QED  BY <2>1, <2>2
  <1> QED  BY <1>6, <1>7, <1>8, <1>9

\* What a page answers: conversations of the workspace, all of them when none follow.
PageOf(p, c) ==
    /\ p \in ListPages /\ ToSet(p.rows) \subseteq Marks
    /\ Ids(p.rows) \subseteq HomeIds(c.ws)
    /\ p.more => p.rows # <<>>
    /\ c.cursor = None0 /\ ~p.more => HomeIds(c.ws) \subseteq Ids(p.rows)

\* The server answers such a page.
LEMMA PageRows ==
    ASSUME ListTypes, Stamped, NEW c \in CallRows
    PROVE  PageOf(Page(c), c)
  <1> DEFINE S == {r \in Of(c.ws) : c.cursor = None0 \/ r.at < c.cursor}
  <1>1. /\ Of(c.ws) \in SUBSET ListRows /\ IsFiniteSet(Of(c.ws)) /\ Of(c.ws) \in SUBSET Marks
        /\ HomeIds(c.ws) = {r.id : r \in Of(c.ws)}
      BY RowsOfSpace
  <1>2. S \in SUBSET Of(c.ws)  OBVIOUS
  <1>3. S \in SUBSET ListRows /\ IsFiniteSet(S)  BY <1>1, <1>2, FS_Subset
  <1>4. OneEach(S)  BY <1>1, <1>2 DEF Stamped, OneEach
  <1>5. PICK rows : rows = Newest(S)  OBVIOUS
  <1>6. rows \in Seq(ListRows) /\ ToSet(rows) = S  BY <1>3, <1>4, <1>5, NewestRows
  <1>7. PICK n : n = Len(rows) /\ n \in Nat  BY <1>6
  <1>8. PICK k : k = Min({PageSize, n})  OBVIOUS
  <1>9. PageSize \in Nat /\ PageSize >= 1  BY ListsAssumption
  <1>10. k \in {PageSize, n} /\ k <= PageSize /\ k <= n /\ k \in Nat  BY <1>7, <1>8, <1>9, LeastOf
  <1>11. PICK part : part = SubSeq(rows, 1, k)  OBVIOUS
  <1>12. part \in Seq(ListRows) /\ Len(part) = k /\ \A j \in 1 .. k : part[j] = rows[j]
    <2>1. \A j \in 1 .. k : rows[j] \in ListRows
      <3>1. \A j \in 1 .. k : j \in 1 .. Len(rows)  BY <1>7, <1>10
      <3> QED  BY <1>6, <3>1, ElementOfSeq
    <2>2. /\ part \in Seq(ListRows) /\ Len(part) = IF 1 <= k THEN k - 1 + 1 ELSE 0
          /\ \A j \in 1 .. k - 1 + 1 : part[j] = rows[1 + j - 1]
        BY <1>10, <1>11, <2>1, SubSeqProperties
    <2>3. \A j \in 1 .. k : j \in 1 .. k - 1 + 1 /\ 1 + j - 1 = j  BY <1>10
    <2> QED  BY <1>10, <2>2, <2>3
  <1>13. Page(c) = [rows |-> part, more |-> n > PageSize]  BY <1>5, <1>7, <1>8, <1>11 DEF Page
  <1>14. ToSet(part) \subseteq S
    <2>1. ToSet(part) = {part[j] : j \in 1 .. k} /\ ToSet(rows) = {rows[j] : j \in 1 .. n}
        BY <1>6, <1>7, <1>12 DEF ToSet
    <2>2. \A j \in 1 .. k : j \in 1 .. n  BY <1>7, <1>10
    <2> QED  BY <1>6, <1>12, <2>1, <2>2
  <1>15. ~(n > PageSize) => ToSet(part) = S
    <2> SUFFICES ASSUME ~(n > PageSize) PROVE ToSet(part) = S  OBVIOUS
    <2>1. k = n  BY <1>7, <1>9, <1>10
    <2>2. ToSet(part) = {part[j] : j \in 1 .. k} /\ ToSet(rows) = {rows[j] : j \in 1 .. n}
        BY <1>6, <1>7, <1>12 DEF ToSet
    <2> QED  BY <1>6, <1>12, <2>1, <2>2
  <1>16. n > PageSize => part # <<>>
    <2> SUFFICES ASSUME n > PageSize, part = <<>> PROVE FALSE  OBVIOUS
    <2>1. k = PageSize  BY <1>7, <1>9, <1>10
    <2>2. Len(part) = 0  OBVIOUS
    <2> QED  BY <1>9, <1>12, <2>1, <2>2
  <1>17. Ids(part) = {r.id : r \in ToSet(part)}  BY <1>12, RowsListed
  <1>18. c.cursor = None0 => S = Of(c.ws)  OBVIOUS
  <1>19. PICK p : p = Page(c)  OBVIOUS
  <1> HIDE DEF S
  <1>20. p.rows = part /\ p.more = (n > PageSize)  BY <1>13, <1>19
  <1>21. p \in ListPages  BY <1>12, <1>13, <1>19 DEF ListPages
  <1>22. ToSet(p.rows) \subseteq Marks  BY <1>1, <1>2, <1>14, <1>20
  <1>23. Ids(p.rows) \subseteq HomeIds(c.ws)  BY <1>1, <1>2, <1>14, <1>17, <1>20
  <1>24. p.more => p.rows # <<>>  BY <1>16, <1>20
  <1>25. c.cursor = None0 /\ ~p.more => HomeIds(c.ws) \subseteq Ids(p.rows)  BY <1>1, <1>15, <1>17, <1>18, <1>20
  <1> QED  BY <1>19, <1>21, <1>22, <1>23, <1>24, <1>25 DEF PageOf

\* A conversation that is put gets the time of the change: it may be one there was, or new.
PutAt(id, ws) ==
    /\ id \in Nat \ {0} /\ ws \in server.wss
    /\ id = server.last + 1 \/ \E c \in server.convs : c.id = id /\ c.ws = ws
    /\ server' = [server EXCEPT !.convs = Put(id, ws), !.last = server.last + 1] /\ lists' = lists
    /\ \A c \in ToSet(calls)' : AnswerRows(c) = {} \/ c \in ToSet(calls)
HasPut(id, ws) ==
    /\ ServerTypes' /\ Stamped' /\ Homes' /\ server'.wss = server.wss
    /\ HomeIds(ws)' = HomeIds(ws) \cup {id}
    /\ \A w : w # ws => HomeIds(w)' = HomeIds(w)
    /\ \A x : OnServer(x)' <=> OnServer(x) \/ x = id
\* It is the last changed, and every other conversation is as it was.
LEMMA PutStamps == ASSUME ListTypes, Stamped, Homes, NEW id, NEW ws, PutAt(id, ws) PROVE HasPut(id, ws)
  <1>0. /\ id \in Nat \ {0} /\ ws \in server.wss /\ lists' = lists
        /\ id = server.last + 1 \/ \E c \in server.convs : c.id = id /\ c.ws = ws
      BY DEF PutAt
  <1>1. PICK l : l = server.last  OBVIOUS
  <1>2. /\ server \in [wss : SUBSET Workspaces, convs : SUBSET ConvRows, last : Nat] /\ l \in Nat
        /\ ws \in Workspaces /\ IsFiniteSet(server.convs) /\ IsFiniteSet(server.wss)
      BY <1>0, <1>1 DEF ListTypes, ServerTypes
  <1>3. PICK new : new = [id |-> id, ws |-> ws, at |-> l + 1]  OBVIOUS
  <1>4. new \in ConvRows /\ new.id = id /\ new.ws = ws /\ new.at = l + 1  BY <1>0, <1>2, <1>3 DEF ConvRows
  <1>5. PICK kept : kept = {c \in server.convs : c.id # id}  OBVIOUS
  <1>6. server'.wss = server.wss /\ server'.convs = kept \cup {new} /\ server'.last = l + 1
      BY <1>1, <1>2, <1>3, <1>5 DEF Put, PutAt
  <1>7. kept \in SUBSET server.convs /\ \A c \in server.convs : c.id # id => c \in kept  BY <1>5
  <1>8. \A c \in kept : c.id # id  BY <1>5
  <1>9. IsFiniteSet(kept \cup {new})
    <2>1. IsFiniteSet(kept)  BY <1>2, <1>7, FS_Subset
    <2>2. IsFiniteSet({new})  BY FS_Singleton
    <2> QED  BY <2>1, <2>2, FS_Union
  <1>10. ServerTypes'
    <2>1. server' = [wss |-> server'.wss, convs |-> server'.convs, last |-> server'.last]  BY <1>2  DEF PutAt
    <2>2. server'.convs \in SUBSET ConvRows  BY <1>2, <1>4, <1>6, <1>7
    <2>3. server' \in [wss : SUBSET Workspaces, convs : SUBSET ConvRows, last : Nat]  BY <1>2, <1>6, <2>1, <2>2
    <2> QED  BY <1>2, <1>6, <1>9, <2>3 DEF ServerTypes
  <1>11. id <= l + 1
    <2>1. ASSUME NEW c \in server.convs, c.id = id PROVE id <= l
      <3>1. [id |-> c.id, at |-> c.at] \in Marks  BY DEF Marks, ConvMarks
      <3> QED  BY <1>1, <2>1, <3>1 DEF Stamped
    <2> QED  BY <1>0, <1>1, <1>2, <2>1
  <1>12. PICK mark : mark = [id |-> id, at |-> l + 1]  OBVIOUS
  <1>13. mark \in ListRows /\ mark.id = id /\ mark.at = l + 1  BY <1>0, <1>2, <1>12 DEF ListRows
  <1>14. Marks' \subseteq Marks \cup {mark}
    <2>1. AnswerMarks' \subseteq AnswerMarks
      <3>1. UNION {AnswerRows(c) : c \in ToSet(calls)'} \subseteq UNION {AnswerRows(c) : c \in ToSet(calls)}  BY DEF PutAt
      <3> QED  BY <3>1 DEF AnswerMarks, AnswerRows
    <2>2. ListMarks' = ListMarks  BY DEF ListMarks, PutAt
    <2>3. ConvMarks' \subseteq ConvMarks \cup {mark}  BY <1>4, <1>6, <1>7, <1>12 DEF ConvMarks
    <2> QED  BY <2>1, <2>2, <2>3 DEF Marks
  <1>15. \A m \in Marks : m \in ListRows /\ m.at <= l /\ m.id <= l  BY <1>1 DEF Stamped
  <1>16. \A m \in ListRows : m.at \in Nat /\ m.id \in Nat  BY DEF ListRows
  <1>17. Stamped'
    <2>1. \A m \in Marks' : m \in ListRows /\ m.at <= l + 1 /\ m.id <= l + 1
      <3> TAKE m \in Marks'
      <3>1. CASE m \in Marks
        <4>1. m \in ListRows /\ m.at <= l /\ m.id <= l /\ m.at \in Nat /\ m.id \in Nat  BY <1>15, <1>16, <3>1
        <4> QED  BY <1>2, <4>1
      <3>2. CASE m = mark  BY <1>2, <1>11, <1>13, <3>2
      <3> QED  BY <1>14, <3>1, <3>2
    <2>2. \A m \in Marks : m.at # mark.at
      <3> TAKE m \in Marks
      <3>1. m.at <= l /\ m.at \in Nat  BY <1>15, <1>16
      <3> QED  BY <1>2, <1>13, <3>1
    <2>3. OneEach(Marks')  BY <1>14, <2>2 DEF OneEach, Stamped
    <2> QED  BY <1>6, <2>1, <2>3 DEF Stamped, OneEach
  <1>18. \A c \in server'.convs : c.id = id => c = new  BY <1>6, <1>8
  <1>19. Homes'
    <2>1. \A c, d \in server'.convs : c.id = d.id => c = d  BY <1>4, <1>6, <1>7, <1>8 DEF Homes
    <2>2. \A c \in server'.convs : c.ws \in server'.wss  BY <1>0, <1>4, <1>6, <1>7 DEF Homes
    <2>3. \A w \in Workspaces : \A r \in ToSet(lists'[w]), c \in server'.convs : c.id = r.id => c.ws = w
      <3> SUFFICES ASSUME NEW w \in Workspaces, NEW r \in ToSet(lists[w]), NEW c \in server'.convs, c.id = r.id
                   PROVE  c.ws = w
          BY <1>0
      <3>1. CASE c \in kept  BY <1>7, <3>1 DEF Homes
      <3>2. CASE c = new
        <4>1. r \in Marks  BY DEF Marks, ListMarks
        <4>2. r.id <= l /\ r.id \in Nat  BY <1>15, <1>16, <4>1
        <4>3. r.id # l + 1  BY <1>2, <4>2
        <4>4. PICK d \in server.convs : d.id = id /\ d.ws = ws  BY <1>0, <1>1, <1>4, <3>2, <4>3
        <4> QED  BY <1>4, <3>2, <4>4 DEF Homes
      <3> QED  BY <1>6, <3>1, <3>2
    <2> QED  BY <2>1, <2>2, <2>3 DEF Homes
  <1>20. ASSUME NEW w PROVE HomeIds(w)' = {c.id : c \in {d \in server'.convs : d.ws = w}}  BY DEF HomeIds
  <1>21. HomeIds(ws)' = HomeIds(ws) \cup {id}
    <2>1. \A x \in HomeIds(ws)' : x \in HomeIds(ws) \cup {id}  BY <1>4, <1>6, <1>7, <1>20 DEF HomeIds
    <2>2. id \in HomeIds(ws)'  BY <1>4, <1>6, <1>20
    <2>3. \A x \in HomeIds(ws) : x \in HomeIds(ws)'
      <3> TAKE x \in HomeIds(ws)
      <3>1. PICK c \in server.convs : c.ws = ws /\ c.id = x  BY DEF HomeIds
      <3>2. CASE c.id = id  BY <2>2, <3>1, <3>2
      <3>3. CASE c.id # id  BY <1>6, <1>7, <1>20, <3>1, <3>3
      <3> QED  BY <3>2, <3>3
    <2> QED  BY <2>1, <2>2, <2>3
  <1>22. ASSUME NEW w, w # ws PROVE HomeIds(w)' = HomeIds(w)
    <2>1. \A x \in HomeIds(w)' : x \in HomeIds(w)  BY <1>4, <1>6, <1>7, <1>20, <1>22 DEF HomeIds
    <2>2. \A x \in HomeIds(w) : x \in HomeIds(w)'
      <3> TAKE x \in HomeIds(w)
      <3>1. PICK c \in server.convs : c.ws = w /\ c.id = x  BY DEF HomeIds
      <3>2. c.id # id
        <4>1. c.id = server.last + 1 => FALSE
          <5>1. [id |-> c.id, at |-> c.at] \in Marks  BY DEF Marks, ConvMarks
          <5>2. c.id <= l /\ c.id \in Nat  BY <1>15, <1>16, <5>1
          <5> QED  BY <1>1, <1>2, <5>2
        <4> QED  BY <1>0, <1>22, <3>1, <4>1 DEF Homes
      <3> QED  BY <1>6, <1>7, <1>20, <3>1, <3>2
    <2> QED  BY <2>1, <2>2
  <1>23. \A x : OnServer(x)' <=> OnServer(x) \/ x = id
    <2> TAKE x
    <2>1. OnServer(x)' <=> \E c \in kept \cup {new} : c.id = x  BY <1>6 DEF OnServer
    <2> QED  BY <1>4, <1>7, <2>1 DEF OnServer
  <1> QED  BY <1>6, <1>10, <1>17, <1>19, <1>21, <1>22, <1>23 DEF HasPut

\* What the invariant says depends on the server by its workspaces and their conversations.
LEMMA SameServer ==
    ASSUME ListInv, server'.wss = server.wss, UNCHANGED <<pick, lists, pages, known, calls>>,
           \A w : HomeIds(w)' = HomeIds(w), \A x : OnServer(x)' <=> OnServer(x),
           ServerTypes', Stamped', Homes'
    PROVE  ListInv'
  <1>1. ListTypes'  BY DEF ListInv, ListTypes
  <1>2. \A w : HomeListed(w)' <=> HomeListed(w)  BY DEF HomeListed, Ids
  <1>3. RightSpace' = RightSpace /\ KnownExist' = KnownExist /\ InReach' = InReach /\ FirstOf' = FirstOf
      BY DEF RightSpace, KnownExist, InReach, FirstOf, Ids, ToSet
  <1>4. AllSettled' = AllSettled  BY <1>2, <1>3 DEF AllSettled
  <1>5. \A c : PageFine(c)' <=> PageFine(c)  BY DEF PageFine, Ids
  <1>6. \A c : SpacesFine(c)' <=> SpacesFine(c)  BY DEF SpacesFine
  <1>7. \A c : Reads(c)' <=> Reads(c)  BY <1>3, <1>5, <1>6 DEF Reads, ListFine
  <1>8. \A w, s : Founding(w, s)' <=> Founding(w, s)  BY <1>2 DEF Founding
  <1>9. ToSet(calls)' = ToSet(calls) /\ Len(calls)' = Len(calls) /\ calls' = calls  OBVIOUS
  <1>10. Refreshing' = Refreshing  BY <1>9 DEF Refreshing
  <1>11. Loading => Loading'  BY <1>2, <1>3, <1>7, <1>9, <1>10 DEF Loading
  <1>12. Homeless => Homeless'  BY <1>2, <1>6, <1>9 DEF Homeless
  <1>13. Founded => Founded'  BY <1>6, <1>8, <1>9 DEF Founded
  <1>14. Asking => Asking'
    <2> SUFFICES ASSUME Asking PROVE Asking'  OBVIOUS
    <2> PICK u : u = calls[1]  OBVIOUS
    <2>1. Creating(u) => Creating(u)'  BY <1>4 DEF Creating
    <2>2. Deleting(u) => Deleting(u)'
      <3>1. Ids(lists[u.ws])' = Ids(lists[u.ws])  BY DEF Ids
      <3> QED  BY <1>2, <1>3, <3>1 DEF Deleting
    <2>3. Renaming(u) => Renaming(u)'  BY <1>4 DEF Renaming
    <2>4. CreatingSpace(u) => CreatingSpace(u)'  BY <1>4, <1>8 DEF CreatingSpace
    <2>5. DeletingSpace(u) => DeletingSpace(u)'  BY <1>2, <1>3, <1>4 DEF DeletingSpace
    <2> QED  BY <2>1, <2>2, <2>3, <2>4, <2>5 DEF Asking
  <1> QED  BY <1>1, <1>11, <1>12, <1>13, <1>14 DEF ListInv

\* A turn changes the time of a conversation.
LEMMA TouchKeepsLists == ASSUME ListInv, Touch PROVE ListInv'
  <1>1. PICK c \in server.convs : server' = [server EXCEPT !.convs = Put(c.id, c.ws), !.last = server.last + 1]
      BY Zenon DEF Touch
  <1>2. UNCHANGED <<pick, lists, pages, known, calls>>  BY DEF Touch
  <1>3. ListTypes /\ Stamped /\ Homes  BY DEF ListInv
  <1>4. c.id \in Nat \ {0}
    <2>1. server.convs \in SUBSET ConvRows  BY <1>3 DEF ListTypes, ServerTypes
    <2> QED  BY <2>1 DEF ConvRows
  <1>5. c.ws \in server.wss  BY <1>3 DEF Homes
  <1>8. PICK id, ws : id = c.id /\ ws = c.ws  OBVIOUS
  <1>9. HasPut(id, ws)
    <2>1. server' = [server EXCEPT !.convs = Put(id, ws), !.last = server.last + 1]  BY <1>1, <1>8
    <2>2. id \in Nat \ {0} /\ ws \in server.wss /\ lists' = lists  BY <1>2, <1>4, <1>5, <1>8
    <2>3. \E d \in server.convs : d.id = id /\ d.ws = ws  BY <1>8
    <2>4. \A d \in ToSet(calls)' : AnswerRows(d) = {} \/ d \in ToSet(calls)  BY <1>2
    <2>5. PutAt(id, ws)  BY <2>1, <2>2, <2>3, <2>4 DEF PutAt
    <2> QED  BY <1>3, <2>5, PutStamps
  <1>10. id \in HomeIds(ws)  BY <1>8 DEF HomeIds
  <1>11. \A w : HomeIds(w)' = HomeIds(w)  BY <1>9, <1>10 DEF HasPut
  <1>12. \A x : OnServer(x)' <=> OnServer(x)  BY <1>8, <1>9 DEF OnServer, HasPut
  <1>13. ServerTypes' /\ Stamped' /\ Homes' /\ server'.wss = server.wss  BY <1>9 DEF HasPut
  <1> QED  BY <1>2, <1>11, <1>12, <1>13, SameServer

\* An answer changes its request alone.
Answering(d, c, a) ==
    /\ d \in CallRows /\ d.op = c.op /\ d.ws = c.ws /\ d.conv = c.conv /\ d.preserve = c.preserve /\ d.cursor = c.cursor
    /\ d.sel = c.sel /\ d.then = c.then /\ d.state = "answered" /\ d.answer = a
AnsweredTo(i, d) ==
    /\ calls' \in Seq(CallRows) /\ Len(calls') = Len(calls) /\ calls'[i] = d
    /\ ToSet(calls)' \subseteq ToSet(calls) \cup {d} /\ d \in ToSet(calls)'
    /\ \A c \in ToSet(calls) : c # calls[i] => c \in ToSet(calls)'

AnswersWith(i, a) == calls' = [calls EXCEPT ![i].state = "answered", ![i].answer = a]

\* The server's answer is put in its request.
LEMMA AnswerTo ==
    ASSUME calls \in Seq(CallRows), NEW i \in DOMAIN calls, NEW a \in Seq(ListPages) \cup Seq(Nat), AnswersWith(i, a)
    PROVE  \E d : Answering(d, calls[i], a) /\ AnsweredTo(i, d)
  <1>1. PICK c : c = calls[i]  OBVIOUS
  <1>2. c \in CallRows /\ DOMAIN calls = 1 .. Len(calls) /\ i \in 1 .. Len(calls)  BY <1>1, ElementOfSeq
  <1>3. PICK b : b = [c EXCEPT !.state = "answered"]  OBVIOUS
  <1>4. /\ b \in CallRows /\ b.op = c.op /\ b.ws = c.ws /\ b.conv = c.conv /\ b.preserve = c.preserve /\ b.cursor = c.cursor
        /\ b.sel = c.sel /\ b.then = c.then /\ b.state = "answered"
      BY <1>2, <1>3 DEF CallRows
  <1>5. PICK d : d = [b EXCEPT !.answer = a]  OBVIOUS
  <1>6. Answering(d, c, a)  BY <1>4, <1>5 DEF CallRows, Answering
  <1>7. d \in CallRows  BY <1>6 DEF Answering
  <1>8. calls' = [calls EXCEPT ![i] = d]
    <2>1. [[calls EXCEPT ![i].state = "answered"] EXCEPT ![i].answer = a] = [calls EXCEPT ![i] = d]
        BY <1>1, <1>2, <1>3, <1>5
    <2> QED  BY <2>1 DEF AnswersWith
  <1>9. calls' \in Seq(CallRows) /\ Len(calls') = Len(calls) /\ calls'[i] = d
        /\ \A k \in 1 .. Len(calls) : k # i => calls'[k] = calls[k]
    <2>1. PICK q : q = [calls EXCEPT ![i] = d]  OBVIOUS
    <2>2. q \in Seq(CallRows) /\ Len(q) = Len(calls)  BY <1>2, <1>7, <2>1, ExceptSeq
    <2>3. q[i] = d /\ \A k \in 1 .. Len(calls) : k # i => q[k] = calls[k]  BY <1>2, <2>1
    <2> QED  BY <1>8, <2>1, <2>2, <2>3
  <1>10. ToSet(calls') = {calls'[k] : k \in 1 .. Len(calls)} /\ ToSet(calls) = {calls[k] : k \in 1 .. Len(calls)}
      BY <1>2, <1>9 DEF ToSet
  <1>11. AnsweredTo(i, d)  BY <1>1, <1>2, <1>9, <1>10 DEF AnsweredTo
  <1> QED  BY <1>1, <1>6, <1>11

\* Which phase has which requests
LEMMA PhaseOf ==
    ASSUME ListInv, NEW i \in DOMAIN calls
    PROVE  LET c == calls[i] IN
           /\ c \in CallRows /\ c \in ToSet(calls)
           /\ c.op = "list" => Loading
           /\ c.op = "workspaces" => Loading \/ Homeless \/ Founded
           /\ c.op \notin {"list", "workspaces"} => Len(calls) = 1 /\ i = 1 /\ Asking
           /\ c.op = "create" => Creating(c)
           /\ c.op = "delete" => Deleting(c)
           /\ c.op = "rename" => Renaming(c)
           /\ c.op = "create_ws" => CreatingSpace(c)
           /\ c.op = "delete_ws" => DeletingSpace(c)
  <1>1. calls \in Seq(CallRows)  BY DEF ListInv, ListTypes
  <1>2. PICK c : c = calls[i]  OBVIOUS
  <1>3. c \in CallRows /\ c \in ToSet(calls)  BY <1>1, <1>2, ElementOfSeq DEF ToSet
  <1>4. Loading => c.op \in {"list", "workspaces"}  BY <1>3 DEF Loading, Reads
  <1>5. Homeless => c.op = "workspaces"  BY <1>3 DEF Homeless
  <1>6. Len(calls) = 1 => i = 1 /\ c = calls[1]  BY <1>1, <1>2, TheOnly
  <1>7. Founded => c.op = "workspaces"  BY <1>6 DEF Founded
  <1>8. Asking => Len(calls) = 1 /\ i = 1
                  /\ (Creating(c) \/ Deleting(c) \/ Renaming(c) \/ CreatingSpace(c) \/ DeletingSpace(c))
      BY <1>6 DEF Asking
  <1>9. (Creating(c) => c.op = "create") /\ (Deleting(c) => c.op = "delete") /\ (Renaming(c) => c.op = "rename")
        /\ (CreatingSpace(c) => c.op = "create_ws") /\ (DeletingSpace(c) => c.op = "delete_ws")
      BY DEF Creating, Deleting, Renaming, CreatingSpace, DeletingSpace
  <1>10. Loading \/ Homeless \/ Founded \/ Asking  BY DEF ListInv
  <1> QED  BY <1>2, <1>3, <1>4, <1>5, <1>7, <1>8, <1>9, <1>10

\* The answer of a page or of the workspaces, or of a request that changes no list: what is
\* left to show is what the request itself is owed.
LEMMA AnswerRead ==
    ASSUME ListInv, NEW i \in DOMAIN calls, NEW d, AnsweredTo(i, d), d.op = calls[i].op, d.cursor = calls[i].cursor,
           d.op \in {"list", "workspaces"}, UNCHANGED <<server, pick, lists, pages, known>>,
           AnswerRows(d) \subseteq Marks,
           Loading => Reads(d),
           d.then = calls[i].then, d.sel = calls[i].sel, d.op = "workspaces" => SpacesFine(d)
    PROVE  ListInv'
  <1>1. PICK c : c = calls[i]  OBVIOUS
  <1>2. c \in CallRows /\ c \in ToSet(calls)  BY <1>1, PhaseOf
  <1>3. /\ calls' \in Seq(CallRows) /\ Len(calls') = Len(calls) /\ calls'[i] = d
        /\ ToSet(calls') \subseteq ToSet(calls) \cup {d} /\ d \in ToSet(calls')
        /\ \A x \in ToSet(calls) : x # c => x \in ToSet(calls')
      BY <1>1 DEF AnsweredTo
  <1>4. ListTypes'  BY <1>3 DEF ListInv, ListTypes, ServerTypes
  <1>5. Marks' \subseteq Marks
    <2>1. AnswerMarks' \subseteq AnswerMarks \cup AnswerRows(d)
      <3>1. AnswerMarks' = UNION {AnswerRows(x) : x \in ToSet(calls')}  BY DEF AnswerMarks, AnswerRows
      <3>2. \A x \in ToSet(calls) : AnswerRows(x) \subseteq AnswerMarks  BY DEF AnswerMarks
      <3>3. \A x \in ToSet(calls') : AnswerRows(x) \subseteq AnswerMarks \cup AnswerRows(d)  BY <1>3, <3>2
      <3> QED  BY <3>1, <3>3
    <2>2. ConvMarks' = ConvMarks /\ ListMarks' = ListMarks  BY DEF ConvMarks, ListMarks
    <2> QED  BY <2>1, <2>2 DEF Marks
  <1>6. Stamped' /\ Homes'
    <2>1. Stamped'  BY <1>5 DEF ListInv, Stamped, OneEach
    <2>2. Homes'  BY DEF ListInv, Homes
    <2> QED  BY <2>1, <2>2
  <1>7. /\ \A w : HomeListed(w)' <=> HomeListed(w)
        /\ \A w : HomeIds(w)' = HomeIds(w)
        /\ \A x : OnServer(x)' <=> OnServer(x)
      BY DEF HomeListed, HomeIds, Ids, OnServer
  <1>8. RightSpace' = RightSpace /\ KnownExist' = KnownExist /\ InReach' = InReach /\ FirstOf' = FirstOf
      BY DEF RightSpace, KnownExist, InReach, FirstOf, HomeIds, Ids, ToSet
  <1>9. \A x : PageFine(x)' <=> PageFine(x)  BY <1>7 DEF PageFine, Ids
  <1>10. \A x : SpacesFine(x)' <=> SpacesFine(x)  BY DEF SpacesFine
  <1>11. \A x : Reads(x)' <=> Reads(x)  BY <1>7, <1>8, <1>9, <1>10 DEF Reads, ListFine
  <1>12. d.op = c.op /\ d.cursor = c.cursor /\ d.then = c.then /\ d.sel = c.sel  BY <1>1
  <1>13. Loading => Loading'
    <2> SUFFICES ASSUME Loading PROVE Loading'  OBVIOUS
    <2>1. KnownExist' \/ \E x \in ToSet(calls') : x.op = "workspaces"
      <3>1. ASSUME NEW x \in ToSet(calls), x.op = "workspaces" PROVE \E y \in ToSet(calls') : y.op = "workspaces"
          BY <1>3, <1>12, <3>1
      <3> QED  BY <1>8, <3>1 DEF Loading
    <2>2. \A x \in ToSet(calls') : Reads(x)'  BY <1>3, <1>11 DEF Loading
    <2>3. Refreshing => Refreshing'
      <3>2. Refreshing => \A x \in ToSet(calls') : x.op = "list" => x.cursor = None0  BY <1>2, <1>3, <1>12 DEF Refreshing
      <3>3. ASSUME NEW x \in ToSet(calls), x.op = "list" PROVE \E y \in ToSet(calls') : y.op = "list"
          BY <1>3, <1>12, <3>3
      <3> QED  BY <1>7, <3>2, <3>3 DEF Refreshing
    <2> QED  BY <1>7, <1>8, <2>1, <2>2, <2>3 DEF Loading
  <1>14. Homeless => Homeless'
    <2> SUFFICES ASSUME Homeless PROVE Homeless'  OBVIOUS
    <2>1. calls' # <<>>
      <3>1. Len(calls) # 0  BY DEF Homeless, ListInv, ListTypes
      <3> QED  BY <1>3, <3>1
    <2>2. \A x \in ToSet(calls') : /\ x.op = "workspaces" /\ SpacesFine(x)' /\ x.then = None0
                                   /\ x.sel \notin server'.wss
      <3>1. \A x \in ToSet(calls) : x.op = "workspaces" /\ SpacesFine(x) /\ x.then = None0 /\ x.sel \notin server.wss
          BY DEF Homeless
      <3>2. d.op = "workspaces" /\ SpacesFine(d) /\ d.then = None0 /\ d.sel \notin server.wss  BY <1>2, <1>12, <3>1
      <3> QED  BY <1>3, <1>10, <3>1, <3>2
    <2> QED  BY <1>7, <2>1, <2>2 DEF Homeless
  <1>15. Founded => Founded'
    <2> SUFFICES ASSUME Founded PROVE Founded'  OBVIOUS
    <2>1. i = 1  BY TheOnly DEF Founded, ListInv, ListTypes
    <2>2. \A w, s : Founding(w, s)' <=> Founding(w, s)  BY <1>7 DEF Founding
    <2>3. d.op = "workspaces" /\ Founding(d.then, d.sel)  BY <1>1, <1>12, <2>1 DEF Founded
    <2> QED  BY <1>3, <1>10, <2>1, <2>2, <2>3 DEF Founded
  <1>16. ~Asking
    <2>1. Asking => i = 1  BY TheOnly DEF Asking, ListInv, ListTypes
    <2> QED  BY <2>1 DEF Asking, Creating, Deleting, Renaming, CreatingSpace, DeletingSpace
  <1> QED  BY <1>4, <1>6, <1>13, <1>14, <1>15, <1>16 DEF ListInv

\* A page is answered.
LEMMA ServeList ==
    ASSUME ListInv, NEW i \in DOMAIN calls, calls[i].op = "list",
           AnswersWith(i, <<Page(calls[i])>>),
           UNCHANGED <<server, pick, lists, pages, known>>
    PROVE  ListInv'
  <1>1. PICK c : c = calls[i]  OBVIOUS
  <1>2. c \in CallRows /\ c \in ToSet(calls) /\ Loading  BY <1>1, PhaseOf
  <1>3. ListTypes /\ Stamped /\ calls \in Seq(CallRows)  BY DEF ListInv, ListTypes
  <1>4. PICK p : p = Page(c)  OBVIOUS
  <1>5. PageOf(p, c)  BY <1>2, <1>3, <1>4, PageRows
  <1>6. PICK a : a = <<p>>  OBVIOUS
  <1>7. a \in Seq(ListPages) /\ Len(a) = 1 /\ a[1] = p
    <2>1. p \in ListPages  BY <1>5 DEF PageOf
    <2> QED  BY <1>6, <2>1, OneCall
  <1>8. PICK d : Answering(d, c, a) /\ AnsweredTo(i, d)
    <2>1. a \in Seq(ListPages) \cup Seq(Nat)  BY <1>7
    <2>2. AnswersWith(i, a)  BY <1>1, <1>4, <1>6
    <2> QED  BY <1>1, <1>3, <2>1, <2>2, AnswerTo
  <1>9. /\ d.op = "list" /\ d.cursor = c.cursor /\ d.then = c.then /\ d.sel = c.sel /\ d.ws = c.ws /\ d.state = "answered"
        /\ d.answer = a
      BY <1>1, <1>8 DEF Answering
  <1>10. AnswerRows(d) \subseteq Marks
    <2>1. AnswerRows(d) = ToSet(p.rows)  BY <1>7, <1>9 DEF AnswerRows
    <2> QED  BY <1>5, <2>1 DEF PageOf
  <1>11. PageFine(d)  BY <1>5, <1>7, <1>9 DEF PageFine, PageOf
  <1>12. Reads(d)
    <2>1. Reads(c) /\ c.op = "list"  BY <1>1, <1>2 DEF Loading
    <2>2. ListFine(c)  BY <2>1 DEF Reads
    <2>3. ListFine(d)  BY <1>9, <1>11, <2>2 DEF ListFine
    <2> QED  BY <1>9, <2>3 DEF Reads
  <1>13. d.op = calls[i].op /\ d.cursor = calls[i].cursor /\ d.then = calls[i].then /\ d.sel = calls[i].sel
         /\ d.op \in {"list", "workspaces"} /\ (d.op = "workspaces" => SpacesFine(d))
      BY <1>1, <1>9
  <1> QED  BY <1>8, <1>10, <1>12, <1>13, AnswerRead

\* The workspaces are answered.
LEMMA ServeSpaces ==
    ASSUME ListInv, NEW i \in DOMAIN calls, calls[i].op = "workspaces",
           AnswersWith(i, Listed(server.wss)),
           UNCHANGED <<server, pick, lists, pages, known>>
    PROVE  ListInv'
  <1>1. PICK c : c = calls[i]  OBVIOUS
  <1>2. c \in CallRows /\ c \in ToSet(calls)  BY <1>1, PhaseOf
  <1>3. calls \in Seq(CallRows) /\ server.wss \in SUBSET Workspaces /\ IsFiniteSet(server.wss)
      BY DEF ListInv, ListTypes, ServerTypes
  <1>4. PICK a : a = Listed(server.wss)  OBVIOUS
  <1>5. a \in Seq(Nat)
    <2>1. Listed(server.wss) \in Seq(Workspaces)  BY <1>3, ListedAll
    <2>2. Workspaces \subseteq Nat  BY SpaceIds
    <2>3. Seq(Workspaces) \subseteq Seq(Nat)  BY <2>2, SeqMonotonic
    <2> QED  BY <1>4, <2>1, <2>3
  <1>6. PICK d : Answering(d, c, a) /\ AnsweredTo(i, d)
    <2>1. a \in Seq(ListPages) \cup Seq(Nat)  BY <1>5
    <2>2. AnswersWith(i, a)  BY <1>4
    <2> QED  BY <1>1, <1>3, <2>1, <2>2, AnswerTo
  <1>7. /\ d.op = "workspaces" /\ d.cursor = c.cursor /\ d.then = c.then /\ d.sel = c.sel /\ d.answer = a
      BY <1>1, <1>6 DEF Answering
  <1>8. AnswerRows(d) \subseteq Marks  BY <1>7 DEF AnswerRows
  <1>9. SpacesFine(d)  BY <1>4, <1>7 DEF SpacesFine
  <1>10. Loading => Reads(d)
    <2>1. Loading => Reads(c)  BY <1>2 DEF Loading
    <2> QED  BY <1>1, <1>7, <1>9, <2>1 DEF Reads
  <1>11. d.op = calls[i].op /\ d.cursor = calls[i].cursor /\ d.then = calls[i].then /\ d.sel = calls[i].sel
         /\ d.op \in {"list", "workspaces"}
      BY <1>1, <1>7
  <1> QED  BY <1>6, <1>8, <1>9, <1>10, <1>11, AnswerRead

\* The one request of the user is answered.
LEMMA AnswerOnly ==
    ASSUME ListInv, NEW i \in DOMAIN calls, calls[i].op \notin {"list", "workspaces"}, NEW a \in Seq(Nat),
           AnswersWith(i, a)
    PROVE  /\ Len(calls') = 1 /\ calls' \in Seq(CallRows) /\ Answering(calls'[1], calls[i], a)
           /\ \A x \in ToSet(calls)' : AnswerRows(x) = {}
  <1>1. calls \in Seq(CallRows)  BY DEF ListInv, ListTypes
  <1>2. Len(calls) = 1 /\ i = 1  BY PhaseOf
  <1>3. ToSet(calls) = {calls[1]}  BY <1>1, <1>2, TheOnly
  <1>4. PICK d : Answering(d, calls[i], a) /\ AnsweredTo(i, d)
    <2>1. a \in Seq(ListPages) \cup Seq(Nat)  OBVIOUS
    <2> QED  BY <1>1, <2>1, AnswerTo
  <1>5. Len(calls') = 1 /\ calls' \in Seq(CallRows) /\ calls'[1] = d  BY <1>2, <1>4 DEF AnsweredTo
  <1>6. ToSet(calls)' \subseteq {calls[1], d}  BY <1>3, <1>4 DEF AnsweredTo
  <1>7. d.op = calls[1].op /\ calls[1].op # "list"  BY <1>2, <1>4 DEF Answering
  <1>8. \A x \in ToSet(calls)' : AnswerRows(x) = {}  BY <1>6, <1>7 DEF AnswerRows
  <1> QED  BY <1>4, <1>5, <1>8

\* Nothing is put: the marks are those there were.
LEMMA MarksFewer ==
    ASSUME Stamped, lists' = lists, server'.convs \subseteq server.convs, server'.last = server.last,
           \A c \in ToSet(calls)' : AnswerRows(c) = {} \/ c \in ToSet(calls)
    PROVE  Stamped'
  <1>1. AnswerMarks' \subseteq AnswerMarks
    <2>1. UNION {AnswerRows(c) : c \in ToSet(calls)'} \subseteq UNION {AnswerRows(c) : c \in ToSet(calls)}  OBVIOUS
    <2> QED  BY <2>1 DEF AnswerMarks, AnswerRows
  <1>2. ListMarks' = ListMarks /\ ConvMarks' \subseteq ConvMarks  BY DEF ListMarks, ConvMarks
  <1>3. Marks' \subseteq Marks  BY <1>1, <1>2 DEF Marks
  <1> QED  BY <1>3 DEF Stamped, OneEach

\* A conversation is created on the server.
Creates(ws) == server' = [server EXCEPT !.convs = Put(server.last + 1, ws), !.last = server.last + 1]
\* The request then names the new conversation.
LEMMA ServeCreate ==
    ASSUME ListInv, NEW i \in DOMAIN calls, calls[i].op = "create", calls[i].ws \in server.wss, calls[i].state = "asked",
           Creates(calls[i].ws),
           AnswersWith(i, <<server.last + 1>>),
           UNCHANGED <<pick, lists, pages, known>>
    PROVE  ListInv'
  <1>1. PICK c : c = calls[i]  OBVIOUS
  <1>2. c \in CallRows /\ Creating(c)  BY <1>1, PhaseOf
  <1>3. PICK id, ws, a : id = server.last + 1 /\ ws = c.ws /\ a = <<id>>  OBVIOUS
  <1>4. id \in Nat \ {0}
    <2>1. server.last \in Nat  BY DEF ListInv, ListTypes, ServerTypes
    <2> QED  BY <1>3, <2>1
  <1>5. a \in Seq(Nat) /\ Len(a) = 1 /\ a[1] = id  BY <1>3, <1>4
  <1>6. PICK u : u = calls'[1]  OBVIOUS
  <1>7. Len(calls') = 1 /\ calls' \in Seq(CallRows) /\ Answering(u, c, a) /\ \A x \in ToSet(calls)' : AnswerRows(x) = {}
    <2>1. AnswersWith(i, a)  BY <1>3
    <2>2. calls[i].op \notin {"list", "workspaces"}  OBVIOUS
    <2> QED  BY <1>1, <1>5, <1>6, <2>1, <2>2, AnswerOnly
  <1>8. HasPut(id, ws)
    <2>1. server' = [server EXCEPT !.convs = Put(id, ws), !.last = server.last + 1]  BY <1>1, <1>3 DEF Creates
    <2>2. PutAt(id, ws)  BY <1>1, <1>3, <1>4, <1>7, <2>1 DEF PutAt
    <2> QED  BY <2>2, PutStamps DEF ListInv
  <1>9. ListTypes'  BY <1>7, <1>8 DEF ListInv, ListTypes, HasPut
  <1>10. Stamped' /\ Homes' /\ server'.wss = server.wss  BY <1>8 DEF HasPut
  <1>11. \A w : HomeIds(w) \subseteq HomeIds(w)'
    <2> TAKE w
    <2>1. CASE w = ws  BY <1>8, <2>1 DEF HasPut
    <2>2. CASE w # ws  BY <1>8, <2>2 DEF HasPut
    <2> QED  BY <2>1, <2>2
  <1>12. AllSettled'
    <2>1. RightSpace' /\ KnownExist' /\ pick.conv = None0
        BY <1>2, <1>10 DEF Creating, AllSettled, RightSpace, KnownExist, ToSet
    <2>2. InReach'  BY <2>1 DEF InReach
    <2>3. \A w \in server'.wss : HomeListed(w)'
      <3> TAKE w \in server'.wss
      <3>1. Ids(lists[w]) \subseteq HomeIds(w)  BY <1>2, <1>10 DEF Creating, AllSettled, HomeListed
      <3>2. Ids(lists[w])' = Ids(lists[w])  BY DEF Ids
      <3> QED  BY <1>11, <3>1, <3>2 DEF HomeListed
    <2> QED  BY <2>1, <2>2, <2>3 DEF AllSettled
  <1>13. Creating(u)'
    <2>1. u.op = "create" /\ u.ws = ws /\ u.sel = c.sel /\ u.answer = a  BY <1>1, <1>3, <1>7 DEF Answering
    <2>2. id \in HomeIds(ws)'  BY <1>8 DEF HasPut
    <2> QED  BY <1>2, <1>3, <1>5, <1>12, <2>1, <2>2 DEF Creating
  <1>14. Asking'  BY <1>6, <1>7, <1>13 DEF Asking
  <1> QED  BY <1>9, <1>10, <1>14 DEF ListInv

\* What the one request of the user leaves when it is answered
Answered1(u, c) == Len(calls') = 1 /\ calls' \in Seq(CallRows) /\ u = calls'[1] /\ Answering(u, c, <<>>)

\* An answer that says only that it is done
LEMMA AnswerNothing ==
    ASSUME ListInv, NEW i \in DOMAIN calls, calls[i].op \notin {"list", "workspaces"}, AnswersWith(i, <<>>)
    PROVE  Answered1(calls'[1], calls[i]) /\ \A x \in ToSet(calls)' : AnswerRows(x) = {}
  <1>1. PICK a : a = <<>>  OBVIOUS
  <1>2. a \in Seq(Nat)  BY <1>1, EmptySeq
  <1>3. AnswersWith(i, a)  BY <1>1
  <1>4. /\ Len(calls') = 1 /\ calls' \in Seq(CallRows) /\ Answering(calls'[1], calls[i], a)
        /\ \A x \in ToSet(calls)' : AnswerRows(x) = {}
      BY <1>2, <1>3, AnswerOnly
  <1> QED  BY <1>1, <1>4 DEF Answered1

\* A conversation is deleted on the server.
LEMMA ServeDelete ==
    ASSUME ListInv, NEW i \in DOMAIN calls, calls[i].op = "delete", calls[i].state = "asked",
           server' = [server EXCEPT !.convs = {d \in @ : d.id # calls[i].conv}], AnswersWith(i, <<>>),
           UNCHANGED <<pick, lists, pages, known>>
    PROVE  ListInv'
  <1>1. PICK c, u : c = calls[i] /\ u = calls'[1]  OBVIOUS
  <1>2. c \in CallRows /\ Deleting(c)  BY <1>1, PhaseOf
  <1>3. Answered1(u, c) /\ \A x \in ToSet(calls)' : AnswerRows(x) = {}
    <2>1. calls[i].op \notin {"list", "workspaces"}  OBVIOUS
    <2> QED  BY <1>1, <2>1, AnswerNothing
  <1>4. /\ u.op = "delete" /\ u.ws = c.ws /\ u.conv = c.conv /\ u.sel = c.sel /\ u.state = "answered"
        /\ Len(calls') = 1 /\ calls' \in Seq(CallRows)
      BY <1>1, <1>3 DEF Answered1, Answering
  <1>5. server \in [wss : SUBSET Workspaces, convs : SUBSET ConvRows, last : Nat] /\ IsFiniteSet(server.wss) /\ IsFiniteSet(server.convs)
      BY DEF ListInv, ListTypes, ServerTypes
  <1>6. PICK kept : kept = {d \in server.convs : d.id # c.conv}  OBVIOUS
  <1>7. server' = [server EXCEPT !.convs = kept]  BY <1>1, <1>6
  <1>8. kept \in SUBSET server.convs /\ IsFiniteSet(kept)  BY <1>5, <1>6, FS_Subset
  <1>9. server'.wss = server.wss /\ server'.convs = kept /\ server'.last = server.last  BY <1>5, <1>7
  <1>10. ServerTypes'
    <2>1. kept \in SUBSET ConvRows  BY <1>5, <1>8
    <2>2. server' \in [wss : SUBSET Workspaces, convs : SUBSET ConvRows, last : Nat]  BY <1>5, <1>7, <2>1
    <2> QED  BY <1>5, <1>8, <1>9, <2>2 DEF ServerTypes
  <1>11. ListTypes'  BY <1>4, <1>10 DEF ListInv, ListTypes
  <1>12. Stamped'  BY <1>3, <1>8, <1>9, MarksFewer DEF ListInv
  <1>13. Homes'  BY <1>8, <1>9 DEF ListInv, Homes
  <1>14. HomeListed(c.ws) /\ InReach /\ c.conv \in HomeIds(c.ws) /\ c.ws = pick.ws /\ c.sel = pick.conv /\ pick.ws # None0
      BY <1>1, <1>2 DEF Deleting
  <1>15. ASSUME NEW w PROVE HomeIds(w)' = HomeIds(w) \ {c.conv}
    <2>1. HomeIds(w)' = {d.id : d \in {e \in kept : e.ws = w}}  BY <1>9 DEF HomeIds
    <2> QED  BY <1>6, <2>1 DEF HomeIds
  <1>16. ASSUME NEW w, w # c.ws PROVE HomeIds(w)' = HomeIds(w)
    <2>1. c.conv \notin HomeIds(w)  BY <1>14, <1>16 DEF HomeIds, ListInv, Homes
    <2> QED  BY <1>15, <2>1
  <1>17. \A w : Ids(lists[w])' = Ids(lists[w])  BY DEF Ids
  <1>18. RightSpace' /\ KnownExist'  BY <1>2, <1>9 DEF Deleting, RightSpace, KnownExist, ToSet
  <1>19. \A w \in server'.wss \ {c.ws} : HomeListed(w)'  BY <1>2, <1>9, <1>16, <1>17 DEF Deleting, HomeListed
  <1>20. Ids(lists[c.ws])' \ {c.conv} \subseteq HomeIds(c.ws)'  BY <1>14, <1>15, <1>17 DEF HomeListed
  <1>21. pick'.conv = c.conv \/ InReach'
    <2> SUFFICES ASSUME pick.conv # c.conv PROVE InReach'  OBVIOUS
    <2>1. HomeIds(pick.ws)' = HomeIds(pick.ws) \ {c.conv}  BY <1>15
    <2> QED  BY <1>14, <1>17, <2>1 DEF InReach
  <1>22. Deleting(u)'  BY <1>4, <1>14, <1>18, <1>19, <1>20, <1>21 DEF Deleting
  <1>23. Asking'  BY <1>1, <1>4, <1>22 DEF Asking
  <1> QED  BY <1>11, <1>12, <1>13, <1>23 DEF ListInv

\* A conversation is renamed on the server.
LEMMA ServeRename ==
    ASSUME ListInv, NEW i \in DOMAIN calls, calls[i].op = "rename", AnswersWith(i, <<>>),
           UNCHANGED <<server, pick, lists, pages, known>>
    PROVE  ListInv'
  <1>1. PICK c, u : c = calls[i] /\ u = calls'[1]  OBVIOUS
  <1>2. Renaming(c)  BY <1>1, PhaseOf
  <1>3. Answered1(u, c) /\ \A x \in ToSet(calls)' : AnswerRows(x) = {}
    <2>1. calls[i].op \notin {"list", "workspaces"}  OBVIOUS
    <2> QED  BY <1>1, <2>1, AnswerNothing
  <1>4. u.op = "rename" /\ u.ws = c.ws /\ Len(calls') = 1 /\ calls' \in Seq(CallRows)
      BY <1>1, <1>3 DEF Answered1, Answering
  <1>5. ListTypes'  BY <1>4 DEF ListInv, ListTypes, ServerTypes
  <1>6. Stamped'
    <2>1. server'.convs \subseteq server.convs /\ server'.last = server.last  OBVIOUS
    <2> QED  BY <1>3, <2>1, MarksFewer DEF ListInv
  <1>7. Homes'  BY DEF ListInv, Homes
  <1>8. AllSettled'
    <2>1. AllSettled  BY <1>2 DEF Renaming
    <2>2. RightSpace' /\ KnownExist'  BY <2>1 DEF AllSettled, RightSpace, KnownExist, ToSet
    <2>3. InReach'  BY <2>1 DEF AllSettled, InReach, HomeIds, Ids
    <2>4. \A w \in server'.wss : HomeListed(w)'  BY <2>1 DEF AllSettled, HomeListed, HomeIds, Ids
    <2> QED  BY <2>2, <2>3, <2>4 DEF AllSettled
  <1>9. Renaming(u)'  BY <1>2, <1>4, <1>8 DEF Renaming
  <1>10. Asking'  BY <1>1, <1>4, <1>9 DEF Asking
  <1> QED  BY <1>5, <1>6, <1>7, <1>10 DEF ListInv

\* A workspace is created on the server.
LEMMA ServeCreateSpace ==
    ASSUME ListInv, NEW i \in DOMAIN calls, calls[i].op = "create_ws", calls[i].state = "asked",
           server' = [server EXCEPT !.wss = @ \cup {calls[i].ws}], AnswersWith(i, <<>>),
           UNCHANGED <<pick, lists, pages, known>>
    PROVE  ListInv'
  <1>1. PICK c, u : c = calls[i] /\ u = calls'[1]  OBVIOUS
  <1>2. CreatingSpace(c)  BY <1>1, PhaseOf
  <1>3. Answered1(u, c) /\ \A x \in ToSet(calls)' : AnswerRows(x) = {}
    <2>1. calls[i].op \notin {"list", "workspaces"}  OBVIOUS
    <2> QED  BY <1>1, <2>1, AnswerNothing
  <1>4. /\ u.op = "create_ws" /\ u.ws = c.ws /\ u.sel = c.sel /\ u.state = "answered"
        /\ Len(calls') = 1 /\ calls' \in Seq(CallRows)
      BY <1>1, <1>3 DEF Answered1, Answering
  <1>5. server \in [wss : SUBSET Workspaces, convs : SUBSET ConvRows, last : Nat] /\ IsFiniteSet(server.wss) /\ IsFiniteSet(server.convs)
      BY DEF ListInv, ListTypes, ServerTypes
  <1>6. PICK wss : wss = server.wss \cup {c.ws}  OBVIOUS
  <1>7. server' = [server EXCEPT !.wss = wss]  BY <1>1, <1>6
  <1>8. c.ws \in Workspaces /\ c.ws \notin server.wss /\ AllSettled /\ c.sel = pick.ws  BY <1>1, <1>2 DEF CreatingSpace
  <1>9. server'.wss = wss /\ server'.convs = server.convs /\ server'.last = server.last  BY <1>5, <1>7
  <1>10. ServerTypes'
    <2>1. IsFiniteSet(wss)
      <3>1. IsFiniteSet({c.ws})  BY FS_Singleton
      <3> QED  BY <1>5, <1>6, <3>1, FS_Union
    <2>2. wss \in SUBSET Workspaces  BY <1>5, <1>6, <1>8
    <2>3. server' \in [wss : SUBSET Workspaces, convs : SUBSET ConvRows, last : Nat]  BY <1>5, <1>7, <2>2
    <2> QED  BY <1>5, <1>9, <2>1, <2>3 DEF ServerTypes
  <1>11. ListTypes'  BY <1>4, <1>10 DEF ListInv, ListTypes
  <1>12. Stamped'  BY <1>3, <1>9, MarksFewer DEF ListInv
  <1>13. Homes'  BY <1>6, <1>9 DEF ListInv, Homes
  <1>14. /\ \A w : HomeIds(w)' = HomeIds(w)
         /\ \A w : HomeListed(w)' <=> HomeListed(w)
      BY <1>9 DEF HomeIds, HomeListed, Ids
  <1>15. Founding(c.ws, c.sel)'
    <2>1. c.ws \in server'.wss /\ c.sel = pick'.ws  BY <1>6, <1>8, <1>9
    <2>2. pick'.ws \in server'.wss \ {c.ws} \/ (pick'.ws = None0 /\ server'.wss = {c.ws})
        BY <1>6, <1>8, <1>9 DEF AllSettled, RightSpace
    <2>3. pick'.conv # None0 => pick'.conv \in HomeIds(pick.ws)'  BY <1>8, <1>14 DEF AllSettled, InReach
    <2>4. \A v \in server'.wss \ {c.ws} : HomeListed(v)'  BY <1>6, <1>8, <1>9, <1>14 DEF AllSettled
    <2> QED  BY <2>1, <2>2, <2>3, <2>4 DEF Founding
  <1>16. CreatingSpace(u)'  BY <1>4, <1>8, <1>15 DEF CreatingSpace
  <1>17. Asking'  BY <1>1, <1>4, <1>16 DEF Asking
  <1> QED  BY <1>11, <1>12, <1>13, <1>17 DEF ListInv

\* A workspace is deleted on the server, with its conversations.
DropsSpace(ws) == server' = [server EXCEPT !.wss = @ \ {ws}, !.convs = {d \in @ : d.ws # ws}]
\* Its fields then
LEMMA DroppedSpace ==
    ASSUME NEW convs, server \in [wss : SUBSET Workspaces, convs : SUBSET convs, last : Nat], NEW ws, DropsSpace(ws)
    PROVE  /\ server'.wss = server.wss \ {ws} /\ server'.convs = {d \in server.convs : d.ws # ws}
           /\ server'.last = server.last
           /\ server' = [wss |-> server'.wss, convs |-> server'.convs, last |-> server'.last]
  BY DEF DropsSpace

\* The invariant after it
LEMMA ServeDeleteSpace ==
    ASSUME ListInv, NEW i \in DOMAIN calls, calls[i].op = "delete_ws", calls[i].state = "asked",
           DropsSpace(calls[i].ws), AnswersWith(i, <<>>), UNCHANGED <<pick, lists, pages, known>>
    PROVE  ListInv'
  <1>1. PICK c, u : c = calls[i] /\ u = calls'[1]  OBVIOUS
  <1>2. DeletingSpace(c)  BY <1>1, PhaseOf
  <1>3. Answered1(u, c) /\ \A x \in ToSet(calls)' : AnswerRows(x) = {}
    <2>1. calls[i].op \notin {"list", "workspaces"}  OBVIOUS
    <2> QED  BY <1>1, <2>1, AnswerNothing
  <1>4. /\ u.op = "delete_ws" /\ u.ws = c.ws /\ u.sel = c.sel /\ u.state = "answered"
        /\ Len(calls') = 1 /\ calls' \in Seq(CallRows)
      BY <1>1, <1>3 DEF Answered1, Answering
  <1>5. server \in [wss : SUBSET Workspaces, convs : SUBSET ConvRows, last : Nat] /\ IsFiniteSet(server.wss) /\ IsFiniteSet(server.convs)
      BY DEF ListInv, ListTypes, ServerTypes
  <1>6. PICK wss, kept : wss = server.wss \ {c.ws} /\ kept = {d \in server.convs : d.ws # c.ws}  OBVIOUS
  <1>7. /\ server'.wss = wss /\ server'.convs = kept /\ server'.last = server.last
        /\ server' = [wss |-> server'.wss, convs |-> server'.convs, last |-> server'.last]
      BY <1>1, <1>5, <1>6, DroppedSpace
  <1>8. c.ws \in Workspaces /\ AllSettled /\ c.sel = pick.ws  BY <1>1, <1>2 DEF DeletingSpace
  <1>9. server'.wss = wss /\ server'.convs = kept /\ server'.last = server.last  BY <1>7
  <1>10. wss \subseteq server.wss /\ kept \subseteq server.convs /\ IsFiniteSet(wss) /\ IsFiniteSet(kept)
    <2>1. wss \in SUBSET server.wss /\ kept \in SUBSET server.convs  BY <1>6
    <2> QED  BY <1>5, <2>1, FS_Subset
  <1>11. ServerTypes'
    <2>1. wss \in SUBSET Workspaces /\ kept \in SUBSET ConvRows  BY <1>5, <1>10
    <2>2. server' \in [wss : SUBSET Workspaces, convs : SUBSET ConvRows, last : Nat]  BY <1>5, <1>7, <1>9, <2>1
    <2> QED  BY <1>9, <1>10, <2>2 DEF ServerTypes
  <1>12. ListTypes'  BY <1>4, <1>11 DEF ListInv, ListTypes
  <1>13. Stamped'  BY <1>3, <1>9, <1>10, MarksFewer DEF ListInv
  <1>14. Homes'  BY <1>6, <1>9, <1>10 DEF ListInv, Homes
  <1>15. ASSUME NEW w, w # c.ws PROVE HomeIds(w)' = HomeIds(w)
    <2>1. HomeIds(w)' = {d.id : d \in {e \in kept : e.ws = w}}  BY <1>9 DEF HomeIds
    <2>2. {e \in kept : e.ws = w} = {e \in server.convs : e.ws = w}  BY <1>6, <1>15
    <2> QED  BY <2>1, <2>2 DEF HomeIds
  <1>16. \A w : Ids(lists[w])' = Ids(lists[w])  BY DEF Ids
  <1>17. u.ws \notin server'.wss  BY <1>4, <1>6, <1>9
  <1>18. \A w \in server'.wss : HomeListed(w)'  BY <1>6, <1>8, <1>9, <1>15, <1>16 DEF AllSettled, HomeListed
  <1>19. pick'.ws = u.ws \/ (RightSpace' /\ InReach')
    <2> SUFFICES ASSUME pick.ws # c.ws PROVE RightSpace' /\ InReach'  BY <1>4
    <2>1. RightSpace'  BY <1>6, <1>8, <1>9 DEF AllSettled, RightSpace
    <2>2. HomeIds(pick.ws)' = HomeIds(pick.ws)  BY <1>15
    <2>3. InReach'  BY <1>8, <1>16, <2>2 DEF AllSettled, InReach
    <2> QED  BY <2>1, <2>3
  <1>20. DeletingSpace(u)'  BY <1>4, <1>8, <1>17, <1>18, <1>19 DEF DeletingSpace
  <1>21. Asking'  BY <1>1, <1>4, <1>20 DEF Asking
  <1> QED  BY <1>12, <1>13, <1>14, <1>21 DEF ListInv

\* The server answers one of the requests, each kind in its way.
Serving(i) ==
    /\ calls[i].state = "asked"
    /\ \/ calls[i].op = "list" /\ AnswersWith(i, <<Page(calls[i])>>) /\ UNCHANGED server
       \/ calls[i].op = "workspaces" /\ AnswersWith(i, Listed(server.wss)) /\ UNCHANGED server
       \/ /\ calls[i].op = "create" /\ calls[i].ws \in server.wss
          /\ Creates(calls[i].ws)
          /\ AnswersWith(i, <<server.last + 1>>)
       \/ /\ calls[i].op = "delete" /\ AnswersWith(i, <<>>)
          /\ server' = [server EXCEPT !.convs = {d \in @ : d.id # calls[i].conv}]
       \/ calls[i].op = "rename" /\ AnswersWith(i, <<>>) /\ UNCHANGED server
       \/ /\ calls[i].op = "create_ws" /\ AnswersWith(i, <<>>)
          /\ server' = [server EXCEPT !.wss = @ \cup {calls[i].ws}]
       \/ /\ calls[i].op = "delete_ws" /\ AnswersWith(i, <<>>)
          /\ DropsSpace(calls[i].ws)

\* The server keeps the invariant.
LEMMA ServeKeepsLists == ASSUME ListInv, Serve PROVE ListInv'
  <1>1. PICK i \in DOMAIN calls : Serving(i)  BY Zenon DEF Serve, Serving, AnswersWith, Creates, DropsSpace
  <1>2. UNCHANGED <<pick, lists, pages, known>>  BY DEF Serve
  <1>3. CASE calls[i].op = "list"  BY <1>1, <1>2, <1>3, ServeList DEF Serving
  <1>4. CASE calls[i].op = "workspaces"  BY <1>1, <1>2, <1>4, ServeSpaces DEF Serving
  <1>5. CASE calls[i].op = "create"  BY <1>1, <1>2, <1>5, ServeCreate DEF Serving
  <1>6. CASE calls[i].op = "delete"  BY <1>1, <1>2, <1>6, ServeDelete DEF Serving
  <1>7. CASE calls[i].op = "rename"  BY <1>1, <1>2, <1>7, ServeRename DEF Serving
  <1>8. CASE calls[i].op = "create_ws"  BY <1>1, <1>2, <1>8, ServeCreateSpace DEF Serving
  <1>9. CASE calls[i].op = "delete_ws"  BY <1>1, <1>2, <1>9, ServeDeleteSpace DEF Serving
  <1>10. calls[i].op \in {"list", "workspaces", "create", "delete", "rename", "create_ws", "delete_ws"}  BY <1>1 DEF Serving
  <1> QED  BY <1>3, <1>4, <1>5, <1>6, <1>7, <1>8, <1>9, <1>10

-----------------------------------------------------------------------------
(* Continuations. *)

\* A list that is filtered has the rows of the set.
LEMMA OnlyRows ==
    ASSUME NEW list \in Seq(ListRows), NEW set
    PROVE  Only(list, set) \in Seq(ListRows) /\ ToSet(Only(list, set)) = ToSet(list) \cap set
  <1>1. PICK q : q = Only(list, set)  OBVIOUS
  <1>2. q \in Seq(ListRows) /\ Range(q) = Range(list) \cap set  BY <1>1, OnlyOrder
  <1>3. Range(q) = ToSet(q) /\ Range(list) = ToSet(list)  BY DEF Range, ToSet
  <1> QED  BY <1>1, <1>2, <1>3

\* The rest of the requests when one is taken
Taken(i) ==
    /\ Others(i) \in Seq(CallRows) /\ ToSet(Others(i)) \subseteq ToSet(calls)
    /\ \A c \in ToSet(calls) : c # calls[i] => c \in ToSet(Others(i))
    /\ Len(calls) = 1 => Others(i) = <<>>

\* A request that is taken leaves the others.
LEMMA TakenCall == ASSUME ListInv, NEW i \in DOMAIN calls PROVE Taken(i)
  <1>1. calls \in Seq(CallRows)  BY DEF ListInv, ListTypes
  <1> QED  BY <1>1, OthersLeft DEF Taken

\* The list a page leaves: the rows of the page, and of those there were the ones an older
\* page is added to, or the selected one.
NextList(c, page) ==
    LET old == lists[c.ws]
    IN  IF c.cursor # None0 THEN Merge(old, page.rows)
        ELSE IF pick.conv \notin Ids(page.rows) THEN Merge(page.rows, Only(old, {r \in ToSet(old) : r.id = pick.conv}))
        ELSE page.rows
Relisted(list, c, page) ==
    /\ list \in Seq(ListRows)
    /\ ToSet(list) \subseteq ToSet(lists[c.ws]) \cup ToSet(page.rows)
    /\ Ids(page.rows) \subseteq Ids(list)
    /\ c.cursor = None0 => \A r \in ToSet(list) : r \in ToSet(page.rows) \/ r.id = pick.conv

\* Both rows of a page and rows there were are told apart by their times.
LEMMA NextListRows ==
    ASSUME NEW c, lists[c.ws] \in Seq(ListRows), NEW page \in ListPages,
           OneEach(ToSet(lists[c.ws]) \cup ToSet(page.rows))
    PROVE  Relisted(NextList(c, page), c, page)
  <1>1. PICK old, rows : old = lists[c.ws] /\ rows = page.rows  OBVIOUS
  <1>2. old \in Seq(ListRows) /\ rows \in Seq(ListRows) /\ OneEach(ToSet(old) \cup ToSet(rows))
      BY <1>1 DEF ListPages
  <1>3. PICK list : list = NextList(c, page)  OBVIOUS
  <1>4. Ids(rows) = {r.id : r \in ToSet(rows)}  BY <1>2, RowsListed
  <1>5. CASE c.cursor # None0
    <2>1. list = Merge(old, rows)  BY <1>1, <1>3, <1>5 DEF NextList
    <2>2. list \in Seq(ListRows) /\ ToSet(list) = ToSet(rows) \cup {r \in ToSet(old) : r.id \notin Ids(rows)}
        BY <1>2, <2>1, MergeRows
    <2>3. Ids(list) = {r.id : r \in ToSet(list)}  BY <2>2, RowsListed
    <2> QED  BY <1>1, <1>3, <1>4, <1>5, <2>2, <2>3 DEF Relisted
  <1>6. CASE c.cursor = None0 /\ pick.conv \notin Ids(rows)
    <2>1. PICK set : set = {r \in ToSet(old) : r.id = pick.conv}  OBVIOUS
    <2>2. PICK kept : kept = Only(old, set)  OBVIOUS
    <2>3. list = Merge(rows, kept)  BY <1>1, <1>3, <1>6, <2>1, <2>2 DEF NextList
    <2>4. kept \in Seq(ListRows) /\ ToSet(kept) = set
      <3>1. kept \in Seq(ListRows) /\ ToSet(kept) = ToSet(old) \cap set  BY <1>2, <2>2, OnlyRows
      <3> QED  BY <2>1, <3>1
    <2>5. OneEach(ToSet(rows) \cup ToSet(kept))
      <3>1. ToSet(rows) \cup ToSet(kept) \subseteq ToSet(old) \cup ToSet(rows)  BY <2>1, <2>4
      <3> QED  BY <1>2, <3>1 DEF OneEach
    <2>6. list \in Seq(ListRows) /\ ToSet(list) = ToSet(kept) \cup {r \in ToSet(rows) : r.id \notin Ids(kept)}
        BY <1>2, <2>3, <2>4, <2>5, MergeRows
    <2>7. Ids(list) = {r.id : r \in ToSet(list)} /\ Ids(kept) = {r.id : r \in ToSet(kept)}  BY <2>4, <2>6, RowsListed
    <2>8. \A r \in ToSet(kept) : r \in ToSet(old) /\ r.id = pick.conv  BY <2>1, <2>4
    <2>9. Ids(rows) \subseteq Ids(list)  BY <1>4, <2>6, <2>7
    <2>10. ToSet(list) \subseteq ToSet(old) \cup ToSet(rows)  BY <2>6, <2>8
    <2>11. \A r \in ToSet(list) : r \in ToSet(rows) \/ r.id = pick.conv  BY <2>6, <2>8
    <2> QED  BY <1>1, <1>3, <2>6, <2>9, <2>10, <2>11 DEF Relisted
  <1>7. CASE c.cursor = None0 /\ pick.conv \in Ids(rows)
    <2>1. list = rows  BY <1>1, <1>3, <1>7 DEF NextList
    <2> QED  BY <1>1, <1>2, <1>3, <2>1 DEF Relisted
  <1> QED  BY <1>1, <1>5, <1>6, <1>7

\* The conversation selected next is the one asked for, or one of the page.
LEMMA NextSelected ==
    ASSUME NEW c, c.then \in Nat, pick.conv \in Nat, NEW rows \in Seq(ListRows)
    PROVE  /\ NextSelection(c, rows) \in Nat
           /\ NextSelection(c, rows) # None0 => NextSelection(c, rows) = c.then \/ NextSelection(c, rows) \in Ids(rows)
           /\ NextSelection(c, rows) = c.then \/ c.then = None0
  <1>1. rows # <<>> => rows[1].id \in Nat /\ rows[1].id \in Ids(rows)
    <2> SUFFICES ASSUME rows # <<>> PROVE rows[1].id \in Nat /\ rows[1].id \in Ids(rows)  OBVIOUS
    <2>1. 1 \in DOMAIN rows /\ 1 \in 1 .. Len(rows)  OBVIOUS
    <2>2. rows[1] \in ListRows  BY <2>1, ElementOfSeq
    <2> QED  BY <2>1, <2>2 DEF ListRows, Ids
  <1> QED  BY <1>1 DEF NextSelection, None0

\* A page is taken.
ListTaken(i, c, page) ==
    /\ lists' = [lists EXCEPT ![c.ws] = NextList(c, page)]
    /\ pages' = [pages EXCEPT ![c.ws] = [more |-> page.more, cursor |-> IF page.more THEN Last(page.rows).at ELSE None0]]
    /\ pick' = [pick EXCEPT !.conv = NextSelection(c, page.rows)]
    /\ calls' = Others(i) /\ server' = server /\ known' = known

\* The continuation of a page takes it so.
LEMMA ListTakenBy == ASSUME NEW i, ListAnswered(i), NEW c, c = calls[i], lists \in [Workspaces -> Seq(ListRows)], c.ws \in Workspaces
                     PROVE  ListTaken(i, c, c.answer[1]) /\ c.op = "list" /\ c.state = "answered" /\ i \in DOMAIN calls
  <1>1. c.op = "list" /\ c.state = "answered" /\ i \in DOMAIN calls  BY DEF ListAnswered, Take
  <1>2. lists' = [lists EXCEPT ![c.ws] = NextList(c, c.answer[1])]  BY DEF ListAnswered, NextList
  <1>3. /\ pages' = [pages EXCEPT ![c.ws] = [more |-> c.answer[1].more, cursor |-> IF c.answer[1].more THEN Last(c.answer[1].rows).at ELSE None0]]
        /\ pick' = [pick EXCEPT !.conv = NextSelection(c, c.answer[1].rows)]
        /\ calls' = Others(i) /\ server' = server /\ known' = known
      BY DEF ListAnswered
  <1> QED  BY <1>1, <1>2, <1>3 DEF ListTaken

\* A page that is taken repairs what a change left: the list has only conversations there
\* are, and the selection is one of them, in the list or on an older page.
LEMMA ListAnsweredKeepsLists == ASSUME ListInv, NEW i, ListAnswered(i) PROVE ListInv'
  <1>1. PICK c : c = calls[i]  OBVIOUS
  <1>2. i \in DOMAIN calls /\ c.op = "list" /\ c.state = "answered"  BY <1>1 DEF ListAnswered, Take
  <1>3. c \in CallRows /\ c \in ToSet(calls) /\ Loading /\ Taken(i)  BY <1>1, <1>2, PhaseOf, TakenCall
  <1>4. ListFine(c)  BY <1>2, <1>3 DEF Loading, Reads
  <1>5. PICK w : w = c.ws  OBVIOUS
  <1>6. w \in Workspaces /\ w = pick.ws /\ w # None0 /\ w \in server.wss
    <2>1. w \in Workspaces \cup {None0}  BY <1>3, <1>5 DEF CallRows
    <2> QED  BY <1>3, <1>4, <1>5, <2>1 DEF ListFine, Loading, RightSpace
  <1>7. /\ server.convs \in SUBSET ConvRows /\ pick \in [ws : Workspaces \cup {None0}, conv : Nat]
        /\ lists \in [Workspaces -> Seq(ListRows)] /\ pages \in [Workspaces -> [more : BOOLEAN, cursor : Nat]]
        /\ ServerTypes /\ known \in Seq(Workspaces)
      BY DEF ListInv, ListTypes, ServerTypes
  <1>8. PICK page : page = c.answer[1]  OBVIOUS
  <1>9. /\ page \in ListPages /\ Ids(page.rows) \subseteq HomeIds(w)
        /\ page.more => page.rows # <<>>
        /\ c.cursor = None0 /\ ~page.more => HomeIds(w) \subseteq Ids(page.rows)
        /\ c.then # None0 => c.then \in HomeIds(w) /\ c.cursor = None0
      BY <1>2, <1>4, <1>5, <1>8 DEF ListFine, PageFine
  <1>10. PICK rows : rows = page.rows  OBVIOUS
  <1>11. rows \in Seq(ListRows) /\ Ids(rows) = {r.id : r \in ToSet(rows)} /\ ToSet(rows) \in SUBSET ListRows
    <2>1. rows \in Seq(ListRows)  BY <1>9, <1>10 DEF ListPages
    <2> QED  BY <2>1, RowsListed
  <1>12. ListTaken(i, c, page)  BY <1>1, <1>5, <1>6, <1>7, <1>8, ListTakenBy
  <1>13. ToSet(rows) \subseteq Marks /\ ToSet(lists[w]) \subseteq Marks
    <2>1. AnswerRows(c) = ToSet(rows)  BY <1>2, <1>8, <1>10 DEF AnswerRows
    <2>2. ToSet(rows) \subseteq AnswerMarks  BY <1>3, <2>1 DEF AnswerMarks
    <2>3. ToSet(lists[w]) \subseteq ListMarks  BY <1>6 DEF ListMarks
    <2> QED  BY <2>2, <2>3 DEF Marks
  <1>14. PICK list : list = NextList(c, page)  OBVIOUS
  <1>15. /\ list \in Seq(ListRows) /\ ToSet(list) \subseteq ToSet(lists[w]) \cup ToSet(rows) /\ Ids(rows) \subseteq Ids(list)
         /\ c.cursor = None0 => \A r \in ToSet(list) : r \in ToSet(rows) \/ r.id = pick.conv
         /\ Ids(list) = {r.id : r \in ToSet(list)}
    <2>1. OneEach(ToSet(lists[w]) \cup ToSet(rows))  BY <1>13 DEF OneEach, ListInv, Stamped
    <2>2. lists[w] \in Seq(ListRows)  BY <1>6, <1>7
    <2>3. Relisted(list, c, page)  BY <1>5, <1>9, <1>10, <1>14, <2>1, <2>2, NextListRows
    <2>4. list \in Seq(ListRows)  BY <2>3 DEF Relisted
    <2>5. Ids(list) = {r.id : r \in ToSet(list)}  BY <2>4, RowsListed
    <2> QED  BY <1>5, <1>10, <2>3, <2>5 DEF Relisted
  <1>16. PICK n : n = NextSelection(c, rows)  OBVIOUS
  <1>17. n \in Nat /\ (n # None0 => n = c.then \/ n \in Ids(rows))
    <2>1. c.then \in Nat /\ pick.conv \in Nat  BY <1>3, <1>7 DEF CallRows
    <2> QED  BY <1>11, <1>16, <2>1, NextSelected
  <1>18. lists' = [lists EXCEPT ![w] = list]  BY <1>5, <1>12, <1>14 DEF ListTaken
  <1>19. lists' \in [Workspaces -> Seq(ListRows)] /\ lists'[w] = list /\ \A v \in Workspaces \ {w} : lists'[v] = lists[v]
      BY <1>6, <1>7, <1>15, <1>18
  <1>20. pages' \in [Workspaces -> [more : BOOLEAN, cursor : Nat]] /\ pages'[w].more = page.more
    <2>1. PICK cur : cur = IF page.more THEN Last(rows).at ELSE None0  OBVIOUS
    <2>2. cur \in Nat
      <3>1. page.more => Last(rows) \in ListRows
        <4> SUFFICES ASSUME rows # <<>> PROVE Last(rows) \in ListRows  BY <1>9, <1>10
        <4>1. Len(rows) \in 1 .. Len(rows)  BY <1>11
        <4>2. rows[Len(rows)] \in ListRows  BY <1>11, <4>1, ElementOfSeq
        <4> QED  BY <4>2 DEF Last
      <3> QED  BY <2>1, <3>1 DEF ListRows, None0
    <2>3. PICK e : e = [more |-> page.more, cursor |-> cur]  OBVIOUS
    <2>4. e \in [more : BOOLEAN, cursor : Nat] /\ e.more = page.more  BY <1>9, <2>2, <2>3 DEF ListPages
    <2>5. pages' = [pages EXCEPT ![w] = e]  BY <1>5, <1>10, <1>12, <2>1, <2>3 DEF ListTaken
    <2> QED  BY <1>6, <1>7, <2>4, <2>5
  <1>21. pick' = [pick EXCEPT !.conv = n] /\ calls' = Others(i) /\ server' = server /\ known' = known
      BY <1>10, <1>12, <1>16 DEF ListTaken
  <1>22. pick' \in [ws : Workspaces \cup {None0}, conv : Nat] /\ pick'.ws = w /\ pick'.conv = n
      BY <1>6, <1>7, <1>17, <1>21
  <1>23. calls' \in Seq(CallRows) /\ ToSet(calls') \subseteq ToSet(calls) /\ \A x \in ToSet(calls) : x # c => x \in ToSet(calls')
      BY <1>1, <1>3, <1>21 DEF Taken
  <1>24. ListTypes'  BY <1>7, <1>19, <1>20, <1>21, <1>22, <1>23 DEF ListTypes, ServerTypes
  <1>25. Stamped'
    <2>1. ListMarks' \subseteq Marks
      <3>1. \A v \in Workspaces : ToSet(lists[v]) \subseteq Marks  BY DEF Marks, ListMarks
      <3>2. \A v \in Workspaces : ToSet(lists'[v]) \subseteq Marks
        <4> TAKE v \in Workspaces
        <4>1. CASE v = w  BY <1>13, <1>15, <1>19, <4>1
        <4>2. CASE v # w  BY <1>19, <3>1, <4>2
        <4> QED  BY <4>1, <4>2
      <3>3. ListMarks' = UNION {ToSet(lists'[v]) : v \in Workspaces}  BY DEF ListMarks, ToSet
      <3> QED  BY <3>2, <3>3
    <2>2. AnswerMarks' \subseteq Marks
      <3>1. \A x \in ToSet(calls) : AnswerRows(x) \subseteq Marks  BY DEF Marks, AnswerMarks
      <3>2. AnswerMarks' = UNION {AnswerRows(x) : x \in ToSet(calls')}  BY DEF AnswerMarks, AnswerRows, ToSet
      <3> QED  BY <1>23, <3>1, <3>2
    <2>3. ConvMarks' \subseteq Marks  BY <1>21 DEF Marks, ConvMarks
    <2>4. Marks' \subseteq Marks  BY <2>1, <2>2, <2>3 DEF Marks
    <2> QED  BY <1>21, <2>4 DEF ListInv, Stamped, OneEach
  <1>26. /\ \A a, d \in server.convs : a.id = d.id => a = d
         /\ \A v \in Workspaces : \A r \in ToSet(lists[v]), d \in server.convs : d.id = r.id => d.ws = v
      BY DEF ListInv, Homes
  <1>27. \A x \in HomeIds(w) : \E d \in server.convs : d.id = x /\ d.ws = w  BY DEF HomeIds
  <1>28. \A r \in ToSet(rows) : r.id \in HomeIds(w)  BY <1>9, <1>10, <1>11
  <1>29. Homes'
    <2>1. ASSUME NEW r \in ToSet(list), NEW d \in server.convs, d.id = r.id PROVE d.ws = w
      <3>1. CASE r \in ToSet(lists[w])  BY <1>6, <1>26, <2>1, <3>1
      <3>2. CASE r \in ToSet(rows)  BY <1>26, <1>27, <1>28, <2>1, <3>2
      <3> QED  BY <1>15, <3>1, <3>2
    <2>2. \A v \in Workspaces : \A r \in ToSet(lists'[v]), d \in server.convs : d.id = r.id => d.ws = v
      <3> TAKE v \in Workspaces
      <3>1. CASE v = w  BY <1>19, <2>1, <3>1
      <3>2. CASE v # w  BY <1>19, <1>26, <3>2
      <3> QED  BY <3>1, <3>2
    <2>3. \A a \in server.convs : a.ws \in server.wss  BY DEF ListInv, Homes
    <2> QED  BY <1>21, <1>26, <2>2, <2>3 DEF Homes
  <1>30. (\A v : HomeIds(v)' = HomeIds(v)) /\ (\A x : OnServer(x)' <=> OnServer(x)) /\ FirstOf' = FirstOf
      BY <1>21 DEF HomeIds, OnServer, FirstOf
  <1>31. RightSpace'  BY <1>3, <1>6, <1>21, <1>22 DEF Loading, RightSpace
  <1>32. KnownExist' \/ \E x \in ToSet(calls)' : x.op = "workspaces"
    <2>1. KnownExist' = KnownExist  BY <1>21 DEF KnownExist, ToSet
    <2>2. ASSUME NEW x \in ToSet(calls), x.op = "workspaces" PROVE x \in ToSet(calls')  BY <1>2, <1>23, <2>2
    <2> QED  BY <1>3, <2>1, <2>2 DEF Loading
  <1>33. \A x \in ToSet(calls)' : Reads(x)'
    <2>1. \A x : PageFine(x)' <=> PageFine(x)  BY <1>30 DEF PageFine, Ids
    <2>2. \A x : SpacesFine(x)' <=> SpacesFine(x)  BY <1>21 DEF SpacesFine
    <2>3. \A x : Reads(x)' <=> Reads(x)  BY <1>6, <1>21, <1>22, <1>30, <2>1, <2>2 DEF Reads, ListFine
    <2> QED  BY <1>3, <1>23, <2>3 DEF Loading
  <1>34. \A v \in server'.wss \ {pick'.ws} : HomeListed(v)'
    <2> TAKE v \in server'.wss \ {pick'.ws}
    <2>1. v \in Workspaces \ {w} /\ HomeListed(v)  BY <1>3, <1>6, <1>7, <1>21, <1>22 DEF ServerTypes, Loading
    <2>2. Ids(lists[v])' = Ids(lists[v])  BY <1>19, <2>1 DEF Ids
    <2> QED  BY <1>30, <2>1, <2>2 DEF HomeListed
  <1>35. Refreshing => c.cursor = None0 /\ (pick.conv # None0 => OnServer(pick.conv))
      BY <1>2, <1>3 DEF Refreshing
  <1>36. Ids(list) \subseteq HomeIds(w)
    <2> SUFFICES ASSUME NEW r \in ToSet(list) PROVE r.id \in HomeIds(w)  BY <1>15
    <2>1. CASE r \in ToSet(rows)  BY <1>28, <2>1
    <2>2. CASE r \notin ToSet(rows)
      <3>1. r \in ToSet(lists[w])  BY <1>15, <2>2
      <3>2. CASE Refreshing
        <4>1. r.id = pick.conv  BY <1>15, <1>35, <2>2, <3>2
        <4>2. r \in ListRows  BY <1>13, <3>1 DEF ListInv, Stamped
        <4>3. r.id # None0  BY <4>2 DEF ListRows, None0
        <4>4. PICK d \in server.convs : d.id = r.id  BY <1>35, <3>2, <4>1, <4>3 DEF OnServer
        <4>5. d.ws = w  BY <1>6, <1>26, <3>1, <4>4
        <4> QED  BY <4>4, <4>5 DEF HomeIds
      <3>3. CASE ~Refreshing
        <4>1. HomeListed(w)  BY <1>3, <1>6, <3>3 DEF Loading
        <4>2. lists[w] \in Seq(ListRows)  BY <1>6, <1>7
        <4>3. Ids(lists[w]) = {q.id : q \in ToSet(lists[w])}  BY <4>2, RowsListed
        <4> QED  BY <3>1, <4>1, <4>3 DEF HomeListed
      <3> QED  BY <3>2, <3>3
    <2> QED  BY <2>1, <2>2
  <1>37. HomeListed(pick.ws)'  BY <1>19, <1>22, <1>30, <1>36 DEF HomeListed, Ids
  <1>38. InReach'
    <2> SUFFICES ASSUME n # None0 PROVE n \in HomeIds(w) /\ (n \in Ids(list) \/ page.more)
        BY <1>19, <1>20, <1>22, <1>30 DEF InReach, Ids
    <2>1. CASE n \in Ids(rows)  BY <1>9, <1>10, <1>15, <2>1
    <2>2. CASE n = c.then  BY <1>9, <1>10, <1>15, <2>2
    <2> QED  BY <1>17, <2>1, <2>2
  <1>39. Loading'  BY <1>31, <1>32, <1>33, <1>34, <1>37, <1>38 DEF Loading
  <1> QED  BY <1>24, <1>25, <1>29, <1>39 DEF ListInv
\* Requests that are made leave what there is to show.
LEMMA SameMarks ==
    ASSUME ListInv, NEW i \in DOMAIN calls, server' = server, lists' = lists,
           \A x \in ToSet(calls)' : x.state = "asked" \/ x \in ToSet(calls)
    PROVE  /\ Stamped' /\ Homes'
           /\ \A w : HomeIds(w)' = HomeIds(w)
           /\ \A w : HomeListed(w)' <=> HomeListed(w)
           /\ \A x : OnServer(x)' <=> OnServer(x)
           /\ FirstOf' = FirstOf
  <1>1. Stamped' /\ Homes'  BY MarksKept DEF ListInv
  <1>2. /\ \A w : HomeIds(w)' = HomeIds(w)
        /\ \A w : HomeListed(w)' <=> HomeListed(w)
        /\ \A x : OnServer(x)' <=> OnServer(x)
        /\ FirstOf' = FirstOf
      BY DEF HomeIds, HomeListed, OnServer, FirstOf, Ids
  <1> QED  BY <1>1, <1>2

\* The user's request is taken, and one made in its place.
LEMMA InItsPlace ==
    ASSUME ListInv, NEW i \in DOMAIN calls, calls[i].op \notin {"list", "workspaces"}, NEW d \in CallRows,
           calls' = Append(Others(i), d)
    PROVE  calls' = <<d>> /\ calls' \in Seq(CallRows) /\ ToSet(calls)' = {d} /\ Len(calls') = 1 /\ calls'[1] = d
  <1>1. Len(calls) = 1 /\ Taken(i)  BY PhaseOf, TakenCall
  <1>2. calls' = <<d>>  BY <1>1 DEF Taken
  <1> QED  BY <1>2, OneCall

\* A conversation was created: it is to be selected.
LEMMA CreatedKeepsLists == ASSUME ListInv, NEW i, ConversationCreated(i) PROVE ListInv'
  <1>1. PICK c : c = calls[i]  OBVIOUS
  <1>2. i \in DOMAIN calls /\ c.op = "create" /\ c.state = "answered"  BY <1>1 DEF ConversationCreated, Take
  <1>3. c \in CallRows /\ Creating(c)  BY <1>1, <1>2, PhaseOf
  <1>4. AllSettled /\ c.sel = pick.ws /\ pick.ws # None0 /\ c.answer[1] \in HomeIds(pick.ws)  BY <1>2, <1>3 DEF Creating
  <1>5. PICK n : n = c.answer[1]  OBVIOUS
  <1>6. n \in Nat
    <2>1. server.convs \in SUBSET ConvRows  BY DEF ListInv, ListTypes, ServerTypes
    <2> QED  BY <1>4, <1>5, <2>1 DEF HomeIds, ConvRows
  <1>7. pick.ws \in Workspaces \cup {None0}  BY DEF ListInv, ListTypes
  <1>8. PICK d : d = [ListCall(pick.ws, TRUE) EXCEPT !.then = n]  OBVIOUS
  <1>9. d \in CallRows /\ d.op = "list" /\ d.ws = pick.ws /\ d.cursor = 0 /\ d.then = n /\ d.state = "asked"
    <2>1. FreshList(d, pick.ws, 0, n)  BY <1>6, <1>7, <1>8, ListCallWith
    <2> QED  BY <2>1 DEF FreshList
  <1>10. UNCHANGED <<server, pick, lists, pages, known>>  BY DEF ConversationCreated
  <1>11. calls' = Append(Others(i), d)  BY <1>1, <1>4, <1>5, <1>8 DEF ConversationCreated
  <1>12. calls' \in Seq(CallRows) /\ ToSet(calls)' = {d}
    <2>1. calls[i].op \notin {"list", "workspaces"}  BY <1>1, <1>2
    <2> QED  BY <1>2, <1>9, <1>11, <2>1, InItsPlace
  <1>13. ListTypes'  BY <1>10, <1>12 DEF ListInv, ListTypes, ServerTypes
  <1>14. /\ Stamped' /\ Homes'
         /\ \A w : HomeIds(w)' = HomeIds(w)
         /\ \A w : HomeListed(w)' <=> HomeListed(w)
    <2>1. \A x \in ToSet(calls)' : x.state = "asked" \/ x \in ToSet(calls)  BY <1>9, <1>12
    <2> QED  BY <1>2, <1>10, <2>1, SameMarks
  <1>15. RightSpace' /\ KnownExist' /\ InReach'
      BY <1>4, <1>10, <1>14 DEF AllSettled, RightSpace, KnownExist, InReach, ToSet, Ids
  <1>16. Reads(d)'  BY <1>4, <1>5, <1>9, <1>10, <1>14 DEF Reads, ListFine, PageFine, None0
  <1>17. \A w \in server'.wss : HomeListed(w)'  BY <1>4, <1>10, <1>14 DEF AllSettled
  <1>18. Loading'  BY <1>12, <1>15, <1>16, <1>17 DEF Loading, RightSpace
  <1> QED  BY <1>13, <1>14, <1>18 DEF ListInv

\* A conversation was renamed: the list is loaded.
LEMMA RenamedKeepsLists == ASSUME ListInv, NEW i, ConversationRenamed(i) PROVE ListInv'
  <1>1. PICK c : c = calls[i]  OBVIOUS
  <1>2. i \in DOMAIN calls /\ c.op = "rename"  BY <1>1 DEF ConversationRenamed, Take
  <1>3. Renaming(c)  BY <1>1, <1>2, PhaseOf
  <1>4. AllSettled /\ c.ws = pick.ws /\ pick.ws # None0  BY <1>3 DEF Renaming
  <1>5. pick.ws \in Workspaces \cup {None0}  BY DEF ListInv, ListTypes
  <1>6. PICK d : d = ListCall(pick.ws, TRUE)  OBVIOUS
  <1>7. d \in CallRows /\ d.op = "list" /\ d.ws = pick.ws /\ d.cursor = 0 /\ d.then = 0 /\ d.state = "asked"
    <2>1. TRUE \in BOOLEAN  OBVIOUS
    <2>2. FreshList(d, pick.ws, 0, 0)  BY <1>5, <1>6, <2>1, ListCallFields
    <2> QED  BY <2>2 DEF FreshList
  <1>8. UNCHANGED <<server, pick, lists, pages, known>>  BY DEF ConversationRenamed
  <1>9. calls' = Append(Others(i), d)  BY <1>1, <1>4, <1>6 DEF ConversationRenamed
  <1>10. calls' \in Seq(CallRows) /\ ToSet(calls)' = {d}
    <2>1. calls[i].op \notin {"list", "workspaces"}  BY <1>1, <1>2
    <2> QED  BY <1>2, <1>7, <1>9, <2>1, InItsPlace
  <1>11. ListTypes'  BY <1>8, <1>10 DEF ListInv, ListTypes, ServerTypes
  <1>12. /\ Stamped' /\ Homes'
         /\ \A w : HomeIds(w)' = HomeIds(w)
         /\ \A w : HomeListed(w)' <=> HomeListed(w)
    <2>1. \A x \in ToSet(calls)' : x.state = "asked" \/ x \in ToSet(calls)  BY <1>7, <1>10
    <2> QED  BY <1>2, <1>8, <2>1, SameMarks
  <1>13. RightSpace' /\ KnownExist' /\ InReach'
      BY <1>4, <1>8, <1>12 DEF AllSettled, RightSpace, KnownExist, InReach, ToSet, Ids
  <1>14. Reads(d)'  BY <1>4, <1>7, <1>8 DEF Reads, ListFine, PageFine, None0
  <1>15. \A w \in server'.wss : HomeListed(w)'  BY <1>4, <1>8, <1>12 DEF AllSettled
  <1>16. Loading'  BY <1>10, <1>13, <1>14, <1>15 DEF Loading, RightSpace
  <1> QED  BY <1>11, <1>12, <1>16 DEF ListInv

\* A conversation was deleted: its row goes, and it is not selected any more.
LEMMA DeletedKeepsLists == ASSUME ListInv, NEW i, ConversationDeleted(i) PROVE ListInv'
  <1>1. PICK c, w : c = calls[i] /\ w = c.ws  OBVIOUS
  <1>2. i \in DOMAIN calls /\ c.op = "delete" /\ c.state = "answered"  BY <1>1 DEF ConversationDeleted, Take
  <1>3. c \in CallRows /\ c \in ToSet(calls) /\ Deleting(c)  BY <1>1, <1>2, PhaseOf
  <1>4. /\ w = pick.ws /\ w # None0 /\ c.sel = pick.conv /\ RightSpace /\ KnownExist
        /\ \A v \in server.wss \ {w} : HomeListed(v)
        /\ Ids(lists[w]) \ {c.conv} \subseteq HomeIds(w) /\ (pick.conv = c.conv \/ InReach)
      BY <1>1, <1>2, <1>3 DEF Deleting
  <1>5. /\ pick \in [ws : Workspaces \cup {None0}, conv : Nat] /\ lists \in [Workspaces -> Seq(ListRows)]
        /\ server.wss \in SUBSET Workspaces
      BY DEF ListInv, ListTypes, ServerTypes
  <1>6. w \in Workspaces /\ lists[w] \in Seq(ListRows)  BY <1>4, <1>5
  <1>7. PICK set : set = {r \in ToSet(lists[w]) : r.id # c.conv}  OBVIOUS
  <1>8. PICK list : list = Only(lists[w], set)  OBVIOUS
  <1>9. list \in Seq(ListRows) /\ ToSet(list) = set
    <2>1. list \in Seq(ListRows) /\ ToSet(list) = ToSet(lists[w]) \cap set  BY <1>6, <1>8, OnlyRows
    <2> QED  BY <1>7, <2>1
  <1>10. Ids(list) = Ids(lists[w]) \ {c.conv}
    <2>1. Ids(list) = {r.id : r \in ToSet(list)} /\ Ids(lists[w]) = {r.id : r \in ToSet(lists[w])}  BY <1>6, <1>9, RowsListed
    <2> QED  BY <1>7, <1>9, <2>1
  <1>11. lists' = [lists EXCEPT ![w] = list]  BY <1>1, <1>7, <1>8 DEF ConversationDeleted
  <1>12. lists' \in [Workspaces -> Seq(ListRows)] /\ lists'[w] = list /\ \A v \in Workspaces \ {w} : lists'[v] = lists[v]
      BY <1>5, <1>6, <1>9, <1>11
  <1>13. pick' = IF pick.conv = c.conv THEN [pick EXCEPT !.conv = None0] ELSE pick  BY <1>1, <1>4 DEF ConversationDeleted
  <1>14. /\ pick' \in [ws : Workspaces \cup {None0}, conv : Nat] /\ pick'.ws = w
         /\ pick'.conv # None0 => pick'.conv = pick.conv /\ pick.conv # c.conv
      BY <1>4, <1>5, <1>13 DEF None0
  <1>15. UNCHANGED <<server, pages, known>>  BY DEF ConversationDeleted
  <1>16. PICK preserve : preserve = (c.sel = None0 /\ ~(c.sel = c.conv))  OBVIOUS
  <1>17. PICK d : d = ListCall(w, preserve)  OBVIOUS
  <1>18. d \in CallRows /\ d.op = "list" /\ d.ws = w /\ d.cursor = 0 /\ d.then = 0 /\ d.state = "asked"
    <2>1. preserve \in BOOLEAN  BY <1>16
    <2>2. FreshList(d, w, 0, 0)  BY <1>6, <1>17, <2>1, ListCallFields
    <2> QED  BY <2>2 DEF FreshList
  <1>19. calls' = Append(Others(i), d)  BY <1>1, <1>16, <1>17 DEF ConversationDeleted
  <1>20. calls' \in Seq(CallRows) /\ ToSet(calls)' = {d}
    <2>1. calls[i].op \notin {"list", "workspaces"}  BY <1>1, <1>2
    <2> QED  BY <1>2, <1>18, <1>19, <2>1, InItsPlace
  <1>21. ListTypes'  BY <1>12, <1>14, <1>15, <1>20 DEF ListInv, ListTypes, ServerTypes
  <1>22. \A v \in Workspaces : ToSet(lists'[v]) \subseteq ToSet(lists[v])
    <2> TAKE v \in Workspaces
    <2>1. CASE v = w  BY <1>7, <1>9, <1>12, <2>1
    <2>2. CASE v # w  BY <1>12, <2>2
    <2> QED  BY <2>1, <2>2
  <1>23. Stamped'
    <2>1. ListMarks' = UNION {ToSet(lists'[v]) : v \in Workspaces}  BY DEF ListMarks, ToSet
    <2>2. ListMarks' \subseteq ListMarks  BY <1>22, <2>1 DEF ListMarks
    <2>3. AnswerMarks' = UNION {AnswerRows(x) : x \in ToSet(calls)'}  BY DEF AnswerMarks, AnswerRows
    <2>4. AnswerRows(d) = {}  BY <1>18 DEF AnswerRows
    <2>5. AnswerMarks' = {}  BY <1>20, <2>3, <2>4
    <2>6. ConvMarks' = ConvMarks  BY <1>15 DEF ConvMarks
    <2>7. Marks' \subseteq Marks  BY <2>2, <2>5, <2>6 DEF Marks
    <2> QED  BY <1>15, <2>7 DEF ListInv, Stamped, OneEach
  <1>24. Homes'
    <2>1. \A v \in Workspaces : \A r \in ToSet(lists'[v]), e \in server.convs : e.id = r.id => e.ws = v
        BY <1>22 DEF ListInv, Homes
    <2>2. (\A a, e \in server.convs : a.id = e.id => a = e) /\ \A e \in server.convs : e.ws \in server.wss
        BY DEF ListInv, Homes
    <2> QED  BY <1>15, <2>1, <2>2 DEF Homes
  <1>25. \A v : HomeIds(v)' = HomeIds(v)  BY <1>15 DEF HomeIds
  <1>26. RightSpace' /\ KnownExist'  BY <1>4, <1>14, <1>15 DEF RightSpace, KnownExist, ToSet
  <1>27. \A v \in server'.wss \ {w} : HomeListed(v)'
    <2> TAKE v \in server'.wss \ {w}
    <2>1. v \in Workspaces \ {w} /\ HomeListed(v)  BY <1>4, <1>5, <1>15
    <2>2. Ids(lists[v])' = Ids(lists[v])  BY <1>12, <2>1 DEF Ids
    <2> QED  BY <1>25, <2>1, <2>2 DEF HomeListed
  <1>28. HomeListed(w)'  BY <1>4, <1>10, <1>12, <1>25 DEF HomeListed, Ids
  <1>29. InReach'
    <2> SUFFICES ASSUME pick'.conv # None0 PROVE InReach'  BY DEF InReach
    <2>1. pick'.conv = pick.conv /\ pick.conv # c.conv  BY <1>14
    <2>2. InReach  BY <1>4, <2>1
    <2>3. pick.conv \in HomeIds(w) /\ (pick.conv \in Ids(lists[w]) \/ pages[w].more)  BY <1>4, <2>1, <2>2 DEF InReach
    <2>4. pick.conv \in HomeIds(w) /\ (pick.conv \in Ids(list) \/ pages[w].more)  BY <1>10, <2>1, <2>3
    <2> QED  BY <1>12, <1>14, <1>15, <1>25, <2>1, <2>4 DEF InReach, Ids
  <1>30. Reads(d)'  BY <1>4, <1>14, <1>18 DEF Reads, ListFine, PageFine, None0
  <1>31. Loading'  BY <1>14, <1>20, <1>26, <1>27, <1>28, <1>29, <1>30 DEF Loading
  <1> QED  BY <1>21, <1>23, <1>24, <1>31 DEF ListInv
\* A workspace was created: it is to be selected.
LEMMA SpaceCreatedKeepsLists == ASSUME ListInv, NEW i, WorkspaceCreated(i) PROVE ListInv'
  <1>1. PICK c : c = calls[i]  OBVIOUS
  <1>2. i \in DOMAIN calls /\ c.op = "create_ws" /\ c.state = "answered"  BY <1>1 DEF WorkspaceCreated, Take
  <1>3. c \in CallRows /\ CreatingSpace(c)  BY <1>1, <1>2, PhaseOf
  <1>4. c.ws \in Workspaces /\ c.ws \in Nat /\ c.sel \in Nat /\ Founding(c.ws, c.sel)
    <2>1. c.ws \in Workspaces /\ Founding(c.ws, c.sel)  BY <1>2, <1>3 DEF CreatingSpace
    <2>2. c.ws \in Nat  BY <2>1, SpaceIds
    <2> QED  BY <1>3, <2>1, <2>2 DEF CallRows
  <1>5. PICK d : d = [WorkspacesCall(c.sel) EXCEPT !.then = c.ws]  OBVIOUS
  <1>6. d \in CallRows /\ d.op = "workspaces" /\ d.sel = c.sel /\ d.then = c.ws /\ d.state = "asked"
    <2>1. FreshSpaces(d, c.sel, c.ws)  BY <1>4, <1>5, SpacesCallWith
    <2> QED  BY <2>1 DEF FreshSpaces
  <1>7. UNCHANGED <<server, pick, lists, pages, known>>  BY DEF WorkspaceCreated
  <1>8. calls' = Append(Others(i), d)  BY <1>1, <1>5 DEF WorkspaceCreated
  <1>9. calls' \in Seq(CallRows) /\ ToSet(calls)' = {d} /\ Len(calls') = 1 /\ calls'[1] = d
    <2>1. calls[i].op \notin {"list", "workspaces"}  BY <1>1, <1>2
    <2> QED  BY <1>2, <1>6, <1>8, <2>1, InItsPlace
  <1>10. ListTypes'  BY <1>7, <1>9 DEF ListInv, ListTypes, ServerTypes
  <1>11. /\ Stamped' /\ Homes'
         /\ \A w : HomeIds(w)' = HomeIds(w)
         /\ \A w : HomeListed(w)' <=> HomeListed(w)
    <2>1. \A x \in ToSet(calls)' : x.state = "asked" \/ x \in ToSet(calls)  BY <1>6, <1>9
    <2> QED  BY <1>2, <1>7, <2>1, SameMarks
  <1>12. Founding(d.then, d.sel)'
    <2>1. Founding(c.ws, c.sel)'  BY <1>4, <1>7, <1>11 DEF Founding
    <2> QED  BY <1>6, <2>1
  <1>13. SpacesFine(d)'  BY <1>6 DEF SpacesFine
  <1>14. Founded'  BY <1>6, <1>9, <1>12, <1>13 DEF Founded
  <1> QED  BY <1>10, <1>11, <1>14 DEF ListInv

\* A workspace was deleted: when it was the selected one, none is until the answer comes.
LEMMA SpaceDeletedKeepsLists == ASSUME ListInv, NEW i, WorkspaceDeleted(i) PROVE ListInv'
  <1>1. PICK c : c = calls[i]  OBVIOUS
  <1>2. i \in DOMAIN calls /\ c.op = "delete_ws" /\ c.state = "answered"  BY <1>1 DEF WorkspaceDeleted, Take
  <1>3. c \in CallRows /\ DeletingSpace(c) /\ Len(calls) = 1 /\ Taken(i)  BY <1>1, <1>2, PhaseOf, TakenCall
  <1>4. /\ c.sel = pick.ws /\ c.ws \in Workspaces /\ c.ws \notin server.wss /\ \A w \in server.wss : HomeListed(w)
        /\ pick.ws = c.ws \/ (RightSpace /\ InReach)
      BY <1>2, <1>3 DEF DeletingSpace
  <1>5. /\ pick \in [ws : Workspaces \cup {None0}, conv : Nat] /\ pick.ws \in Workspaces \cup {None0}
        /\ server.wss \in SUBSET Workspaces /\ pick.ws \in Nat /\ None0 \notin server.wss /\ None0 \in Nat
    <2>1. pick \in [ws : Workspaces \cup {None0}, conv : Nat] /\ server.wss \in SUBSET Workspaces
        BY DEF ListInv, ListTypes, ServerTypes
    <2>2. pick.ws \in Workspaces \cup {None0}  BY <2>1
    <2> QED  BY <2>1, <2>2, SpaceIds
  <1>6. PICK d : d = WorkspacesCall(pick.ws)  OBVIOUS
  <1>7. d \in CallRows /\ d.op = "workspaces" /\ d.sel = pick.ws /\ d.then = 0 /\ d.state = "asked"
    <2>1. FreshSpaces(d, pick.ws, 0)  BY <1>5, <1>6, SpacesCallFields
    <2> QED  BY <2>1 DEF FreshSpaces
  <1>8. UNCHANGED <<server, lists, pages, known>>  BY DEF WorkspaceDeleted
  <1>9. PICK more : more = IF pick.ws = c.ws THEN Effects(pick.ws, None0) ELSE <<>>  OBVIOUS
  <1>10. PICK one : one = Append(Others(i), d)  OBVIOUS
  <1>11. one \in Seq(CallRows) /\ ToSet(one) = {d} /\ Len(one) = 1
    <2>1. one = <<d>>  BY <1>3, <1>10 DEF Taken
    <2> QED  BY <1>7, <2>1, OneCall
  <1>12. calls' = one \o more  BY <1>1, <1>4, <1>6, <1>9, <1>10 DEF WorkspaceDeleted
  <1>13. PICK e : e = WorkspacesCall(None0)  OBVIOUS
  <1>14. e \in CallRows /\ e.op = "workspaces" /\ e.sel = None0 /\ e.then = 0 /\ e.state = "asked"
    <2>1. FreshSpaces(e, None0, 0)  BY <1>5, <1>13, SpacesCallFields
    <2> QED  BY <2>1 DEF FreshSpaces
  <1>15. more \in Seq(CallRows) /\ ToSet(more) \subseteq {e} /\ (pick.ws # c.ws => ToSet(more) = {})
    <2>1. CASE pick.ws # c.ws  BY <1>9, <2>1, NoCalls
    <2>2. CASE pick.ws = c.ws
      <3>1. pick.ws # None0  BY <1>4, <2>2, SpaceIds
      <3>2. Effects(pick.ws, None0) \in Seq(CallRows) /\ ToSet(Effects(pick.ws, None0)) = {WorkspacesCall(None0)} \cup {}
          BY <1>5, <3>1, EffectCalls
      <3> QED  BY <1>9, <1>13, <2>2, <3>2
    <2> QED  BY <2>1, <2>2
  <1>16. calls' \in Seq(CallRows) /\ ToSet(calls)' \subseteq {d, e} /\ d \in ToSet(calls)' /\ (pick.ws # c.ws => ToSet(calls)' = {d})
    <2>1. calls' \in Seq(CallRows) /\ ToSet(calls') = ToSet(one) \cup ToSet(more)  BY <1>11, <1>12, <1>15, JoinedCalls
    <2> QED  BY <1>11, <1>15, <2>1
  <1>17. pick' = IF pick.ws = c.ws THEN [ws |-> None0, conv |-> None0] ELSE pick
      BY <1>1, <1>4 DEF WorkspaceDeleted, Picked
  <1>18. pick' \in [ws : Workspaces \cup {None0}, conv : Nat]  BY <1>5, <1>17 DEF None0
  <1>19. ListTypes'  BY <1>8, <1>16, <1>18 DEF ListInv, ListTypes, ServerTypes
  <1>20. /\ Stamped' /\ Homes'
         /\ \A w : HomeIds(w)' = HomeIds(w)
         /\ \A w : HomeListed(w)' <=> HomeListed(w)
         /\ FirstOf' = FirstOf
    <2>1. \A x \in ToSet(calls)' : x.state = "asked" \/ x \in ToSet(calls)  BY <1>7, <1>14, <1>16
    <2> QED  BY <1>2, <1>8, <2>1, SameMarks
  <1>21. \A w \in server'.wss : HomeListed(w)'  BY <1>4, <1>8, <1>20
  <1>22. SpacesFine(d)' /\ SpacesFine(e)'  BY <1>7, <1>14 DEF SpacesFine
  <1>23. CASE pick.ws = c.ws
    <2>1. calls' # <<>>
      <3>1. calls' = <<>> => ToSet(calls') = {}  BY NoCalls
      <3> QED  BY <1>16, <3>1
    <2>2. pick' = [ws |-> None0, conv |-> None0]  BY <1>17, <1>23
    <2>3. \A x \in ToSet(calls)' : x.op = "workspaces" /\ SpacesFine(x)' /\ x.then = None0 /\ x.sel \notin server'.wss
        BY <1>4, <1>5, <1>7, <1>8, <1>14, <1>16, <1>22, <1>23 DEF None0
    <2>4. Homeless'  BY <1>21, <2>1, <2>2, <2>3 DEF Homeless
    <2> QED  BY <1>19, <1>20, <2>4 DEF ListInv
  <1>24. CASE pick.ws # c.ws
    <2>1. RightSpace /\ InReach /\ pick' = pick /\ ToSet(calls)' = {d}  BY <1>4, <1>16, <1>17, <1>24
    <2>2. RightSpace' /\ InReach'  BY <1>8, <1>20, <2>1 DEF RightSpace, InReach, Ids
    <2>3. d.sel \in server'.wss \/ pick'.ws = FirstOf'
      <3>1. CASE pick.ws = None0  BY <1>20, <2>1, <3>1 DEF RightSpace, FirstOf
      <3>2. CASE pick.ws # None0  BY <1>7, <1>8, <2>1, <3>2 DEF RightSpace
      <3> QED  BY <3>1, <3>2
    <2>4. Reads(d)'  BY <1>7, <1>22, <2>3 DEF Reads, None0
    <2>5. pick'.ws # None0 => HomeListed(pick.ws)'
      <3>1. pick'.ws # None0 => pick'.ws \in server'.wss  BY <2>2 DEF RightSpace
      <3> QED  BY <1>8, <1>20, <1>21, <2>1, <3>1
    <2>6. \E x \in ToSet(calls)' : x.op = "workspaces"  BY <1>7, <2>1
    <2>7. Loading'  BY <1>21, <2>1, <2>2, <2>4, <2>5, <2>6 DEF Loading
    <2> QED  BY <1>19, <1>20, <2>7 DEF ListInv
  <1> QED  BY <1>23, <1>24

\* What the answer of the workspaces selects, and asks for
SpacesTaken(i, first, last) ==
    /\ known' = calls[i].answer
    /\ pick' = Picked(last, IF first = None0 THEN None0 ELSE pick.conv)
    /\ calls' = Others(i) \o Effects(pick.ws, first) \o Effects(first, last)
    /\ server' = server /\ lists' = lists /\ pages' = pages
FirstNext(c) == IF c.answer = <<>> THEN None0 ELSE IF c.sel \notin ToSet(c.answer) THEN c.answer[1] ELSE pick.ws

\* The continuation of the workspaces takes them so.
LEMMA SpacesTakenBy == ASSUME NEW i, WorkspacesAnswered(i)
                       PROVE  /\ i \in DOMAIN calls /\ calls[i].op = "workspaces" /\ calls[i].state = "answered"
                              /\ SpacesTaken(i, FirstNext(calls[i]),
                                             IF calls[i].then # None0 THEN calls[i].then ELSE FirstNext(calls[i]))
  <1>1. i \in DOMAIN calls /\ calls[i].op = "workspaces" /\ calls[i].state = "answered"  BY DEF WorkspacesAnswered, Take
  <1>2. PICK first : first = FirstNext(calls[i])  OBVIOUS
  <1>3. PICK last : last = IF calls[i].then # None0 THEN calls[i].then ELSE first  OBVIOUS
  <1>4. SpacesTaken(i, first, last)  BY <1>2, <1>3 DEF WorkspacesAnswered, SpacesTaken, FirstNext
  <1> QED  BY <1>1, <1>2, <1>3, <1>4

\* The requests of one change of selection after the other, of which one is none
LEMMA BothEffects ==
    ASSUME NEW i, Taken(i), NEW a \in Workspaces \cup {None0}, NEW b \in Workspaces \cup {None0},
           NEW e \in Workspaces \cup {None0}, a = b \/ b = e
    PROVE  /\ Others(i) \o Effects(a, b) \o Effects(b, e) \in Seq(CallRows)
           /\ ToSet(Others(i) \o Effects(a, b) \o Effects(b, e)) = ToSet(Others(i)) \cup ToSet(Effects(a, e))
  <1>1. PICK o, p, q : o = Others(i) /\ p = Effects(a, b) /\ q = Effects(b, e)  OBVIOUS
  <1>2. o \in Seq(CallRows) /\ p \in Seq(CallRows) /\ q \in Seq(CallRows)  BY <1>1, EffectCalls DEF Taken
  <1>3. PICK r : r = o \o p  OBVIOUS
  <1>4. r \in Seq(CallRows) /\ ToSet(r) = ToSet(o) \cup ToSet(p)  BY <1>2, <1>3, JoinedCalls
  <1>5. r \o q \in Seq(CallRows) /\ ToSet(r \o q) = ToSet(r) \cup ToSet(q)  BY <1>2, <1>4, JoinedCalls
  <1>6. ToSet(p) \cup ToSet(q) = ToSet(Effects(a, e))
    <2>1. CASE a = b
      <3>1. p = <<>>  BY <1>1, <2>1, EffectCalls
      <3>2. ToSet(p) = {}  BY <3>1, NoCalls
      <3> QED  BY <1>1, <2>1, <3>2
    <2>2. CASE b = e
      <3>1. q = <<>>  BY <1>1, <2>2, EffectCalls
      <3>2. ToSet(q) = {}  BY <3>1, NoCalls
      <3> QED  BY <1>1, <2>2, <3>2
    <2> QED  BY <2>1, <2>2
  <1>7. ToSet(r \o q) = ToSet(o) \cup ToSet(Effects(a, e))  BY <1>4, <1>5, <1>6
  <1> QED  BY <1>1, <1>3, <1>5, <1>7
\* The answer has the workspaces there are, and says which is first.
LEMMA SpacesAnswer ==
    ASSUME ListInv, NEW c, c.op = "workspaces", c.state = "answered", SpacesFine(c)
    PROVE  /\ c.answer \in Seq(Workspaces) /\ ToSet(c.answer) = server.wss
           /\ server.wss \in SUBSET Workspaces /\ FirstOf \in Workspaces \cup {None0}
           /\ (FirstOf = None0 <=> server.wss = {}) /\ (server.wss # {} => FirstOf \in server.wss)
           /\ FirstNext(c) = IF server.wss = {} THEN None0 ELSE IF c.sel \notin server.wss THEN FirstOf ELSE pick.ws
  <1>1. server.wss \in SUBSET Workspaces /\ IsFiniteSet(server.wss)  BY DEF ListInv, ListTypes, ServerTypes
  <1>2. PICK l : l = Listed(server.wss)  OBVIOUS
  <1>3. l \in Seq(Workspaces) /\ ToSet(l) = server.wss /\ (server.wss # {} => l[1] \in server.wss)  BY <1>1, <1>2, ListedAll
  <1>4. l = <<>> <=> server.wss = {}  BY <1>3, RowsListed
  <1>5. c.answer = l  BY <1>2 DEF SpacesFine
  <1>6. FirstOf = IF server.wss = {} THEN None0 ELSE l[1]  BY <1>2 DEF FirstOf
  <1>7. \A w \in server.wss : w # None0  BY <1>1, SpaceIds
  <1>8. FirstNext(c) = IF server.wss = {} THEN None0 ELSE IF c.sel \notin server.wss THEN FirstOf ELSE pick.ws
      BY <1>3, <1>4, <1>5, <1>6 DEF FirstNext
  <1>9. FirstOf \in Workspaces \cup {None0} /\ (FirstOf = None0 <=> server.wss = {}) /\ (server.wss # {} => FirstOf \in server.wss)
      BY <1>1, <1>3, <1>6, <1>7
  <1> QED  BY <1>1, <1>3, <1>5, <1>8, <1>9

\* Another workspace is selected, the first or one just created: its list is to come.
LEMMA SpaceSelected ==
    ASSUME ListInv, NEW i \in DOMAIN calls, server' = server, lists' = lists, pages' = pages, NEW t \in Workspaces \cup {None0},
           NEW n \in Nat, pick' = [ws |-> t, conv |-> n], known' \in Seq(Workspaces), KnownExist', RightSpace',
           pick.ws # t, calls' \in Seq(CallRows),
           ToSet(calls)' = ToSet(Others(i)) \cup ToSet(Effects(pick.ws, t)),
           \A x \in ToSet(Others(i)) : Reads(x)' /\ x \in ToSet(calls) /\ x.op = "workspaces",
           \A w \in server.wss \ {t} : HomeListed(w),
           n # None0 => OnServer(n), t = None0 => n = None0
    PROVE  ListInv'
  <1>1. pick.ws \in Workspaces \cup {None0}  BY DEF ListInv, ListTypes
  <1>2. t \in Nat  BY SpaceIds
  <1>3. pick'.ws = t /\ pick'.conv = n  OBVIOUS
  <1>4. PICK d : d = WorkspacesCall(t)  OBVIOUS
  <1>5. d \in CallRows /\ d.op = "workspaces" /\ d.sel = t /\ d.then = 0 /\ d.state = "asked"
    <2>1. FreshSpaces(d, t, 0)  BY <1>2, <1>4, SpacesCallFields
    <2> QED  BY <2>1 DEF FreshSpaces
  <1>6. PICK e : e = ListCall(t, TRUE)  OBVIOUS
  <1>7. e \in CallRows /\ e.op = "list" /\ e.ws = t /\ e.cursor = 0 /\ e.then = 0 /\ e.state = "asked"
    <2>1. TRUE \in BOOLEAN  OBVIOUS
    <2>2. FreshList(e, t, 0, 0)  BY <1>6, <2>1, ListCallFields
    <2> QED  BY <2>2 DEF FreshList
  <1>8. ToSet(Effects(pick.ws, t)) = {d} \cup IF t = None0 THEN {} ELSE {e}  BY <1>1, <1>4, <1>6, EffectCalls
  <1>9. ListTypes'  BY <1>3 DEF ListInv, ListTypes, ServerTypes
  <1>10. /\ Stamped' /\ Homes'
         /\ \A w : HomeIds(w)' = HomeIds(w)
         /\ \A w : HomeListed(w)' <=> HomeListed(w)
         /\ \A x : OnServer(x)' <=> OnServer(x)
         /\ FirstOf' = FirstOf
    <2>1. \A x \in ToSet(calls)' : x.state = "asked" \/ x \in ToSet(calls)  BY <1>5, <1>7, <1>8
    <2> QED  BY <2>1, SameMarks
  <1>11. Reads(d)'
    <2>1. SpacesFine(d)'  BY <1>5 DEF SpacesFine
    <2>2. d.sel \in server'.wss \/ pick'.ws = FirstOf'
      <3>1. CASE t = None0  BY <1>3, <1>10, <3>1 DEF RightSpace, FirstOf
      <3>2. CASE t # None0  BY <1>3, <1>5, <3>2 DEF RightSpace
      <3> QED  BY <3>1, <3>2
    <2> QED  BY <1>5, <2>1, <2>2 DEF Reads, None0
  <1>12. t # None0 => Reads(e)'  BY <1>3, <1>7 DEF Reads, ListFine, PageFine, None0
  <1>13. \A x \in ToSet(calls)' : Reads(x)'  BY <1>8, <1>11, <1>12
  <1>14. \A w \in server'.wss \ {pick'.ws} : HomeListed(w)'  BY <1>3, <1>10
  <1>15. Refreshing' \/ ((pick'.ws # None0 => HomeListed(pick.ws)') /\ InReach')
    <2>1. CASE t = None0  BY <1>3, <2>1 DEF InReach
    <2>2. CASE t # None0
      <3>1. \A x \in ToSet(calls)' : x.op = "list" => x.cursor = None0  BY <1>5, <1>7, <1>8 DEF None0
      <3>2. e \in ToSet(calls)'  BY <1>8, <2>2
      <3> QED  BY <1>3, <1>7, <1>10, <3>1, <3>2 DEF Refreshing
    <2> QED  BY <2>1, <2>2
  <1>16. Loading'  BY <1>13, <1>14, <1>15 DEF Loading
  <1> QED  BY <1>9, <1>10, <1>16 DEF ListInv

\* The workspaces that are taken leave the selection, or select the first or the one created.
LEMMA SpacesAnsweredKeepsLists == ASSUME ListInv, NEW i, WorkspacesAnswered(i) PROVE ListInv'
  <1>1. PICK c : c = calls[i]  OBVIOUS
  <1>2. i \in DOMAIN calls /\ c.op = "workspaces" /\ c.state = "answered"  BY <1>1, SpacesTakenBy
  <1>3. PICK first, last : first = FirstNext(c) /\ last = IF c.then # None0 THEN c.then ELSE first  OBVIOUS
  <1>4. SpacesTaken(i, first, last)  BY <1>1, <1>3, SpacesTakenBy
  <1>5. c \in CallRows /\ c \in ToSet(calls) /\ Taken(i) /\ (Loading \/ Homeless \/ Founded)
      BY <1>1, <1>2, PhaseOf, TakenCall
  <1>6. SpacesFine(c)
    <2>1. Loading => SpacesFine(c)  BY <1>2, <1>5 DEF Loading, Reads
    <2>2. Homeless => SpacesFine(c)  BY <1>5 DEF Homeless
    <2>3. Founded => SpacesFine(c)
      <3> SUFFICES ASSUME Founded PROVE SpacesFine(c)  OBVIOUS
      <3>1. i = 1  BY <1>2, TheOnly DEF Founded, ListInv, ListTypes
      <3> QED  BY <1>1, <3>1 DEF Founded
    <2> QED  BY <1>5, <2>1, <2>2, <2>3
  <1>7. /\ c.answer \in Seq(Workspaces) /\ ToSet(c.answer) = server.wss
        /\ server.wss \in SUBSET Workspaces /\ FirstOf \in Workspaces \cup {None0}
        /\ (FirstOf = None0 <=> server.wss = {}) /\ (server.wss # {} => FirstOf \in server.wss)
        /\ first = IF server.wss = {} THEN None0 ELSE IF c.sel \notin server.wss THEN FirstOf ELSE pick.ws
      BY <1>2, <1>3, <1>6, SpacesAnswer
  <1>8. pick \in [ws : Workspaces \cup {None0}, conv : Nat] /\ pick.ws \in Workspaces \cup {None0} /\ pick.conv \in Nat
      BY DEF ListInv, ListTypes
  <1>9. /\ known' = c.answer /\ pick' = Picked(last, IF first = None0 THEN None0 ELSE pick.conv)
        /\ calls' = Others(i) \o Effects(pick.ws, first) \o Effects(first, last)
        /\ server' = server /\ lists' = lists /\ pages' = pages
      BY <1>1, <1>4 DEF SpacesTaken
  <1>10. known' \in Seq(Workspaces) /\ KnownExist'  BY <1>7, <1>9 DEF KnownExist, ToSet
  <1>11. ToSet(Others(i)) \subseteq ToSet(calls) /\ \A x \in ToSet(calls) : x # c => x \in ToSet(Others(i))
      BY <1>1, <1>5 DEF Taken
  <1>12. \A x : SpacesFine(x)' <=> SpacesFine(x)  BY <1>9 DEF SpacesFine
  <1>13. FirstOf' = FirstOf  BY <1>9 DEF FirstOf
  <1>17. ASSUME first \in Workspaces \cup {None0}, last \in Workspaces \cup {None0}, pick.ws = first \/ first = last
         PROVE  calls' \in Seq(CallRows) /\ ToSet(calls') = ToSet(Others(i)) \cup ToSet(Effects(pick.ws, last))
    <2>1. PICK a, q : a = pick.ws /\ q = calls'  OBVIOUS
    <2>2. q = Others(i) \o Effects(a, first) \o Effects(first, last)  BY <1>9, <2>1
    <2>3. q \in Seq(CallRows) /\ ToSet(q) = ToSet(Others(i)) \cup ToSet(Effects(a, last))
        BY <1>5, <1>8, <1>17, <2>1, <2>2, BothEffects
    <2> QED  BY <2>1, <2>3
  <1>14. CASE Loading
    <2>1. RightSpace /\ Reads(c)  BY <1>5, <1>14 DEF Loading
    <2>2. c.then = None0 /\ (c.sel \in server.wss \/ pick.ws = FirstOf)  BY <1>2, <2>1 DEF Reads
    <2>3. first = pick.ws /\ last = pick.ws  BY <1>3, <1>7, <2>1, <2>2 DEF RightSpace
    <2>4. calls' \in Seq(CallRows) /\ ToSet(calls') = ToSet(Others(i))
      <3>1. calls' \in Seq(CallRows) /\ ToSet(calls') = ToSet(Others(i)) \cup ToSet(Effects(pick.ws, pick.ws))
          BY <1>8, <1>17, <2>3
      <3>2. ToSet(Effects(pick.ws, pick.ws)) = {}  BY <1>8, EffectCalls, NoCalls
      <3> QED  BY <3>1, <3>2
    <2>5. /\ pick'.ws = pick.ws /\ pick'.conv = IF pick.ws = None0 THEN None0 ELSE pick.conv
          /\ pick' \in [ws : Workspaces \cup {None0}, conv : Nat]
      <3>1. PICK m : m = IF pick.ws = None0 THEN None0 ELSE pick.conv  OBVIOUS
      <3>2. pick' = [ws |-> pick.ws, conv |-> m]  BY <1>9, <2>3, <3>1 DEF Picked
      <3>3. m \in Nat  BY <1>8, <3>1 DEF None0
      <3> QED  BY <1>8, <3>1, <3>2, <3>3
    <2>6. ListTypes'  BY <1>9, <1>10, <2>4, <2>5 DEF ListInv, ListTypes, ServerTypes
    <2>7. /\ Stamped' /\ Homes'
          /\ \A w : HomeIds(w)' = HomeIds(w)
          /\ \A w : HomeListed(w)' <=> HomeListed(w)
          /\ \A x : OnServer(x)' <=> OnServer(x)
      <3>1. \A x \in ToSet(calls)' : x.state = "asked" \/ x \in ToSet(calls)  BY <1>11, <2>4
      <3> QED  BY <1>2, <1>9, <3>1, SameMarks
    <2>8. RightSpace'  BY <1>9, <2>1, <2>5 DEF RightSpace
    <2>9. \A x \in ToSet(calls)' : Reads(x)'
      <3>1. \A x : PageFine(x)' <=> PageFine(x)  BY <2>7 DEF PageFine, Ids
      <3>2. \A x : Reads(x)' <=> Reads(x)  BY <1>9, <1>12, <1>13, <2>5, <2>7, <3>1 DEF Reads, ListFine
      <3> QED  BY <1>11, <1>14, <2>4, <3>2 DEF Loading
    <2>10. \A w \in server'.wss \ {pick'.ws} : HomeListed(w)'  BY <1>9, <1>14, <2>5, <2>7 DEF Loading
    <2>11. Refreshing => Refreshing'
      <3> SUFFICES ASSUME Refreshing PROVE Refreshing'  OBVIOUS
      <3>1. \A x \in ToSet(calls)' : x.op = "list" => x.cursor = None0  BY <1>11, <2>4 DEF Refreshing
      <3>2. ASSUME NEW x \in ToSet(calls), x.op = "list" PROVE x \in ToSet(calls)'  BY <1>2, <1>11, <2>4, <3>2
      <3>3. \E x \in ToSet(calls)' : x.op = "list"  BY <3>2 DEF Refreshing
      <3>4. pick'.conv # None0 => OnServer(pick.conv)'  BY <2>5, <2>7 DEF Refreshing
      <3> QED  BY <3>1, <3>3, <3>4 DEF Refreshing
    <2>12. InReach => InReach'  BY <1>9, <2>5, <2>7 DEF InReach, Ids
    <2>13. (pick.ws # None0 => HomeListed(pick.ws)) => (pick'.ws # None0 => HomeListed(pick.ws)')
      <3>1. \A w : w = pick.ws => (HomeListed(w)' <=> HomeListed(w))  BY <2>7
      <3>2. HomeListed(pick.ws)' = HomeListed(pick.ws)
        <4>1. pick'.ws = pick.ws /\ lists' = lists /\ server' = server  BY <1>9, <2>5
        <4> QED  BY <4>1 DEF HomeListed, HomeIds, Ids
      <3> QED  BY <2>5, <3>2
    <2>14. Loading'  BY <1>10, <1>14, <2>8, <2>9, <2>10, <2>11, <2>12, <2>13 DEF Loading
    <2> QED  BY <2>6, <2>7, <2>14 DEF ListInv
  <1>15. CASE Homeless
    <2>1. pick = [ws |-> None0, conv |-> None0] /\ c.then = None0 /\ c.sel \notin server.wss
        BY <1>5, <1>15 DEF Homeless
    <2>2. first = FirstOf /\ last = FirstOf  BY <1>3, <1>7, <2>1
    <2>3. pick' = [ws |-> FirstOf, conv |-> None0]  BY <1>9, <2>1, <2>2 DEF Picked
    <2>4. calls' \in Seq(CallRows) /\ ToSet(calls') = ToSet(Others(i)) \cup ToSet(Effects(pick.ws, FirstOf))
        BY <1>7, <1>17, <2>2
    <2>5. RightSpace'  BY <1>7, <1>9, <2>3 DEF RightSpace
    <2>6. \A x \in ToSet(Others(i)) : Reads(x)' /\ x \in ToSet(calls) /\ x.op = "workspaces"
      <3>1. pick'.ws = FirstOf'  BY <1>13, <2>3
      <3> QED  BY <1>11, <1>12, <1>15, <3>1 DEF Homeless, Reads
    <2>7. \A w \in server.wss : HomeListed(w)  BY <1>15 DEF Homeless
    <2>8. CASE FirstOf = None0
      <3>1. ToSet(calls)' = ToSet(Others(i))
        <4>1. ToSet(Effects(pick.ws, FirstOf)) = {}  BY <1>7, <1>8, <2>1, <2>8, EffectCalls, NoCalls
        <4> QED  BY <2>4, <4>1
      <3>2. pick' = pick  BY <2>1, <2>3, <2>8
      <3>3. ListTypes'  BY <1>8, <1>9, <1>10, <2>4, <3>2 DEF ListInv, ListTypes, ServerTypes
      <3>4. Stamped' /\ Homes' /\ \A w : HomeListed(w)' <=> HomeListed(w)
        <4>1. \A x \in ToSet(calls)' : x.state = "asked" \/ x \in ToSet(calls)  BY <1>11, <3>1
        <4> QED  BY <1>2, <1>9, <4>1, SameMarks
      <3>5. pick'.ws = None0 /\ pick'.conv = None0  BY <2>3, <2>8
      <3>6. InReach'  BY <3>5 DEF InReach
      <3>7. Loading'  BY <1>9, <1>10, <2>5, <2>6, <2>7, <3>1, <3>4, <3>5, <3>6 DEF Loading
      <3> QED  BY <3>3, <3>4, <3>7 DEF ListInv
    <2>9. CASE FirstOf # None0
      <3>1. pick.ws # FirstOf  BY <2>1, <2>9
      <3>2. None0 \in Nat  BY DEF None0
      <3>3. PICK t : t = FirstOf  OBVIOUS
      <3>4. t \in Workspaces \cup {None0} /\ pick' = [ws |-> t, conv |-> None0] /\ pick.ws # t
            /\ calls' \in Seq(CallRows) /\ ToSet(calls)' = ToSet(Others(i)) \cup ToSet(Effects(pick.ws, t))
          BY <1>7, <2>3, <2>4, <3>1, <3>3
      <3> QED  BY <1>2, <1>9, <1>10, <2>5, <2>6, <2>7, <3>2, <3>4, SpaceSelected
    <2> QED  BY <2>8, <2>9
  <1>16. CASE Founded
    <2>1. i = 1 /\ Len(calls) = 1  BY <1>2, <1>16, TheOnly DEF Founded, ListInv, ListTypes
    <2>2. PICK t : t = c.then  OBVIOUS
    <2>3. Founding(t, c.sel)  BY <1>1, <1>16, <2>1, <2>2 DEF Founded
    <2>4. /\ t \in server.wss /\ c.sel = pick.ws
          /\ pick.ws \in server.wss \ {t} \/ (pick.ws = None0 /\ server.wss = {t})
          /\ pick.conv # None0 => pick.conv \in HomeIds(pick.ws)
          /\ \A v \in server.wss \ {t} : HomeListed(v)
        BY <2>3 DEF Founding
    <2>5. t \in Workspaces /\ t # None0 /\ (\A w \in server.wss : w # None0)  BY <1>7, <2>4, SpaceIds
    <2>6. last = t /\ pick.ws # t /\ (first = pick.ws \/ first = t)
        BY <1>3, <1>7, <2>2, <2>4, <2>5
    <2>7. first # None0 /\ first \in Workspaces \cup {None0}  BY <1>7, <1>8, <2>4, <2>5, <2>6
    <2>8. pick' = [ws |-> t, conv |-> pick.conv]  BY <1>9, <2>5, <2>6, <2>7 DEF Picked
    <2>9. calls' \in Seq(CallRows) /\ ToSet(calls') = ToSet(Others(i)) \cup ToSet(Effects(pick.ws, t))
        BY <1>17, <2>5, <2>6, <2>7
    <2>10. ToSet(Others(i)) = {}
      <3>1. Others(i) = <<>>  BY <1>5, <2>1 DEF Taken
      <3> QED  BY <3>1, NoCalls
    <2>11. RightSpace'  BY <1>9, <2>4, <2>5, <2>8 DEF RightSpace
    <2>12. PICK n : n = pick.conv  OBVIOUS
    <2>13. n \in Nat /\ pick' = [ws |-> t, conv |-> n] /\ (n # None0 => OnServer(n)) /\ t \in Workspaces \cup {None0}
      <3>1. n # None0 => OnServer(n)  BY <2>4, <2>12 DEF HomeIds, OnServer
      <3> QED  BY <1>8, <2>5, <2>8, <2>12, <3>1
    <2> QED  BY <1>2, <1>9, <1>10, <2>4, <2>5, <2>6, <2>9, <2>10, <2>11, <2>13, SpaceSelected
  <1> QED  BY <1>5, <1>14, <1>15, <1>16
-----------------------------------------------------------------------------
(* The selection settles. *)

\* The rows the server starts with
LEMMA FirstRows ==
    ASSUME NEW n \in Nat, NEW convs, convs = {[id |-> k, ws |-> 1, at |-> k] : k \in 1 .. n}
    PROVE  /\ IsFiniteSet(convs)
           /\ \A c \in convs : c \in ConvRows /\ c.ws = 1 /\ c.at = c.id /\ c.id <= n
           /\ \A c, d \in convs : c.id = d.id => c = d
  <1>1. PICK ns : ns = 1 .. n  OBVIOUS
  <1>2. IsFiniteSet(ns)  BY <1>1, OneTo
  <1> DEFINE row == [k \in ns |-> [id |-> k, ws |-> 1, at |-> k]]
  <1>3. row \in Surjection(ns, convs)  BY <1>1 DEF Surjection
  <1> HIDE DEF row
  <1>4. IsFiniteSet(convs)  BY <1>2, <1>3, FS_Surjection
  <1>5. 1 \in Workspaces  BY ListsAssumption
  <1>6. \A c \in convs : \E k \in 1 .. n : c = [id |-> k, ws |-> 1, at |-> k]  OBVIOUS
  <1>7. \A k \in 1 .. n : k \in Nat \ {0} /\ k <= n  OBVIOUS
  <1>8. \A c \in convs : c \in ConvRows /\ c.ws = 1 /\ c.at = c.id /\ c.id <= n
    <2> TAKE c \in convs
    <2>1. PICK k \in 1 .. n : c = [id |-> k, ws |-> 1, at |-> k]  BY <1>6
    <2> QED  BY <1>5, <1>7, <2>1 DEF ConvRows
  <1>9. \A c, d \in convs : c.id = d.id => c = d  BY <1>6
  <1> QED  BY <1>4, <1>8, <1>9

\* The server starts with none of the workspaces, one or two.
LEMMA FirstServer ==
    ASSUME ListInit
    PROVE  /\ ServerTypes /\ None0 \notin server.wss
           /\ \A c \in server.convs : c \in ConvRows /\ c.ws \in server.wss /\ c.at = c.id /\ c.id <= server.last
           /\ \A c, d \in server.convs : c.id = d.id => c = d
  <1>1. PICK wss \in {{}, {1}, {1, 2}} :
            server = [wss |-> wss, convs |-> {[id |-> n, ws |-> 1, at |-> n] : n \in IF wss = {} THEN {} ELSE 1..(PageSize + 1)},
                      last |-> IF wss = {} THEN 0 ELSE PageSize + 1]
      BY DEF ListInit
  <1>2. PICK n : n = IF wss = {} THEN 0 ELSE PageSize + 1  OBVIOUS
  <1>3. n \in Nat /\ PageSize + 1 \in Nat  BY <1>2, ListsAssumption
  <1>4. (IF wss = {} THEN {} ELSE 1 .. (PageSize + 1)) = 1 .. n
    <2>1. CASE wss = {}
      <3>1. 1 .. 0 = {}  OBVIOUS
      <3> QED  BY <1>2, <2>1, <3>1
    <2>2. CASE wss # {}  BY <1>2, <2>2
    <2> QED  BY <2>1, <2>2
  <1>5. PICK convs : convs = {[id |-> k, ws |-> 1, at |-> k] : k \in 1 .. n}  OBVIOUS
  <1>6. server = [wss |-> wss, convs |-> convs, last |-> n]  BY <1>1, <1>2, <1>4, <1>5
  <1>7. /\ IsFiniteSet(convs)
        /\ \A c \in convs : c \in ConvRows /\ c.ws = 1 /\ c.at = c.id /\ c.id <= n
        /\ \A c, d \in convs : c.id = d.id => c = d
      BY <1>3, <1>5, FirstRows
  <1>8. wss # {} => 1 \in wss
    <2>1. wss = {} \/ wss = {1} \/ wss = {1, 2}  OBVIOUS
    <2> QED  BY <2>1
  <1>9. wss = {} => convs = {}
    <2>1. 1 .. 0 = {}  OBVIOUS
    <2> QED  BY <1>2, <1>5, <2>1
  <1>10. wss \in SUBSET Workspaces /\ IsFiniteSet(wss) /\ None0 \notin wss
    <2>1. IsFiniteSet({1, 2})
      <3>1. IsFiniteSet({1}) /\ IsFiniteSet({2})  BY FS_Singleton
      <3>2. IsFiniteSet({1} \cup {2})  BY <3>1, FS_Union
      <3>3. {1, 2} = {1} \cup {2}  OBVIOUS
      <3> QED  BY <3>2, <3>3
    <2>2. wss \in SUBSET {1, 2}  OBVIOUS
    <2>3. IsFiniteSet(wss)  BY <2>1, <2>2, FS_Subset
    <2> QED  BY <2>2, <2>3, ListsAssumption DEF None0
  <1>11. server.wss = wss /\ server.convs = convs /\ server.last = n  BY <1>6
  <1>12. server \in [wss : SUBSET Workspaces, convs : SUBSET ConvRows, last : Nat]
    <2>1. convs \in SUBSET ConvRows  BY <1>7
    <2> QED  BY <1>3, <1>6, <1>10, <2>1
  <1> QED  BY <1>7, <1>8, <1>9, <1>10, <1>11, <1>12 DEF ServerTypes

\* The inductive invariant holds initially: the workspaces are asked for, and none is selected.
LEMMA ListsStart == ListInit => ListInv
  <1> SUFFICES ASSUME ListInit PROVE ListInv  OBVIOUS
  <1>1. /\ ServerTypes /\ None0 \notin server.wss
        /\ \A c \in server.convs : c \in ConvRows /\ c.ws \in server.wss /\ c.at = c.id /\ c.id <= server.last
        /\ \A c, d \in server.convs : c.id = d.id => c = d
      BY FirstServer
  <1>2. /\ pick = [ws |-> None0, conv |-> None0] /\ lists = [ws \in Workspaces |-> <<>>]
        /\ pages = [ws \in Workspaces |-> [more |-> FALSE, cursor |-> None0]]
        /\ known = <<>> /\ calls = <<WorkspacesCall(None0)>>
      BY DEF ListInit
  <1>3. PICK c : c = WorkspacesCall(None0)  OBVIOUS
  <1>4. c \in CallRows /\ c.op = "workspaces" /\ c.sel = None0 /\ c.then = 0 /\ c.state = "asked"
    <2>1. None0 \in Nat  BY DEF None0
    <2>2. FreshSpaces(c, None0, 0)  BY <1>3, <2>1, SpacesCallFields
    <2> QED  BY <2>2 DEF FreshSpaces
  <1>5. calls \in Seq(CallRows) /\ ToSet(calls) = {c} /\ calls # <<>>
    <2>1. calls = <<c>>  BY <1>2, <1>3
    <2>2. calls \in Seq(CallRows) /\ ToSet(calls) = {c}  BY <1>4, <2>1, OneCall
    <2>3. calls = <<>> => ToSet(calls) = {}  BY NoCalls
    <2> QED  BY <2>2, <2>3
  <1>6. \A w \in Workspaces : lists[w] = <<>> /\ ToSet(lists[w]) = {}  BY <1>2, NoCalls
  <1>7. ListTypes
    <2>1. lists \in [Workspaces -> Seq(ListRows)]
      <3>1. <<>> \in Seq(ListRows)  BY EmptySeq
      <3> QED  BY <1>2, <3>1
    <2>2. pages \in [Workspaces -> [more : BOOLEAN, cursor : Nat]]  BY <1>2 DEF None0
    <2>3. pick \in [ws : Workspaces \cup {None0}, conv : Nat]  BY <1>2 DEF None0
    <2>4. known \in Seq(Workspaces)  BY <1>2, EmptySeq
    <2> QED  BY <1>1, <1>5, <2>1, <2>2, <2>3, <2>4 DEF ListTypes
  <1>8. Stamped
    <2>1. ListMarks = {}  BY <1>6 DEF ListMarks
    <2>2. AnswerMarks = {}  BY <1>4, <1>5 DEF AnswerMarks, AnswerRows
    <2>3. Marks = {[id |-> d.id, at |-> d.at] : d \in server.convs}  BY <2>1, <2>2 DEF Marks, ConvMarks
    <2>4. \A m \in Marks : m \in ListRows /\ m.at = m.id /\ m.id <= server.last
      <3> TAKE m \in Marks
      <3>1. PICK d \in server.convs : m = [id |-> d.id, at |-> d.at]  BY <2>3
      <3>2. d \in ConvRows /\ d.at = d.id /\ d.id <= server.last  BY <1>1
      <3> QED  BY <3>1, <3>2 DEF ConvRows, ListRows
    <2> QED  BY <2>4 DEF Stamped, OneEach
  <1>9. Homes  BY <1>1, <1>6 DEF Homes
  <1>10. \A w \in server.wss : HomeListed(w)
    <2> TAKE w \in server.wss
    <2>1. w \in Workspaces  BY <1>1 DEF ServerTypes
    <2>2. lists[w] \in Seq(ListRows) /\ ToSet(lists[w]) = {}  BY <1>6, <1>7, <2>1 DEF ListTypes
    <2>3. Ids(lists[w]) = {r.id : r \in ToSet(lists[w])}  BY <2>2, RowsListed
    <2> QED  BY <2>2, <2>3 DEF HomeListed
  <1>11. Homeless  BY <1>1, <1>2, <1>4, <1>5, <1>10 DEF Homeless, SpacesFine, None0
  <1> QED  BY <1>7, <1>8, <1>9, <1>11 DEF ListInv

\* Every step that fails no request keeps the invariant.
LEMMA ListsStep == ASSUME ListInv, OneAtATime, ListNext PROVE ListInv' \/ failed'
  <1>1. CASE SelectConversation  BY <1>1, SelectKeepsLists
  <1>2. CASE RefreshConversations  BY <1>2, RefreshKeepsLists
  <1>3. CASE LoadMoreConversations  BY <1>3, LoadMoreKeepsLists
  <1>4. CASE CreateConversation  BY <1>4, CreateKeepsLists
  <1>5. CASE DeleteConversation  BY <1>5, DeleteKeepsLists
  <1>6. CASE RenameConversation  BY <1>6, RenameKeepsLists
  <1>7. CASE CreateWorkspace  BY <1>7, CreateSpaceKeepsLists
  <1>8. CASE DeleteWorkspace  BY <1>8, DeleteSpaceKeepsLists
  <1>9. CASE Touch  BY <1>9, TouchKeepsLists
  <1>10. CASE Serve  BY <1>10, ServeKeepsLists
  <1>11. ASSUME NEW i \in DOMAIN calls,
                \/ ListAnswered(i) \/ WorkspacesAnswered(i)
                \/ ConversationCreated(i) \/ ConversationDeleted(i) \/ ConversationRenamed(i)
                \/ WorkspaceCreated(i) \/ WorkspaceDeleted(i)
                \/ CallFails(i)
         PROVE  ListInv' \/ failed'
    <2>1. CASE ListAnswered(i)  BY <2>1, ListAnsweredKeepsLists
    <2>2. CASE WorkspacesAnswered(i)  BY <2>2, SpacesAnsweredKeepsLists
    <2>3. CASE ConversationCreated(i)  BY <2>3, CreatedKeepsLists
    <2>4. CASE ConversationDeleted(i)  BY <2>4, DeletedKeepsLists
    <2>5. CASE ConversationRenamed(i)  BY <2>5, RenamedKeepsLists
    <2>6. CASE WorkspaceCreated(i)  BY <2>6, SpaceCreatedKeepsLists
    <2>7. CASE WorkspaceDeleted(i)  BY <2>7, SpaceDeletedKeepsLists
    <2>8. CASE CallFails(i)  BY <2>8 DEF CallFails
    <2> QED  BY <1>11, <2>1, <2>2, <2>3, <2>4, <2>5, <2>6, <2>7, <2>8
  <1> QED  BY <1>1, <1>2, <1>3, <1>4, <1>5, <1>6, <1>7, <1>8, <1>9, <1>10, <1>11 DEF ListNext

\* A request that failed is remembered.
LEMMA FailureStays == ASSUME failed, [ListNext]_listVars PROVE failed'
  <1>1. CASE ListNext
    <2>1. failed' = failed \/ failed' = TRUE
        BY <1>1, Zenon DEF ListNext, SelectConversation, RefreshConversations, LoadMoreConversations, CreateConversation,
               DeleteConversation, RenameConversation, CreateWorkspace, DeleteWorkspace, Touch, Serve, ListAnswered,
               WorkspacesAnswered, ConversationCreated, ConversationDeleted, ConversationRenamed, WorkspaceCreated,
               WorkspaceDeleted, CallFails
    <2> QED  BY <2>1, Zenon
  <1>2. CASE UNCHANGED listVars  BY <1>2 DEF listVars
  <1> QED  BY <1>1, <1>2

\* A step of the rest changes nothing here.
LEMMA ListsStay == ASSUME ListInv, UNCHANGED listVars PROVE ListInv'
  <1>1. UNCHANGED <<server, pick, lists, pages, known, calls>>  BY DEF listVars
  <1>2. \A w : HomeIds(w)' = HomeIds(w)  BY <1>1 DEF HomeIds
  <1>3. \A x : OnServer(x)' <=> OnServer(x)  BY <1>1 DEF OnServer
  <1>4. ServerTypes'  BY <1>1 DEF ListInv, ListTypes, ServerTypes
  <1>5. Stamped' /\ Homes'
    <2>1. \A c \in ToSet(calls)' : c.state = "asked" \/ c \in ToSet(calls)  BY <1>1
    <2> QED  BY <1>1, <2>1, MarksKept DEF ListInv
  <1>6. server'.wss = server.wss  BY <1>1
  <1> QED  BY <1>1, <1>2, <1>3, <1>4, <1>5, <1>6, SameServer

\* The inductive invariant of the sidebar is what the property says when nothing is under way.
LEMMA SettledAtRest == ListIInv => SelectionSettles
  <1> SUFFICES ASSUME ListInv, calls = <<>> PROVE SelectionSettles  BY DEF ListIInv, SelectionSettles
  <1>1. ToSet(calls) = {}  BY NoCalls
  <1>2. Loading
    <2>1. Len(calls) = 0  OBVIOUS
    <2> QED  BY <2>1 DEF ListInv, Homeless, Founded, Asking
  <1>3. RightSpace /\ InReach  BY <1>1, <1>2 DEF Loading, Refreshing
  <1>4. pick.conv # None0 => /\ pick.conv \in Ids(lists[pick.ws]) \/ pages[pick.ws].more
                             /\ \E c \in server.convs : c.id = pick.conv /\ c.ws = pick.ws
      BY <1>3 DEF InReach, HomeIds
  <1> QED  BY <1>3, <1>4 DEF SelectionSettles, RightSpace

\* Whatever the number of workspaces, the page size, what changes and the order of the
\* answers: when the user makes one request at a time and none failed, the selection is one
\* that exists and can be reached once every answer is in.
THEOREM SelectionIsKept == ASSUME MaxCalls = 1, UsesOthers = FALSE PROVE ListSpec => []SelectionSettles
  <1>1. ListInit => ListIInv  BY ListsStart DEF ListIInv
  <1>2. ASSUME ListIInv, [ListNext]_listVars PROVE ListIInv'
    <2> SUFFICES ASSUME ~failed' PROVE ListInv'  BY DEF ListIInv
    <2>1. ~failed  BY <1>2, FailureStays
    <2>2. ListInv  BY <1>2, <2>1 DEF ListIInv
    <2>3. OneAtATime  BY DEF OneAtATime
    <2> QED  BY <1>2, <2>2, <2>3, ListsStep, ListsStay
  <1>3. ListIInv /\ [ListNext]_listVars => ListIInv'  BY <1>2
  <1>4. ListIInv => SelectionSettles  BY SettledAtRest
  <1> QED  BY <1>1, <1>3, <1>4, PTL DEF ListSpec
=============================================================================
