-------------------------- MODULE FeedStoresProofs --------------------------
(***************************************************************************)
(* Theorems about the stores of the feed (FeedStores), for any rows and    *)
(* conversations: a view at rest never reads a cached answer that its      *)
(* stores no longer give, and the three stores with their pipeline         *)
(* implement the single store they replaced (SingleStore).                 *)
(*                                                                         *)
(* The invariant says that the rows, ids and groups of a conversation name *)
(* its own rows, that the sets an operation has still to make restore      *)
(* this, and that a cached answer is the one the stores give unless a set  *)
(* that advances the version of its conversation is still to come.  The    *)
(* refinement rests on it: a set that is made does not change what all the *)
(* sets still to make leave, so only the step that begins an operation     *)
(* shows.                                                                  *)
(***************************************************************************)
EXTENDS FeedStores, DesktopStreamProofs

-----------------------------------------------------------------------------
(* Sorted rows. *)

\* The rows up to a row, and its place
Below(rows, i) == {j \in DOMAIN rows : UpTo(rows, j, i)}
PlaceOf(rows, i) == Cardinality(Below(rows, i))

\* Rows have one order.
LEMMA UpToOrders ==
    ASSUME NEW rows \in Seq(FeedRows)
    PROVE  /\ \A i, j \in DOMAIN rows : UpTo(rows, i, j) \/ UpTo(rows, j, i)
           /\ \A i, j \in DOMAIN rows : UpTo(rows, i, j) /\ UpTo(rows, j, i) => i = j
           /\ \A i, j, k \in DOMAIN rows : UpTo(rows, i, j) /\ UpTo(rows, j, k) => UpTo(rows, i, k)
  <1>1. \A i \in DOMAIN rows : i \in Int /\ rows[i].id \in Int /\ rows[i].seq \in Int
    <2>1. \A i \in DOMAIN rows : i \in Int /\ rows[i] \in FeedRows  OBVIOUS
    <2> QED  BY <2>1, FeedRowsAssumption
  <1> QED  BY <1>1 DEF UpTo

\* The places of rows are 1, 2, ..., in their order.
LEMMA PlacesOfRows ==
    ASSUME NEW rows \in Seq(FeedRows)
    PROVE  /\ \A i \in DOMAIN rows : PlaceOf(rows, i) \in 1 .. Len(rows)
           /\ \A i, j \in DOMAIN rows : i # j /\ UpTo(rows, i, j) => PlaceOf(rows, i) < PlaceOf(rows, j)
           /\ \A i, j \in DOMAIN rows : PlaceOf(rows, i) = PlaceOf(rows, j) => i = j
           /\ \A k \in 1 .. Len(rows) : \E i \in DOMAIN rows : PlaceOf(rows, i) = k
  <1> DEFINE n == Len(rows)
             at == [i \in DOMAIN rows |-> PlaceOf(rows, i)]
  <1>1. n \in Nat /\ DOMAIN rows = 1 .. n /\ IsFiniteSet(1 .. n) /\ Cardinality(1 .. n) = n
    <2>1. n \in Nat /\ DOMAIN rows = 1 .. n  OBVIOUS
    <2> QED  BY <2>1, OneTo
  <1>2. ASSUME NEW i \in DOMAIN rows PROVE IsFiniteSet(Below(rows, i)) /\ PlaceOf(rows, i) \in 1 .. n
    <2>1. Below(rows, i) \in SUBSET (1 .. n) /\ i \in Below(rows, i)  BY <1>1, UpToOrders DEF Below
    <2>2. IsFiniteSet(Below(rows, i)) /\ Cardinality(Below(rows, i)) <= n  BY <1>1, <2>1, FS_Subset
    <2>3. Cardinality(Below(rows, i)) \in Nat  BY <2>2, FS_CardinalityType
    <2>4. Cardinality(Below(rows, i)) # 0
      <3>1. Cardinality(Below(rows, i)) = 0 => Below(rows, i) = {}  BY <2>2, FS_EmptySet
      <3> QED  BY <2>1, <3>1
    <2> QED  BY <1>1, <2>2, <2>3, <2>4 DEF PlaceOf
  <1>3. ASSUME NEW i \in DOMAIN rows, NEW j \in DOMAIN rows, i # j, UpTo(rows, i, j)
        PROVE  PlaceOf(rows, i) < PlaceOf(rows, j)
    <2>1. Below(rows, i) \in SUBSET Below(rows, j) /\ j \in Below(rows, j) /\ j \notin Below(rows, i)
        BY <1>3, UpToOrders DEF Below
    <2>2. PlaceOf(rows, i) <= PlaceOf(rows, j) /\ PlaceOf(rows, i) # PlaceOf(rows, j)
        BY <1>2, <2>1, FS_Subset DEF PlaceOf
    <2>3. PlaceOf(rows, i) \in Int /\ PlaceOf(rows, j) \in Int  BY <1>1, <1>2
    <2> QED  BY <2>2, <2>3
  <1>4. ASSUME NEW i \in DOMAIN rows, NEW j \in DOMAIN rows, PlaceOf(rows, i) = PlaceOf(rows, j) PROVE i = j
    <2>1. i # j => PlaceOf(rows, i) < PlaceOf(rows, j) \/ PlaceOf(rows, j) < PlaceOf(rows, i)  BY <1>3, UpToOrders
    <2>2. PlaceOf(rows, i) \in Int  BY <1>1, <1>2
    <2> QED  BY <1>4, <2>1, <2>2
  <1>5. at \in Injection(1 .. n, 1 .. n)  BY <1>1, <1>2, <1>4 DEF Injection, IsInjective
  <1>6. at \in Surjection(1 .. n, 1 .. n)
    <2> HIDE DEF at, n
    <2> QED  BY <1>1, <1>5, FS_Injection
  <1>7. \A k \in 1 .. n : \E i \in DOMAIN rows : PlaceOf(rows, i) = k  BY <1>1, <1>6 DEF Surjection
  <1> QED  BY <1>2, <1>3, <1>4, <1>7

\* Sorting puts the rows in their order, each where it belongs.
LEMMA SortMoves ==
    ASSUME NEW rows \in Seq(FeedRows)
    PROVE  /\ SortRows(rows) \in Seq(FeedRows) /\ Len(SortRows(rows)) = Len(rows)
           /\ \E from \in [1 .. Len(rows) -> 1 .. Len(rows)] :
                /\ \A k \in 1 .. Len(rows) : SortRows(rows)[k] = rows[from[k]]
                /\ \A i \in 1 .. Len(rows) : \E k \in 1 .. Len(rows) : from[k] = i
                /\ \A k, l \in 1 .. Len(rows) : k < l => from[k] # from[l] /\ UpTo(rows, from[k], from[l])
  <1> DEFINE n == Len(rows)
             From(k) == CHOOSE i \in DOMAIN rows : PlaceOf(rows, i) = k
             from == [k \in 1 .. n |-> From(k)]
  <1>1. n \in Nat /\ DOMAIN rows = 1 .. n  OBVIOUS
  <1>2. SortRows(rows) = [k \in 1 .. n |-> rows[From(k)]]  BY DEF SortRows, PlaceOf, Below
  <1>3. \A k \in 1 .. n : From(k) \in 1 .. n /\ PlaceOf(rows, From(k)) = k  BY <1>1, PlacesOfRows
  <1> HIDE DEF From
  <1>4. \A i \in 1 .. n : rows[i] \in FeedRows  BY ElementOfSeq
  <1>5. SortRows(rows) \in Seq(FeedRows) /\ Len(SortRows(rows)) = n /\ \A k \in 1 .. n : SortRows(rows)[k] = rows[from[k]]
      BY <1>1, <1>2, <1>3, <1>4
  <1>6. from \in [1 .. n -> 1 .. n]  BY <1>3
  <1>7. \A i \in 1 .. n : \E k \in 1 .. n : from[k] = i
    <2> SUFFICES ASSUME NEW i \in 1 .. n PROVE from[PlaceOf(rows, i)] = i /\ PlaceOf(rows, i) \in 1 .. n  OBVIOUS
    <2>1. PlaceOf(rows, i) \in 1 .. n  BY <1>1, PlacesOfRows
    <2>2. From(PlaceOf(rows, i)) = i  BY <1>1, <1>3, <2>1, PlacesOfRows
    <2> QED  BY <2>1, <2>2
  <1>8. ASSUME NEW k \in 1 .. n, NEW l \in 1 .. n, k < l PROVE from[k] # from[l] /\ UpTo(rows, from[k], from[l])
    <2>1. PlaceOf(rows, from[k]) = k /\ PlaceOf(rows, from[l]) = l /\ from[k] \in DOMAIN rows /\ from[l] \in DOMAIN rows
        BY <1>1, <1>3
    <2>2. k \in Int /\ l \in Int /\ ~(l < k) /\ k # l  BY <1>8
    <2>3. from[k] # from[l]  BY <2>1, <2>2
    <2>4. UpTo(rows, from[k], from[l]) \/ UpTo(rows, from[l], from[k])  BY <2>1, UpToOrders
    <2>5. ~UpTo(rows, from[l], from[k])  BY <2>1, <2>2, <2>3, PlacesOfRows
    <2> QED  BY <2>3, <2>4, <2>5
  <1> QED  BY <1>5, <1>6, <1>7, <1>8

\* Sorting keeps the rows, and no row gets the id of another.
LEMMA SortKeeps ==
    ASSUME NEW rows \in Seq(FeedRows)
    PROVE  /\ SortRows(rows) \in Seq(FeedRows) /\ Len(SortRows(rows)) = Len(rows)
           /\ Range(SortRows(rows)) = Range(rows)
           /\ IsInjective(IdSeq(rows)) => IsInjective(IdSeq(SortRows(rows)))
  <1>1. SortRows(rows) \in Seq(FeedRows) /\ Len(SortRows(rows)) = Len(rows)  BY SortMoves
  <1>2. PICK n \in Nat : n = Len(rows) /\ DOMAIN rows = 1 .. n /\ DOMAIN SortRows(rows) = 1 .. n  BY <1>1
  <1> DEFINE Permutes(f, m) ==
                /\ f \in [1 .. m -> 1 .. m]
                /\ \A k \in 1 .. m : SortRows(rows)[k] = rows[f[k]]
                /\ \A i \in 1 .. m : \E k \in 1 .. m : f[k] = i
                /\ \A k, l \in 1 .. m : k < l => f[k] # f[l]
  <1>a. PICK from \in [1 .. Len(rows) -> 1 .. Len(rows)] :
            /\ \A k \in 1 .. Len(rows) : SortRows(rows)[k] = rows[from[k]]
            /\ \A i \in 1 .. Len(rows) : \E k \in 1 .. Len(rows) : from[k] = i
            /\ \A k, l \in 1 .. Len(rows) : k < l => from[k] # from[l] /\ UpTo(rows, from[k], from[l])
      BY SortMoves
  <1>3. Permutes(from, n)  BY <1>2, <1>a
  <1>4. Range(SortRows(rows)) = Range(rows)
    <2>1. \A k \in 1 .. n : from[k] \in 1 .. n /\ SortRows(rows)[k] = rows[from[k]]  BY <1>3
    <2>2. ASSUME NEW i \in 1 .. n PROVE \E k \in 1 .. n : SortRows(rows)[k] = rows[i]
      <3>1. PICK k \in 1 .. n : from[k] = i  BY <1>3
      <3>2. SortRows(rows)[k] = rows[i]  BY <2>1, <3>1
      <3> QED  BY <3>2
    <2>3. Range(SortRows(rows)) = {SortRows(rows)[k] : k \in 1 .. n} /\ Range(rows) = {rows[i] : i \in 1 .. n}
        BY <1>2 DEF Range
    <2>4. \A x \in Range(SortRows(rows)) : x \in Range(rows)  BY <2>1, <2>3
    <2>5. \A x \in Range(rows) : x \in Range(SortRows(rows))  BY <2>2, <2>3
    <2> QED  BY <2>4, <2>5
  <1>5. ASSUME IsInjective(IdSeq(rows)) PROVE IsInjective(IdSeq(SortRows(rows)))
    <2>1. \A i, j \in 1 .. n : rows[i].id = rows[j].id => i = j  BY <1>2, <1>5 DEF IsInjective, IdSeq
    <2>2. \A k, l \in 1 .. n : SortRows(rows)[k].id = SortRows(rows)[l].id => from[k] = from[l]
      <3>1. \A k \in 1 .. n : from[k] \in 1 .. n /\ SortRows(rows)[k] = rows[from[k]]  BY <1>3
      <3> QED  BY <2>1, <3>1
    <2>3. \A k, l \in 1 .. n : k # l => k < l \/ l < k  OBVIOUS
    <2>4. \A k, l \in 1 .. n : from[k] = from[l] => k = l  BY <1>3, <2>3
    <2>5. \A k, l \in 1 .. n : SortRows(rows)[k].id = SortRows(rows)[l].id => k = l  BY <2>2, <2>4
    <2> QED  BY <1>2, <2>5 DEF IsInjective, IdSeq
  <1> QED  BY <1>1, <1>4, <1>5

\* Sorted rows stay as they are.
LEMMA SortAgain ==
    ASSUME NEW rows \in Seq(FeedRows)
    PROVE  SortRows(SortRows(rows)) = SortRows(rows)
  <1> DEFINE s == SortRows(rows)
  <1>1. s \in Seq(FeedRows) /\ Len(s) = Len(rows)  BY SortMoves
  <1>2. PICK n \in Nat : n = Len(rows) /\ DOMAIN rows = 1 .. n /\ DOMAIN s = 1 .. n /\ Len(s) = n  BY <1>1
  <1>3. PICK from \in [1 .. n -> 1 .. n] :
            /\ \A k \in 1 .. n : s[k] = rows[from[k]]
            /\ \A k, l \in 1 .. n : k < l => UpTo(rows, from[k], from[l])
      BY <1>2, SortMoves
  <1> HIDE DEF s
  <1>4. \A k, l \in 1 .. n : k < l => UpTo(s, k, l)  BY <1>2, <1>3 DEF UpTo
  <1>5. \A k \in 1 .. n : Below(s, k) = 1 .. k
    <2>1. \A k, l \in 1 .. n : k <= l => UpTo(s, k, l)
      <3>1. \A k, l \in 1 .. n : k <= l => k < l \/ k = l  OBVIOUS
      <3>2. \A k \in 1 .. n : UpTo(s, k, k)  BY <1>1, <1>2, UpToOrders
      <3> QED  BY <1>4, <3>1, <3>2
    <2>2. \A k, l \in 1 .. n : UpTo(s, k, l) => k <= l
      <3>1. \A k, l \in 1 .. n : k <= l \/ l <= k  OBVIOUS
      <3>2. \A k, l \in 1 .. n : UpTo(s, k, l) /\ l <= k => k = l  BY <1>1, <1>2, <2>1, UpToOrders
      <3>3. \A k \in 1 .. n : k <= k  OBVIOUS
      <3> QED  BY <3>1, <3>2, <3>3
    <2>3. \A k \in 1 .. n : {j \in 1 .. n : j <= k} = 1 .. k  BY <1>2
    <2>4. \A k \in 1 .. n : Below(s, k) = {j \in 1 .. n : j <= k}  BY <1>2, <2>1, <2>2 DEF Below
    <2> QED  BY <2>3, <2>4
  <1>6. \A k \in 1 .. n : PlaceOf(s, k) = k
    <2>1. \A k \in 1 .. n : k \in Nat  OBVIOUS
    <2> QED  BY <1>5, <2>1, OneTo DEF PlaceOf
  <1>7. \A k \in 1 .. n : (CHOOSE i \in DOMAIN s : PlaceOf(s, i) = k) = k
    <2> SUFFICES ASSUME NEW k \in 1 .. n PROVE (CHOOSE i \in 1 .. n : PlaceOf(s, i) = k) = k  BY <1>2
    <2>1. k \in 1 .. n /\ PlaceOf(s, k) = k  BY <1>6
    <2>2. \A i \in 1 .. n : PlaceOf(s, i) = k => i = k  BY <1>6
    <2> QED  BY <2>1, <2>2
  <1>8. SortRows(s) = [k \in 1 .. n |-> s[k]]
    <2>1. SortRows(s) = [k \in 1 .. n |-> s[CHOOSE i \in DOMAIN s : PlaceOf(s, i) = k]]
        BY <1>2 DEF SortRows, PlaceOf, Below
    <2> QED  BY <1>7, <2>1
  <1>9. s = [k \in 1 .. n |-> s[k]]  BY <1>1, <1>2
  <1> QED  BY <1>8, <1>9 DEF s

-----------------------------------------------------------------------------
(* Rows, ids and groups. *)

UniqueIds(rows) == \A r, q \in rows : r.id = q.id => r = q

\* Rows and their ids.
LEMMA IdsOfRows ==
    ASSUME NEW rows \in Seq(FeedRows)
    PROVE  /\ IdSeq(rows) \in Seq(Nat) /\ Len(IdSeq(rows)) = Len(rows)
           /\ Range(rows) \in SUBSET FeedRows
           /\ \A id : id \in Range(IdSeq(rows)) <=> \E r \in Range(rows) : r.id = id
           /\ IsInjective(IdSeq(rows)) => UniqueIds(Range(rows))
  <1>1. PICK n \in Nat : n = Len(rows) /\ DOMAIN rows = 1 .. n  OBVIOUS
  <1>2. \A i \in 1 .. n : rows[i] \in FeedRows /\ rows[i].id \in Nat  BY <1>1, FeedRowsAssumption
  <1>3. IdSeq(rows) = [i \in 1 .. n |-> rows[i].id]  BY <1>1 DEF IdSeq
  <1>4. IdSeq(rows) \in Seq(Nat) /\ Len(IdSeq(rows)) = n  BY <1>2, <1>3
  <1>5. Range(rows) = {rows[i] : i \in 1 .. n} /\ Range(IdSeq(rows)) = {rows[i].id : i \in 1 .. n}
      BY <1>1, <1>3 DEF Range
  <1>6. \A id : id \in Range(IdSeq(rows)) <=> \E r \in Range(rows) : r.id = id  BY <1>5
  <1>7. IsInjective(IdSeq(rows)) => UniqueIds(Range(rows))  BY <1>3, <1>5 DEF IsInjective, UniqueIds
  <1>8. Range(rows) \in SUBSET FeedRows  BY <1>2, <1>5
  <1> QED  BY <1>1, <1>4, <1>6, <1>7, <1>8

\* The rows of a list without one id.
LEMMA WithoutRows ==
    ASSUME NEW rows \in Seq(FeedRows), NEW id
    PROVE  /\ Without(rows, id) \in Seq(FeedRows)
           /\ Range(Without(rows, id)) = {r \in Range(rows) : r.id # id}
  <1>1. ToSet(rows) = Range(rows)  BY DEF ToSet, Range
  <1>2. Range(rows) \cap {r \in Range(rows) : r.id # id} = {r \in Range(rows) : r.id # id}  OBVIOUS
  <1> QED  BY <1>1, <1>2, OnlyOrder DEF Without

\* The rows of a list of ids are the stored rows with these ids.
LEMMA MaterializeRows ==
    ASSUME NEW ids \in Seq(Nat), NEW held \in SUBSET FeedRows
    PROVE  /\ Materialize(ids, held) \in Seq(FeedRows)
           /\ \A r \in Range(Materialize(ids, held)) : r \in held /\ r.id \in Range(ids)
           /\ UniqueIds(held) => Range(Materialize(ids, held)) = {r \in held : r.id \in Range(ids)}
  <1> DEFINE found == Only(ids, {r.id : r \in held})
             rows == [i \in DOMAIN found |-> CHOOSE r \in held : r.id = found[i]]
  <1>1. found \in Seq(Nat) /\ Range(found) = Range(ids) \cap {r.id : r \in held}  BY OnlyOrder
  <1>2. PICK n \in Nat : DOMAIN found = 1 .. n
    <2> HIDE DEF found
    <2>1. found \in Seq(Nat)  BY <1>1
    <2> QED  BY <2>1
  <1>3. Materialize(ids, held) = rows  BY DEF Materialize
  <1> HIDE DEF found
  <1>4. \A i \in 1 .. n : found[i] \in Range(ids) /\ \E r \in held : r.id = found[i]  BY <1>1, <1>2 DEF Range
  <1>5. \A i \in 1 .. n : rows[i] \in held /\ rows[i].id = found[i]  BY <1>2, <1>4
  <1>6. rows \in Seq(FeedRows) /\ Range(rows) = {rows[i] : i \in 1 .. n}
    <2>1. rows = [i \in 1 .. n |-> rows[i]]  BY <1>2
    <2>2. \A i \in 1 .. n : rows[i] \in FeedRows  BY <1>5
    <2>3. DOMAIN rows = 1 .. n  BY <1>2
    <2> HIDE DEF rows
    <2>4. rows \in Seq(FeedRows)  BY <2>1, <2>2
    <2> QED  BY <2>3, <2>4 DEF Range
  <1>7. \A r \in Range(rows) : r \in held /\ r.id \in Range(ids)
    <2> HIDE DEF rows
    <2> QED  BY <1>4, <1>5, <1>6
  <1>8. ASSUME UniqueIds(held), NEW r \in held, r.id \in Range(ids) PROVE r \in Range(rows)
    <2>1. r.id \in Range(found)  BY <1>1, <1>8
    <2>2. PICK i \in 1 .. n : found[i] = r.id  BY <1>2, <2>1 DEF Range
    <2>3. rows[i] = r
      <3> HIDE DEF rows
      <3> QED  BY <1>5, <1>8, <2>2 DEF UniqueIds
    <2> HIDE DEF rows
    <2> QED  BY <1>6, <2>3
  <1> HIDE DEF rows
  <1> QED  BY <1>3, <1>6, <1>7, <1>8

\* The ids that groups hold
GroupIds(gs) == UNION {Range(gs[g]) : g \in DOMAIN gs}

\* The groups of rows hold ids of these rows.
LEMMA GroupsOfRows ==
    ASSUME NEW rows \in Seq(FeedRows)
    PROVE  /\ BuildActivityGroups(rows) \in Seq(Seq(Nat))
           /\ GroupIds(BuildActivityGroups(rows)) \subseteq Range(IdSeq(SortRows(rows)))
  <1> DEFINE sorted == SortRows(rows)
             starts == {i \in DOMAIN sorted : i = 1 \/ sorted[i].kind = "user"}
             all == [i \in DOMAIN sorted |-> i]
             heads == Only(all, starts)
             end(g) == IF g < Len(heads) THEN heads[g + 1] - 1 ELSE Len(sorted)
             group(g) == [i \in 1..(end(g) - heads[g] + 1) |-> sorted[heads[g] + i - 1].id]
  <1>1. sorted \in Seq(FeedRows)  BY SortKeeps
  <1>2. PICK n \in Nat : n = Len(sorted) /\ DOMAIN sorted = 1 .. n  BY <1>1
  <1>3. \A i \in 1 .. n : sorted[i].id \in Nat /\ sorted[i].id \in Range(IdSeq(sorted))
    <2>1. \A i \in 1 .. n : sorted[i] \in FeedRows  BY <1>1, <1>2
    <2> HIDE DEF sorted
    <2> QED  BY <1>2, <2>1, FeedRowsAssumption DEF IdSeq, Range
  <1>4. BuildActivityGroups(rows) = [g \in DOMAIN heads |-> group(g)]  BY DEF BuildActivityGroups
  <1> HIDE DEF sorted
  <1>5. heads \in Seq(1 .. n)
    <2>1. all \in Seq(1 .. n)  BY <1>2
    <2> QED  BY <2>1, OnlyOrder
  <1> HIDE DEF heads
  <1>6. PICK m \in Nat : m = Len(heads) /\ DOMAIN heads = 1 .. m  BY <1>5
  <1>7. \A g \in 1 .. m : heads[g] \in 1 .. n /\ end(g) \in Int /\ end(g) <= n
    <2>1. \A g \in 1 .. m : heads[g] \in 1 .. n  BY <1>5, <1>6
    <2>2. \A g \in 1 .. m : g < m => g + 1 \in 1 .. m  BY <1>6
    <2> QED  BY <1>2, <1>6, <2>1, <2>2
  <1>8. ASSUME NEW g \in 1 .. m PROVE group(g) \in Seq(Nat) /\ Range(group(g)) \subseteq Range(IdSeq(sorted))
    <2>1. PICK h \in 1 .. n : h = heads[g]  BY <1>7
    <2>2. PICK e \in Int : e = end(g) /\ e <= n  BY <1>7
    <2>3. group(g) = [i \in 1 .. (e - h + 1) |-> sorted[h + i - 1].id]  BY <2>1, <2>2
    <2>4. \A i \in 1 .. (e - h + 1) : h + i - 1 \in 1 .. n  BY <2>2
    <2>5. \A i \in 1 .. (e - h + 1) : sorted[h + i - 1].id \in Nat /\ sorted[h + i - 1].id \in Range(IdSeq(sorted))
        BY <1>3, <2>4
    <2> DEFINE l == IF e - h + 1 >= 0 THEN e - h + 1 ELSE 0
    <2>6. l \in Nat /\ 1 .. l = 1 .. (e - h + 1)  BY <2>2
    <2> HIDE DEF end, l, group
    <2>7. group(g) = [i \in 1 .. l |-> sorted[h + i - 1].id]  BY <2>3, <2>6
    <2>8. \A i \in 1 .. l : sorted[h + i - 1].id \in Nat /\ sorted[h + i - 1].id \in Range(IdSeq(sorted))
        BY <2>5, <2>6
    <2>9. group(g) \in Seq(Nat)  BY <2>6, <2>7, <2>8
    <2>10. \A x \in Range(group(g)) : x \in Range(IdSeq(sorted))
      <3>1. Range(group(g)) = {sorted[h + i - 1].id : i \in 1 .. l}  BY <2>7 DEF Range
      <3> QED  BY <2>8, <3>1
    <2> QED  BY <2>9, <2>10
  <1> HIDE DEF group
  <1>9. BuildActivityGroups(rows) \in Seq(Seq(Nat))  BY <1>4, <1>6, <1>8
  <1>10. GroupIds(BuildActivityGroups(rows)) \subseteq Range(IdSeq(sorted))
    <2>1. BuildActivityGroups(rows) = [g \in 1 .. m |-> group(g)]  BY <1>4, <1>6
    <2> QED  BY <1>8, <2>1 DEF GroupIds
  <1> QED  BY <1>9, <1>10 DEF sorted

-----------------------------------------------------------------------------
(* What a view reads depends on the groups and on the kinds of their rows. *)

Alike(rows, more, id) ==
    /\ \A r \in rows : r.id = id => \E q \in more : q.id = id /\ q.kind = r.kind
    /\ \A q \in more : q.id = id => \E r \in rows : r.id = id /\ q.kind = r.kind

\* The ids of a group that show stay when its rows only say something else.
LEMMA VisibleSame ==
    ASSUME NEW group \in Seq(Nat), NEW rows, NEW more, NEW hide, \A id \in Range(group) : Alike(rows, more, id)
    PROVE  /\ VisibleIds(group, rows, hide) = VisibleIds(group, more, hide)
           /\ VisibleIds(group, rows, hide) \in Seq(Nat)
           /\ Range(VisibleIds(group, rows, hide)) \subseteq Range(group)
  <1> DEFINE shown(held) == {r.id : r \in {q \in held : hide => q.kind # "lifecycle"}}
  <1>1. ASSUME NEW id \in Range(group) PROVE id \in shown(rows) <=> id \in shown(more)
    <2>1. \A held : id \in shown(held) <=> \E r \in held : r.id = id /\ (hide => r.kind # "lifecycle")  OBVIOUS
    <2> HIDE DEF shown
    <2> QED  BY <2>1, <1>1 DEF Alike
  <1>2. VisibleIds(group, rows, hide) = Only(group, shown(rows)) /\ VisibleIds(group, more, hide) = Only(group, shown(more))
      BY DEF VisibleIds
  <1> HIDE DEF shown
  <1>3. Range(group) \cap shown(rows) = Range(group) \cap shown(more)  BY <1>1
  <1>4. Only(group, shown(rows)) = Only(group, shown(more))  BY <1>3, OnlySame
  <1>5. Only(group, shown(rows)) \in Seq(Nat) /\ Range(Only(group, shown(rows))) = Range(group) \cap shown(rows)
      BY OnlyOrder
  <1> QED  BY <1>2, <1>4, <1>5

\* So does a render group,
LEMMA RenderSame ==
    ASSUME NEW ids \in Seq(Nat), NEW rows, NEW more, NEW active, \A id \in Range(ids) : Alike(rows, more, id)
    PROVE  RenderGroup(ids, rows, active) = RenderGroup(ids, more, active)
  <1> DEFINE answers(held) == {i \in 2..Len(ids) : \E r \in held : r.id = ids[i] /\ r.kind = "assistant"}
  <1>1. answers(rows) = answers(more)
    <2>1. \A i \in 2..Len(ids) : ids[i] \in Range(ids)
      <3>1. DOMAIN ids = 1..Len(ids) /\ Len(ids) \in Nat  OBVIOUS
      <3>2. \A i \in 2..Len(ids) : i \in DOMAIN ids  BY <3>1
      <3> QED  BY <3>2 DEF Range
    <2> QED  BY <2>1 DEF Alike
  <1> DEFINE single(id) == [type |-> "single", ids |-> <<id>>, expanded |-> FALSE]
             upTo(last) == IF last = 0 THEN Len(ids) ELSE last - 1
             middle(last) == SubSeq(ids, 2, upTo(last))
             rest(last) == IF last = 0 THEN <<>> ELSE SubSeq(ids, last, Len(ids))
             folded(last) ==
                <<single(ids[1])>>
                \o (IF middle(last) = <<>> THEN <<>> ELSE <<[type |-> "intermediate", ids |-> middle(last), expanded |-> active]>>)
                \o [i \in 1..Len(rest(last)) |-> single(rest(last)[i])]
  <1>2. RenderGroup(ids, rows, active) = folded(Max({0} \cup answers(rows)))
        /\ RenderGroup(ids, more, active) = folded(Max({0} \cup answers(more)))
      BY Zenon DEF RenderGroup
  <1> HIDE DEF answers, folded
  <1> QED  BY <1>1, <1>2

\* and so do the render groups of a conversation.
LEMMA RendersSame ==
    ASSUME NEW gs \in Seq(Seq(Nat)), NEW rows, NEW more, NEW hide, \A id \in GroupIds(gs) : Alike(rows, more, id)
    PROVE  /\ [g \in DOMAIN gs |-> VisibleIds(gs[g], rows, hide)] = [g \in DOMAIN gs |-> VisibleIds(gs[g], more, hide)]
           /\ BuildRenderGroups(gs, rows, hide, FALSE) = BuildRenderGroups(gs, more, hide, FALSE)
  <1> DEFINE all(held) == [g \in DOMAIN gs |-> VisibleIds(gs[g], held, hide)]
             visible(held) == Only(all(held), Range(all(held)) \ {<<>>})
  <1>1. PICK n \in Nat : DOMAIN gs = 1 .. n  OBVIOUS
  <1>2. ASSUME NEW g \in 1 .. n
        PROVE  /\ VisibleIds(gs[g], rows, hide) = VisibleIds(gs[g], more, hide)
               /\ VisibleIds(gs[g], rows, hide) \in Seq(Nat)
               /\ \A id \in Range(VisibleIds(gs[g], rows, hide)) : id \in GroupIds(gs)
    <2>1. gs[g] \in Seq(Nat) /\ Range(gs[g]) \subseteq GroupIds(gs)  BY <1>1 DEF GroupIds
    <2>2. \A id \in Range(gs[g]) : Alike(rows, more, id)  BY <2>1
    <2>3. /\ VisibleIds(gs[g], rows, hide) = VisibleIds(gs[g], more, hide)
          /\ VisibleIds(gs[g], rows, hide) \in Seq(Nat)
          /\ Range(VisibleIds(gs[g], rows, hide)) \subseteq Range(gs[g])
        BY <2>1, <2>2, VisibleSame
    <2> QED  BY <2>1, <2>3
  <1>3. all(rows) = all(more)  BY <1>1, <1>2
  <1>4. all(rows) \in Seq(Seq(Nat)) /\ \A g \in 1 .. n : \A id \in Range(all(rows)[g]) : id \in GroupIds(gs)
      BY <1>1, <1>2
  <1>5. Range(all(rows)) = {all(rows)[g] : g \in 1 .. n}  BY <1>1 DEF Range
  <1> HIDE DEF all
  <1>6. visible(rows) = visible(more)  BY <1>3
  <1>7. visible(rows) \in Seq(Seq(Nat)) /\ Range(visible(rows)) \subseteq Range(all(rows))
    <2>1. /\ Only(all(rows), Range(all(rows)) \ {<<>>}) \in Seq(Seq(Nat))
          /\ Range(Only(all(rows), Range(all(rows)) \ {<<>>})) = Range(all(rows)) \cap (Range(all(rows)) \ {<<>>})
        BY <1>4, OnlyOrder
    <2> QED  BY <2>1
  <1> DEFINE shown(held) == [g \in DOMAIN visible(held) |-> RenderGroup(visible(held)[g], held, FALSE /\ g = Len(visible(held)))]
  <1>8. BuildRenderGroups(gs, rows, hide, FALSE) = FlattenSeq(shown(rows))
        /\ BuildRenderGroups(gs, more, hide, FALSE) = FlattenSeq(shown(more))
      BY DEF BuildRenderGroups, all
  <1> HIDE DEF visible
  <1>9. ASSUME NEW g \in DOMAIN visible(rows), NEW active
        PROVE  RenderGroup(visible(rows)[g], rows, active) = RenderGroup(visible(rows)[g], more, active)
    <2>1. visible(rows)[g] \in Seq(Nat) /\ visible(rows)[g] \in Range(all(rows))
      <3>1. visible(rows)[g] \in Range(visible(rows))  BY <1>9 DEF Range
      <3>2. DOMAIN visible(rows) = 1 .. Len(visible(rows))  BY <1>7
      <3>3. visible(rows)[g] \in Seq(Nat)  BY <1>7, <1>9, <3>2
      <3> QED  BY <1>7, <3>1, <3>3
    <2>2. \A id \in Range(visible(rows)[g]) : Alike(rows, more, id)  BY <1>4, <1>5, <2>1
    <2> QED  BY <2>1, <2>2, RenderSame
  <1>10. shown(rows) = shown(more)  BY <1>6, <1>9
  <1> QED  BY <1>3, <1>8, <1>10 DEF all

-----------------------------------------------------------------------------
(* The invariant. *)

EventSets == [set : {"events"}, gone : SUBSET Nat, new : SUBSET FeedRows]
IndexSets == [set : {"index"}, conv : Convs, ids : Seq(Nat), next : Nat]
GroupSets == [set : {"groups"}, conv : Convs, groups : Seq(Seq(Nat))]
LiveSets == [set : {"live"}, conv : Convs, live : {"default", "draft"}]
ClearSets == [set : {"clear"}, conv : Convs, ids : {<<>>}, next : {Scale}, live : {"default"}]
Sets == EventSets \cup IndexSets \cup GroupSets \cup LiveSets \cup ClearSets
Index == [ids : Seq(Nat), next : Nat, version : Nat, live : {"default", "draft"}]

FeedTyped ==
    /\ events \in SUBSET FeedRows
    /\ index \in [Convs -> Index]
    /\ groups \in [Convs -> Seq(Seq(Nat))]
    /\ caches = [c \in Convs |-> caches[c]] /\ timelines = [c \in Convs |-> timelines[c]]
    /\ todo \in Seq(Sets)

Places(k, c) == todo[k].set \in {"index", "clear"} /\ todo[k].conv = c
Due(c) == \E k \in DOMAIN todo : todo[k].set = "groups" /\ todo[k].conv = c

\* The ids of a conversation: no id is in two of them, and its rows say so
Stored ==
    /\ UniqueIds(events)
    /\ \A c \in Convs : IsInjective(index[c].ids)
    /\ \A c, d \in Convs : c # d => Range(index[c].ids) \cap Range(index[d].ids) = {}
    /\ \A r \in events, c \in Convs : r.id \in Range(index[c].ids) => r.conv = c

\* The only set still to make changes what rows say
Rewords ==
    /\ Len(todo) = 1 /\ todo[1].set = "events" /\ todo[1].gone = {}
    /\ \A n \in todo[1].new : \E r \in events : r.id = n.id /\ ~EventAffectsStructure(r, n)

Fresh(c) ==
    /\ GroupIds(groups[c]) \subseteq Range(index[c].ids)
    /\ \A e \in caches[c] : e = Computed(c, e.hide)
    /\ timelines[c] # <<>> => timelines[c][1] = FlattenSeq(groups[c])
Spared(c) ==
    \A k \in DOMAIN todo : todo[k].set = "events" => Touched(todo[k]) \cap GroupIds(groups[c]) = {}

StoresAgree == \A c \in Convs : ~Due(c) => Fresh(c) /\ (Rewords \/ Spared(c))

\* A row that stays is in its conversation when all sets are made
Homed(r, k) ==
    \/ \E l \in DOMAIN todo : l > k /\ todo[l].set = "events" /\ r.id \in Touched(todo[l])
    \/ \E l \in DOMAIN todo : l > k /\ todo[l].set = "index" /\ todo[l].conv = r.conv /\ r.id \in Range(todo[l].ids)
    \/ r.id \in Range(index[r.conv].ids) /\ \A l \in DOMAIN todo : ~Places(l, r.conv)

EventsFit(k) ==
    /\ UniqueIds(todo[k].new)
    /\ \A n \in todo[k].new : Homed(n, k)
    /\ \A n \in todo[k].new, c \in Convs :
         n.id \in Range(index[c].ids) => n.conv = c \/ \E j \in DOMAIN todo : j < k /\ Places(j, c)
    /\ \A j \in DOMAIN todo : j < k /\ todo[j].set = "index" =>
         \A n \in todo[k].new : n.id \in Range(todo[j].ids) => n.conv = todo[j].conv
    /\ \A j \in DOMAIN todo : j < k /\ todo[j].set = "groups" => Touched(todo[k]) \cap GroupIds(todo[j].groups) = {}

PlaceFits(k) ==
    /\ \E l \in DOMAIN todo : l > k /\ todo[l].set = "groups" /\ todo[l].conv = todo[k].conv
    /\ \A j \in DOMAIN todo : j < k => ~Places(j, todo[k].conv)

IndexFits(k) ==
    /\ IsInjective(todo[k].ids)
    /\ k = 1 => \A r \in events : r.id \in Range(todo[k].ids) => r.conv = todo[k].conv
    /\ k > 1 => /\ todo[k - 1].set = "events" /\ \A n \in todo[k - 1].new : n.conv = todo[k].conv
                /\ \A id \in Range(todo[k].ids) : \E n \in todo[k - 1].new : n.id = id
    /\ \A d \in Convs \ {todo[k].conv} :
         Range(todo[k].ids) \cap Range(index[d].ids) = {} \/ \E j \in DOMAIN todo : j < k /\ Places(j, d)
    /\ \A j \in DOMAIN todo : j < k /\ todo[j].set = "index" => Range(todo[j].ids) \cap Range(todo[k].ids) = {}

GroupsFit(k) ==
    /\ k = 1 => GroupIds(todo[k].groups) \subseteq Range(index[todo[k].conv].ids)
    /\ k > 1 => \/ Places(k - 1, todo[k].conv) /\ todo[k - 1].set = "index"
                   /\ GroupIds(todo[k].groups) \subseteq Range(todo[k - 1].ids)
                \/ Places(k - 1, todo[k].conv) /\ GroupIds(todo[k].groups) = {}

Planned ==
    /\ \A r \in events : Homed(r, 0)
    /\ \A k \in DOMAIN todo :
         /\ todo[k].set = "events" => EventsFit(k)
         /\ todo[k].set \in {"index", "clear"} => PlaceFits(k)
         /\ todo[k].set = "index" => IndexFits(k)
         /\ todo[k].set = "groups" => GroupsFit(k)

FeedInv == FeedTyped /\ Stored /\ StoresAgree /\ Planned

-----------------------------------------------------------------------------
(* One set is made. *)

\* What a set is made of
LEMMA SetForms ==
    ASSUME NEW s \in Sets
    PROVE  /\ s.set \in {"events", "index", "groups", "live", "clear"}
           /\ s.set = "events" => s.gone \in SUBSET Nat /\ s.new \in SUBSET FeedRows
           /\ s.set # "events" => s.conv \in Convs
           /\ s.set = "index" => s.ids \in Seq(Nat) /\ s.next \in Nat
           /\ s.set = "groups" => s.groups \in Seq(Seq(Nat))
           /\ s.set = "live" => s.live \in {"default", "draft"}
           /\ s.set = "clear" => s.ids = <<>> /\ s.next = Scale /\ s.live = "default"
  BY DEF Sets, EventSets, IndexSets, GroupSets, LiveSets, ClearSets

\* The sets still to make, when the first is made
LEMMA Shift ==
    ASSUME todo \in Seq(Sets), todo # <<>>, todo' = Tail(todo)
    PROVE  /\ Len(todo) \in Nat \ {0} /\ DOMAIN todo = 1 .. Len(todo) /\ DOMAIN todo' = 1 .. Len(todo) - 1
           /\ Head(todo) = todo[1] /\ 1 \in DOMAIN todo /\ todo' \in Seq(Sets)
           /\ \A k \in DOMAIN todo : k \in Nat /\ todo[k] \in Sets
           /\ \A k \in DOMAIN todo' : k \in Nat /\ k > 0 /\ k + 1 \in DOMAIN todo /\ todo'[k] = todo[k + 1]
           /\ \A k \in DOMAIN todo : k > 1 => k - 1 \in DOMAIN todo' /\ todo'[k - 1] = todo[k]
  <1>1. Len(todo) \in Nat \ {0} /\ DOMAIN todo = 1 .. Len(todo) /\ Head(todo) = todo[1]  OBVIOUS
  <1>2. todo' \in Seq(Sets) /\ Len(todo') = Len(todo) - 1 /\ \A i \in 1 .. Len(todo') : todo'[i] = todo[i + 1]
      BY HeadTailProperties
  <1>3. DOMAIN todo' = 1 .. Len(todo) - 1  BY <1>2
  <1>4. \A k \in DOMAIN todo : k \in Nat /\ todo[k] \in Sets  BY <1>1, ElementOfSeq
  <1>5. \A k \in DOMAIN todo' : k \in Nat /\ k > 0 /\ k + 1 \in DOMAIN todo /\ todo'[k] = todo[k + 1]  BY <1>1, <1>2, <1>3
  <1>6. \A k \in DOMAIN todo : k > 1 => k - 1 \in DOMAIN todo' /\ todo'[k - 1] = todo[k]
    <2> TAKE k \in DOMAIN todo
    <2>1. k \in 1 .. Len(todo) /\ k \in Int  BY <1>1
    <2>2. k > 1 => k - 1 \in 1 .. Len(todo) - 1 /\ k - 1 + 1 = k  BY <1>1, <2>1
    <2> QED  BY <1>2, <1>3, <2>2
  <1> QED  BY <1>1, <1>2, <1>3, <1>4, <1>5, <1>6

\* What a view reads stays as long as the groups, the version and the kinds of their rows do.
LEMMA FreshStays ==
    ASSUME FeedTyped, NEW c \in Convs, Fresh(c),
           groups'[c] = groups[c], index'[c].ids = index[c].ids, index'[c].version = index[c].version,
           caches'[c] = caches[c], timelines'[c] = timelines[c],
           \A id \in GroupIds(groups[c]) : Alike(events, events', id)
    PROVE  Fresh(c)'
  <1>1. groups[c] \in Seq(Seq(Nat))  BY DEF FeedTyped
  <1>2. ASSUME NEW hide PROVE Computed(c, hide)' = Computed(c, hide)
    <2>1. /\ [g \in DOMAIN groups[c] |-> VisibleIds(groups[c][g], events, hide)]
                = [g \in DOMAIN groups[c] |-> VisibleIds(groups[c][g], events', hide)]
          /\ BuildRenderGroups(groups[c], events, hide, FALSE) = BuildRenderGroups(groups[c], events', hide, FALSE)
      <3>1. PICK gs, more : gs = groups[c] /\ more = events'  OBVIOUS
      <3>2. gs \in Seq(Seq(Nat)) /\ \A id \in GroupIds(gs) : Alike(events, more, id)  BY <1>1, <3>1
      <3>3. /\ [g \in DOMAIN gs |-> VisibleIds(gs[g], events, hide)] = [g \in DOMAIN gs |-> VisibleIds(gs[g], more, hide)]
            /\ BuildRenderGroups(gs, events, hide, FALSE) = BuildRenderGroups(gs, more, hide, FALSE)
          BY <3>2, RendersSame
      <3> QED  BY <3>1, <3>3
    <2> QED  BY <2>1 DEF Computed
  <1>3. \A e \in caches[c] : e = Computed(c, e.hide)'  BY <1>2 DEF Fresh
  <1>4. \A e \in caches'[c] : e = Computed(c, e.hide)'  BY <1>3
  <1> QED  BY <1>4 DEF Fresh

\* What the sets still to make say of each other, without the stores
Paired(k) ==
    /\ todo[k].set = "events" =>
         /\ UniqueIds(todo[k].new)
         /\ \A j \in DOMAIN todo : j < k /\ todo[j].set = "index" =>
              \A n \in todo[k].new : n.id \in Range(todo[j].ids) => n.conv = todo[j].conv
         /\ \A j \in DOMAIN todo : j < k /\ todo[j].set = "groups" =>
              Touched(todo[k]) \cap GroupIds(todo[j].groups) = {}
    /\ todo[k].set \in {"index", "clear"} => PlaceFits(k)
    /\ todo[k].set = "index" =>
         /\ IsInjective(todo[k].ids)
         /\ k > 1 => /\ todo[k - 1].set = "events" /\ \A n \in todo[k - 1].new : n.conv = todo[k].conv
                     /\ \A id \in Range(todo[k].ids) : \E n \in todo[k - 1].new : n.id = id
         /\ \A j \in DOMAIN todo : j < k /\ todo[j].set = "index" => Range(todo[j].ids) \cap Range(todo[k].ids) = {}
    /\ todo[k].set = "groups" /\ k > 1 =>
         \/ Places(k - 1, todo[k].conv) /\ todo[k - 1].set = "index" /\ GroupIds(todo[k].groups) \subseteq Range(todo[k - 1].ids)
         \/ Places(k - 1, todo[k].conv) /\ GroupIds(todo[k].groups) = {}

\* What they say of a set stays when the first one is made.
LEMMA PairsShift ==
    ASSUME todo \in Seq(Sets), todo # <<>>, todo' = Tail(todo), Planned, NEW k \in DOMAIN todo'
    PROVE  Paired(k)'
  <1>1. PICK more : more = todo'  OBVIOUS
  <1>2. /\ k \in Nat /\ k + 1 \in DOMAIN todo /\ more[k] = todo[k + 1]
        /\ \A j \in DOMAIN more : j \in Nat /\ j > 0 /\ j + 1 \in DOMAIN todo /\ more[j] = todo[j + 1]
        /\ \A j \in DOMAIN todo : j \in Nat /\ (j > 1 => j - 1 \in DOMAIN more /\ more[j - 1] = todo[j])
      BY <1>1, Shift
  <1>3. ASSUME more[k].set = "events"
        PROVE /\ UniqueIds(more[k].new)
              /\ \A j \in DOMAIN more : j < k /\ more[j].set = "index" =>
                   \A n \in more[k].new : n.id \in Range(more[j].ids) => n.conv = more[j].conv
              /\ \A j \in DOMAIN more : j < k /\ more[j].set = "groups" =>
                   Touched(more[k]) \cap GroupIds(more[j].groups) = {}
    <2>1. EventsFit(k + 1)  BY <1>2, <1>3 DEF Planned
    <2>2. \A j \in DOMAIN more : j < k => j + 1 < k + 1  BY <1>2
    <2>3. \A j \in DOMAIN more : j < k => j + 1 \in DOMAIN todo /\ j + 1 < k + 1 /\ more[j] = todo[j + 1]  BY <1>2, <2>2
    <2>4. \A j \in DOMAIN todo : j < k + 1 /\ todo[j].set = "index" =>
             \A n \in more[k].new : n.id \in Range(todo[j].ids) => n.conv = todo[j].conv
        BY <1>2, <2>1 DEF EventsFit
    <2>5. \A j \in DOMAIN todo : j < k + 1 /\ todo[j].set = "groups" =>
             Touched(more[k]) \cap GroupIds(todo[j].groups) = {}
        BY <1>2, <2>1 DEF EventsFit
    <2>6. UniqueIds(more[k].new)  BY <1>2, <2>1 DEF EventsFit
    <2>7. \A j \in DOMAIN more : j < k /\ more[j].set = "index" =>
                   \A n \in more[k].new : n.id \in Range(more[j].ids) => n.conv = more[j].conv
        BY <2>3, <2>4
    <2>8. \A j \in DOMAIN more : j < k /\ more[j].set = "groups" =>
                   Touched(more[k]) \cap GroupIds(more[j].groups) = {}
        BY <2>3, <2>5
    <2> QED  BY <2>6, <2>7, <2>8
  <1>4. ASSUME more[k].set \in {"index", "clear"} PROVE PlaceFits(k)'
    <2>1. PlaceFits(k + 1)  BY <1>2, <1>4 DEF Planned
    <2>2. PICK l \in DOMAIN todo : l > k + 1 /\ todo[l].set = "groups" /\ todo[l].conv = more[k].conv
        BY <1>2, <2>1 DEF PlaceFits
    <2>3. l - 1 \in DOMAIN more /\ more[l - 1] = todo[l] /\ l - 1 > k  BY <1>2, <2>2
    <2>4. \A j \in DOMAIN more : j < k => j + 1 < k + 1 /\ j + 1 \in DOMAIN todo /\ more[j] = todo[j + 1]  BY <1>2
    <2>5. \A j \in DOMAIN more : j < k => ~(more[j].set \in {"index", "clear"} /\ more[j].conv = more[k].conv)
        BY <1>2, <2>1, <2>4 DEF PlaceFits, Places
    <2> QED  BY <1>1, <2>2, <2>3, <2>5 DEF PlaceFits, Places
  <1>5. ASSUME more[k].set = "index"
        PROVE /\ IsInjective(more[k].ids)
              /\ k > 1 => /\ more[k - 1].set = "events" /\ \A n \in more[k - 1].new : n.conv = more[k].conv
                          /\ \A id \in Range(more[k].ids) : \E n \in more[k - 1].new : n.id = id
              /\ \A j \in DOMAIN more : j < k /\ more[j].set = "index" => Range(more[j].ids) \cap Range(more[k].ids) = {}
    <2>1. IndexFits(k + 1)  BY <1>2, <1>5 DEF Planned
    <2>2. \A j \in DOMAIN more : j < k => j + 1 < k + 1  BY <1>2
    <2>3. k > 1 => k + 1 > 1 /\ more[k - 1] = todo[k] /\ k + 1 - 1 = k
      <3>1. k > 1 => k \in DOMAIN todo
        <4>1. DOMAIN todo = 1 .. Len(todo) /\ Len(todo) \in Nat  BY Shift
        <4> QED  BY <1>2, <4>1
      <3> QED  BY <1>2, <3>1
    <2>4. k > 1 => /\ more[k - 1].set = "events" /\ \A n \in more[k - 1].new : n.conv = more[k].conv
                   /\ \A id \in Range(more[k].ids) : \E n \in more[k - 1].new : n.id = id
        BY <1>2, <2>1, <2>3 DEF IndexFits
    <2>5. IsInjective(more[k].ids)  BY <1>2, <2>1 DEF IndexFits
    <2> QED  BY <1>2, <2>1, <2>2, <2>4, <2>5 DEF IndexFits
  <1>6. ASSUME more[k].set = "groups", k > 1
        PROVE \/ Places(k - 1, more[k].conv)' /\ more[k - 1].set = "index" /\ GroupIds(more[k].groups) \subseteq Range(more[k - 1].ids)
              \/ Places(k - 1, more[k].conv)' /\ GroupIds(more[k].groups) = {}
    <2>1. GroupsFit(k + 1)  BY <1>2, <1>6 DEF Planned
    <2>2. k + 1 > 1 /\ k + 1 - 1 = k /\ more[k - 1] = todo[k]
      <3>1. k \in DOMAIN todo
        <4>1. DOMAIN todo = 1 .. Len(todo) /\ Len(todo) \in Nat  BY Shift
        <4> QED  BY <1>2, <1>6, <4>1
      <3> QED  BY <1>2, <1>6, <3>1
    <2>3. Places(k - 1, more[k].conv)' <=> Places(k, more[k].conv)  BY <1>1, <2>2 DEF Places
    <2> QED  BY <1>2, <2>1, <2>2, <2>3 DEF GroupsFit
  <1> QED  BY <1>1, <1>3, <1>4, <1>5, <1>6 DEF Paired

\* The whole plan, from what its sets say of each other and of the stores
LEMMA PlanOf ==
    ASSUME NEW k, Paired(k)',
           (todo[k].set = "events" =>
               /\ \A n \in todo[k].new : Homed(n, k)
               /\ \A n \in todo[k].new, c \in Convs :
                    n.id \in Range(index[c].ids) => n.conv = c \/ \E j \in DOMAIN todo : j < k /\ Places(j, c))',
           (todo[k].set = "index" =>
               /\ k = 1 => \A r \in events : r.id \in Range(todo[k].ids) => r.conv = todo[k].conv
               /\ \A d \in Convs \ {todo[k].conv} :
                    Range(todo[k].ids) \cap Range(index[d].ids) = {} \/ \E j \in DOMAIN todo : j < k /\ Places(j, d))',
           (todo[k].set = "groups" /\ k = 1 => GroupIds(todo[k].groups) \subseteq Range(index[todo[k].conv].ids))'
    PROVE  (/\ todo[k].set = "events" => EventsFit(k)
            /\ todo[k].set \in {"index", "clear"} => PlaceFits(k)
            /\ todo[k].set = "index" => IndexFits(k)
            /\ todo[k].set = "groups" => GroupsFit(k))'
  BY DEF Paired, EventsFit, IndexFits, GroupsFit

\* An account of a row moves with the sets.
LEMMA AccountShift ==
    ASSUME todo \in Seq(Sets), todo # <<>>, todo' = Tail(todo), NEW r, NEW k \in Nat, Homed(r, k),
           k = 0 => ~(todo[1].set = "events" /\ r.id \in Touched(todo[1])),
           Places(1, r.conv) => /\ k = 0 /\ todo[1].set = "index" /\ r.id \in Range(todo[1].ids)
                                     => r.id \in Range(index'[r.conv].ids) /\ \A l \in DOMAIN todo : l > 1 => ~Places(l, r.conv),
           ~Places(1, r.conv) => index'[r.conv].ids = index[r.conv].ids
    PROVE  Homed(r, IF k = 0 THEN 0 ELSE k - 1)'
  <1>1. PICK more : more = todo'  OBVIOUS
  <1>2. /\ 1 \in DOMAIN todo
        /\ \A j \in DOMAIN more : j \in Nat /\ j > 0 /\ j + 1 \in DOMAIN todo /\ more[j] = todo[j + 1]
        /\ \A j \in DOMAIN todo : j \in Nat /\ (j > 1 => j - 1 \in DOMAIN more /\ more[j - 1] = todo[j])
      BY <1>1, Shift
  <1>3. PICK m \in Nat : m = IF k = 0 THEN 0 ELSE k - 1  OBVIOUS
  <1>4. \A l \in DOMAIN more : l + 1 > 1 /\ more[l] = todo[l + 1]  BY <1>2
  <1>5. CASE \E l \in DOMAIN todo : l > k /\ todo[l].set = "events" /\ r.id \in Touched(todo[l])
    <2>1. PICK l \in DOMAIN todo : l > k /\ todo[l].set = "events" /\ r.id \in Touched(todo[l])  BY <1>5
    <2>2. l > 1 /\ l - 1 > m  BY <1>2, <1>3, <2>1
    <2>3. l - 1 \in DOMAIN more /\ more[l - 1] = todo[l]  BY <1>2, <2>2
    <2> QED  BY <1>1, <1>3, <2>1, <2>2, <2>3 DEF Homed
  <1>6. CASE \E l \in DOMAIN todo : l > k /\ todo[l].set = "index" /\ todo[l].conv = r.conv /\ r.id \in Range(todo[l].ids)
    <2>1. PICK l \in DOMAIN todo : l > k /\ todo[l].set = "index" /\ todo[l].conv = r.conv /\ r.id \in Range(todo[l].ids)
        BY <1>6
    <2>2. CASE l > 1
      <3>1. l - 1 > m /\ l - 1 \in DOMAIN more /\ more[l - 1] = todo[l]  BY <1>2, <1>3, <2>1, <2>2
      <3> QED  BY <1>1, <1>3, <2>1, <3>1 DEF Homed
    <2>3. CASE ~(l > 1)
      <3>1. l = 1 /\ k = 0  BY <1>2, <2>1, <2>3
      <3>2. r.id \in Range(index'[r.conv].ids) /\ \A j \in DOMAIN todo : j > 1 => ~Places(j, r.conv)
          BY <2>1, <3>1 DEF Places
      <3>3. \A j \in DOMAIN more : ~Places(j + 1, r.conv)  BY <1>2, <1>4, <3>2
      <3>4. \A j \in DOMAIN more : ~(more[j].set \in {"index", "clear"} /\ more[j].conv = r.conv)
          BY <1>4, <3>3 DEF Places
      <3> QED  BY <1>1, <3>2, <3>4 DEF Homed, Places
    <2> QED  BY <2>2, <2>3
  <1>7. CASE r.id \in Range(index[r.conv].ids) /\ \A l \in DOMAIN todo : ~Places(l, r.conv)
    <2>1. index'[r.conv].ids = index[r.conv].ids  BY <1>2, <1>7
    <2>2. \A j \in DOMAIN more : ~(more[j].set \in {"index", "clear"} /\ more[j].conv = r.conv)
        BY <1>2, <1>7 DEF Places
    <2> QED  BY <1>1, <1>7, <2>1, <2>2 DEF Homed, Places
  <1> QED  BY <1>5, <1>6, <1>7 DEF Homed

\* The rows that stay when some are removed and others stored
LEMMA SetRows ==
    ASSUME NEW held \in SUBSET FeedRows, NEW s \in Sets, s.set = "events"
    PROVE  /\ SetEvents(held, s) \in SUBSET FeedRows /\ s.new \subseteq SetEvents(held, s)
           /\ \A r \in SetEvents(held, s) : r \in s.new \/ (r \in held /\ r.id \notin Touched(s))
           /\ \A r \in held : r.id \notin Touched(s) => r \in SetEvents(held, s)
           /\ \A r \in s.new : r.id \in Touched(s)
  BY SetForms DEF SetEvents, Touched

\* A set of the event store
LEMMA NextEvents ==
    ASSUME FeedInv, todo # <<>>, todo' = Tail(todo), todo[1].set = "events", events' = SetEvents(events, todo[1]),
           UNCHANGED <<index, groups, caches, timelines>>
    PROVE  FeedInv'
  <1>1. PICK s \in Sets : s = todo[1] /\ s.set = "events"  BY Shift DEF FeedInv, FeedTyped
  <1>2. PICK more : more = todo'  OBVIOUS
  <1>3. /\ todo \in Seq(Sets) /\ more \in Seq(Sets) /\ 1 \in DOMAIN todo /\ todo[1] = s
        /\ \A j \in DOMAIN more : j \in Nat /\ j > 0 /\ j + 1 \in DOMAIN todo /\ more[j] = todo[j + 1]
        /\ \A j \in DOMAIN todo : j \in Nat /\ (j > 1 => j - 1 \in DOMAIN more /\ more[j - 1] = todo[j])
      BY <1>1, <1>2, Shift DEF FeedInv, FeedTyped
  <1>4. /\ events \in SUBSET FeedRows /\ events' \in SUBSET FeedRows /\ s.new \subseteq events'
        /\ \A r \in events' : r \in s.new \/ (r \in events /\ r.id \notin Touched(s))
        /\ \A r \in events : r.id \notin Touched(s) => r \in events'
        /\ \A r \in s.new : r.id \in Touched(s)
    <2>1. events \in SUBSET FeedRows  BY DEF FeedInv, FeedTyped
    <2> QED  BY <1>1, <2>1, SetRows
  <1>5. FeedTyped'  BY <1>2, <1>3, <1>4 DEF FeedInv, FeedTyped
  <1>6. EventsFit(1)  BY <1>1, <1>3 DEF FeedInv, Planned
  <1>7. \A j \in DOMAIN todo : ~(j < 1)  BY <1>3
  <1>8. Stored'
    <2>1. UniqueIds(events')
      <3>1. UniqueIds(events) /\ UniqueIds(s.new)  BY <1>1, <1>6 DEF EventsFit, FeedInv, Stored
      <3> QED  BY <1>4, <3>1 DEF UniqueIds
    <2>2. \A n \in s.new, c \in Convs : n.id \in Range(index[c].ids) => n.conv = c  BY <1>1, <1>6, <1>7 DEF EventsFit
    <2>3. \A r \in events', c \in Convs : r.id \in Range(index[c].ids) => r.conv = c
        BY <1>4, <2>2 DEF FeedInv, Stored
    <2> QED  BY <2>1, <2>3 DEF FeedInv, Stored
  <1>9. StoresAgree'
    <2> SUFFICES ASSUME NEW c \in Convs, ~Due(c)' PROVE Fresh(c)' /\ Spared(c)'  BY DEF StoresAgree
    <2>1. ~Due(c)
      <3>1. ~\E k \in DOMAIN more : more[k].set = "groups" /\ more[k].conv = c  BY <1>2 DEF Due
      <3>2. \A k \in DOMAIN todo : k = 1 \/ k > 1  BY <1>3
      <3> QED  BY <1>1, <1>3, <3>1, <3>2 DEF Due
    <2>2. Fresh(c) /\ (Rewords \/ Spared(c))  BY <2>1 DEF FeedInv, StoresAgree
    <2>3. \A id \in GroupIds(groups[c]) : Alike(events, events', id)
      <3>1. CASE Rewords
        <4>1. /\ UniqueIds(events) /\ s.gone = {}
              /\ \A n \in s.new : \E r \in events : r.id = n.id /\ r.kind = n.kind
            BY <1>1, <3>1 DEF Rewords, EventAffectsStructure, FeedInv, Stored
        <4>2. \A r \in events : r.id \in Touched(s) => \E n \in s.new : n.id = r.id /\ n.kind = r.kind
            BY <4>1 DEF Touched, UniqueIds
        <4> QED  BY <1>4, <4>1, <4>2 DEF Alike
      <3>2. CASE Spared(c)
        <4>1. Touched(s) \cap GroupIds(groups[c]) = {}  BY <1>1, <1>3, <3>2 DEF Spared
        <4> QED  BY <1>4, <4>1 DEF Alike
      <3> QED  BY <2>2, <3>1, <3>2
    <2>4. Fresh(c)'
      <3>1. /\ groups'[c] = groups[c] /\ index'[c].ids = index[c].ids /\ index'[c].version = index[c].version
            /\ caches'[c] = caches[c] /\ timelines'[c] = timelines[c]
          OBVIOUS
      <3> QED  BY <2>2, <2>3, <3>1, FreshStays DEF FeedInv
    <2>5. Spared(c)'
      <3>1. CASE Rewords
        <4>1. \A j \in DOMAIN todo : ~(j > 1)
          <5>1. DOMAIN todo = 1 .. 1  BY <1>3, <3>1 DEF Rewords
          <5> QED  BY <5>1
        <4>2. \A j \in DOMAIN more : FALSE
          <5>1. \A j \in DOMAIN more : j + 1 > 1  BY <1>3
          <5> QED  BY <1>3, <4>1, <5>1
        <4> QED  BY <1>2, <4>2 DEF Spared
      <3>2. CASE Spared(c)
        <4>1. \A j \in DOMAIN more : more[j].set = "events" => Touched(more[j]) \cap GroupIds(groups[c]) = {}
            BY <1>3, <3>2 DEF Spared
        <4> QED  BY <1>2, <4>1 DEF Spared
      <3> QED  BY <2>2, <3>1, <3>2
    <2> QED  BY <2>4, <2>5
  <1>10. \A c \in Convs : ~Places(1, c)  BY <1>1 DEF Places
  <1>11. \A r \in events' : Homed(r, 0)'
    <2> SUFFICES ASSUME NEW r \in events' PROVE Homed(r, 0)'  OBVIOUS
    <2>1. ~Places(1, r.conv) /\ index'[r.conv].ids = index[r.conv].ids  BY <1>1 DEF Places
    <2>2. CASE r \in s.new
      <3>1. Homed(r, 1)  BY <1>1, <1>6, <2>2 DEF EventsFit
      <3>2. Homed(r, IF 1 = 0 THEN 0 ELSE 1 - 1)'  BY <1>3, <2>1, <3>1, AccountShift
      <3> QED  BY <3>2
    <2>3. CASE r \notin s.new
      <3>1. r \in events /\ r.id \notin Touched(s)  BY <1>4, <2>3
      <3>2. Homed(r, 0)  BY <3>1 DEF FeedInv, Planned
      <3>3. Homed(r, IF 0 = 0 THEN 0 ELSE 0 - 1)'  BY <1>1, <1>3, <2>1, <3>1, <3>2, AccountShift
      <3> QED  BY <3>3
    <2> QED  BY <2>2, <2>3
  <1>12. ASSUME NEW k \in DOMAIN more
         PROVE  (/\ todo[k].set = "events" => EventsFit(k)
                 /\ todo[k].set \in {"index", "clear"} => PlaceFits(k)
                 /\ todo[k].set = "index" => IndexFits(k)
                 /\ todo[k].set = "groups" => GroupsFit(k))'
    <2>1. Paired(k)'  BY <1>2, <1>3, PairsShift DEF FeedInv
    <2>2. k \in Nat /\ k > 0 /\ k + 1 \in DOMAIN todo /\ more[k] = todo[k + 1]  BY <1>3
    <2>3. \A c \in Convs : (\E j \in DOMAIN todo : j < k + 1 /\ Places(j, c))
                              => \E j \in DOMAIN more : j < k /\ Places(j, c)'
      <3> SUFFICES ASSUME NEW c \in Convs, NEW j \in DOMAIN todo, j < k + 1, Places(j, c)
                   PROVE  \E i \in DOMAIN more : i < k /\ Places(i, c)'
          OBVIOUS
      <3>1. j > 1 /\ j - 1 < k  BY <1>3, <1>10, <2>2
      <3> QED  BY <1>2, <1>3, <3>1 DEF Places
    <2>4. ASSUME more[k].set = "events"
          PROVE /\ \A n \in more[k].new : Homed(n, k)'
                /\ \A n \in more[k].new, c \in Convs :
                     n.id \in Range(index[c].ids) => n.conv = c \/ \E j \in DOMAIN more : j < k /\ Places(j, c)'
      <3>1. EventsFit(k + 1)  BY <2>2, <2>4 DEF FeedInv, Planned
      <3>2. ASSUME NEW n \in more[k].new PROVE Homed(n, k)'
        <4>1. Homed(n, k + 1)  BY <2>2, <3>1 DEF EventsFit
        <4>2. ~Places(1, n.conv) /\ index'[n.conv].ids = index[n.conv].ids  BY <1>1 DEF Places
        <4>3. k + 1 # 0 /\ k + 1 \in Nat /\ k + 1 - 1 = k  BY <2>2
        <4>4. Homed(n, IF k + 1 = 0 THEN 0 ELSE k + 1 - 1)'  BY <1>3, <4>1, <4>2, <4>3, AccountShift
        <4> QED  BY <4>3, <4>4
      <3> QED  BY <2>2, <2>3, <3>1, <3>2 DEF EventsFit
    <2>5. ASSUME more[k].set = "index"
          PROVE /\ k = 1 => \A r \in events' : r.id \in Range(more[k].ids) => r.conv = more[k].conv
                /\ \A d \in Convs \ {more[k].conv} :
                     Range(more[k].ids) \cap Range(index[d].ids) = {} \/ \E j \in DOMAIN more : j < k /\ Places(j, d)'
      <3>1. IndexFits(k + 1)  BY <2>2, <2>5 DEF FeedInv, Planned
      <3>2. ASSUME k = 1, NEW r \in events', r.id \in Range(more[k].ids) PROVE r.conv = more[k].conv
        <4>1. k + 1 > 1 /\ k + 1 - 1 = 1  BY <2>2, <3>2
        <4>2. (\A n \in s.new : n.conv = more[k].conv) /\ (\A id \in Range(more[k].ids) : \E n \in s.new : n.id = id)
            BY <1>1, <2>2, <3>1, <4>1 DEF IndexFits
        <4>3. r.id \in Touched(s)  BY <3>2, <4>2 DEF Touched
        <4> QED  BY <1>4, <4>2, <4>3
      <3>3. \A d \in Convs \ {more[k].conv} :
              Range(more[k].ids) \cap Range(index[d].ids) = {} \/ \E j \in DOMAIN todo : j < k + 1 /\ Places(j, d)
          BY <2>2, <3>1 DEF IndexFits
      <3> QED  BY <2>3, <3>2, <3>3
    <2>6. more[k].set = "groups" => k # 1
      <3> SUFFICES ASSUME more[k].set = "groups", k = 1 PROVE FALSE  OBVIOUS
      <3>1. GroupsFit(k + 1) /\ k + 1 > 1 /\ k + 1 - 1 = 1  BY <2>2 DEF FeedInv, Planned
      <3> QED  BY <1>1, <3>1 DEF GroupsFit, Places
    <2> QED  BY <1>2, <2>1, <2>4, <2>5, <2>6, PlanOf
  <1> QED  BY <1>2, <1>5, <1>8, <1>9, <1>11, <1>12 DEF FeedInv, Planned

\* A set of the group store, with the caches of its conversation
LEMMA NextGroups ==
    ASSUME FeedInv, todo # <<>>, todo' = Tail(todo), todo[1].set = "groups", SetGroups(todo[1]),
           UNCHANGED <<events, index>>
    PROVE  FeedInv'
  <1>1. PICK s \in Sets : s = todo[1] /\ s.set = "groups" /\ s.conv \in Convs /\ s.groups \in Seq(Seq(Nat))
    <2>1. todo[1] \in Sets  BY Shift DEF FeedInv, FeedTyped
    <2> QED  BY <2>1, SetForms
  <1>2. PICK more : more = todo'  OBVIOUS
  <1>3. /\ todo \in Seq(Sets) /\ more \in Seq(Sets) /\ 1 \in DOMAIN todo /\ todo[1] = s
        /\ \A j \in DOMAIN more : j \in Nat /\ j > 0 /\ j + 1 \in DOMAIN todo /\ more[j] = todo[j + 1]
        /\ \A j \in DOMAIN todo : j \in Nat /\ (j > 1 => j - 1 \in DOMAIN more /\ more[j - 1] = todo[j])
      BY <1>1, <1>2, Shift DEF FeedInv, FeedTyped
  <1>4. /\ groups' = [groups EXCEPT ![s.conv] = s.groups]
        /\ caches' = [caches EXCEPT ![s.conv] = {}] /\ timelines' = [timelines EXCEPT ![s.conv] = <<>>]
      BY <1>1 DEF SetGroups
  <1>5. FeedTyped'  BY <1>1, <1>2, <1>3, <1>4 DEF FeedInv, FeedTyped
  <1>6. GroupsFit(1)  BY <1>1, <1>3 DEF FeedInv, Planned
  <1>7. Stored'  BY DEF FeedInv, Stored
  <1>8. \A c : ~Places(1, c)  BY <1>1 DEF Places
  <1>9. StoresAgree'
    <2> SUFFICES ASSUME NEW c \in Convs, ~Due(c)' PROVE Fresh(c)' /\ Spared(c)'  BY DEF StoresAgree
    <2>1. CASE c = s.conv
      <3>1. groups'[c] = s.groups /\ caches'[c] = {} /\ timelines'[c] = <<>>
          BY <1>1, <1>4, <2>1 DEF FeedInv, FeedTyped
      <3>2. GroupIds(s.groups) \subseteq Range(index[c].ids)  BY <1>1, <1>6, <2>1 DEF GroupsFit
      <3>3. Fresh(c)'  BY <3>1, <3>2 DEF Fresh
      <3>4. ASSUME NEW k \in DOMAIN more, more[k].set = "events" PROVE Touched(more[k]) \cap GroupIds(s.groups) = {}
        <4>1. EventsFit(k + 1) /\ 1 < k + 1 /\ more[k] = todo[k + 1]  BY <1>3, <3>4 DEF FeedInv, Planned
        <4> QED  BY <1>1, <1>3, <4>1 DEF EventsFit
      <3> QED  BY <1>2, <3>1, <3>3, <3>4 DEF Spared
    <2>2. CASE c # s.conv
      <3>1. ~Due(c)
        <4>1. ~\E k \in DOMAIN more : more[k].set = "groups" /\ more[k].conv = c  BY <1>2 DEF Due
        <4>2. \A k \in DOMAIN todo : k = 1 \/ k > 1  BY <1>3
        <4> QED  BY <1>1, <1>3, <2>2, <4>1, <4>2 DEF Due
      <3>2. Fresh(c) /\ Spared(c)  BY <1>1, <3>1 DEF FeedInv, StoresAgree, Rewords
      <3>3. /\ groups'[c] = groups[c] /\ index'[c].ids = index[c].ids /\ index'[c].version = index[c].version
            /\ caches'[c] = caches[c] /\ timelines'[c] = timelines[c] /\ events' = events
          BY <1>4, <2>2 DEF FeedInv, FeedTyped
      <3>4. \A id : Alike(events, events', id)  BY <3>3 DEF Alike
      <3>5. Fresh(c)'  BY <3>2, <3>3, <3>4, FreshStays DEF FeedInv
      <3>6. \A k \in DOMAIN more : more[k].set = "events" => Touched(more[k]) \cap GroupIds(groups[c]) = {}
          BY <1>3, <3>2 DEF Spared
      <3> QED  BY <1>2, <3>3, <3>5, <3>6 DEF Spared
    <2> QED  BY <2>1, <2>2
  <1>11. \A r \in events' : Homed(r, 0)'
    <2> SUFFICES ASSUME NEW r \in events PROVE Homed(r, 0)'  OBVIOUS
    <2>1. ~Places(1, r.conv) /\ index'[r.conv].ids = index[r.conv].ids  BY <1>8
    <2>2. Homed(r, 0)  BY DEF FeedInv, Planned
    <2>3. Homed(r, IF 0 = 0 THEN 0 ELSE 0 - 1)'  BY <1>1, <1>3, <2>1, <2>2, AccountShift
    <2> QED  BY <2>3
  <1>12. ASSUME NEW k \in DOMAIN more
         PROVE  (/\ todo[k].set = "events" => EventsFit(k)
                 /\ todo[k].set \in {"index", "clear"} => PlaceFits(k)
                 /\ todo[k].set = "index" => IndexFits(k)
                 /\ todo[k].set = "groups" => GroupsFit(k))'
    <2>1. Paired(k)'  BY <1>2, <1>3, PairsShift DEF FeedInv
    <2>2. k \in Nat /\ k > 0 /\ k + 1 \in DOMAIN todo /\ more[k] = todo[k + 1]  BY <1>3
    <2>3. \A c \in Convs : (\E j \in DOMAIN todo : j < k + 1 /\ Places(j, c))
                              => \E j \in DOMAIN more : j < k /\ Places(j, c)'
      <3> SUFFICES ASSUME NEW c \in Convs, NEW j \in DOMAIN todo, j < k + 1, Places(j, c)
                   PROVE  \E i \in DOMAIN more : i < k /\ Places(i, c)'
          OBVIOUS
      <3>1. j > 1 /\ j - 1 < k  BY <1>3, <1>8, <2>2
      <3> QED  BY <1>2, <1>3, <3>1 DEF Places
    <2>4. ASSUME more[k].set = "events"
          PROVE /\ \A n \in more[k].new : Homed(n, k)'
                /\ \A n \in more[k].new, c \in Convs :
                     n.id \in Range(index[c].ids) => n.conv = c \/ \E j \in DOMAIN more : j < k /\ Places(j, c)'
      <3>1. EventsFit(k + 1)  BY <2>2, <2>4 DEF FeedInv, Planned
      <3>2. ASSUME NEW n \in more[k].new PROVE Homed(n, k)'
        <4>1. Homed(n, k + 1)  BY <2>2, <3>1 DEF EventsFit
        <4>2. ~Places(1, n.conv) /\ index'[n.conv].ids = index[n.conv].ids  BY <1>8
        <4>3. k + 1 # 0 /\ k + 1 \in Nat /\ k + 1 - 1 = k  BY <2>2
        <4>4. Homed(n, IF k + 1 = 0 THEN 0 ELSE k + 1 - 1)'  BY <1>3, <4>1, <4>2, <4>3, AccountShift
        <4> QED  BY <4>3, <4>4
      <3> QED  BY <2>2, <2>3, <3>1, <3>2 DEF EventsFit
    <2>5. ASSUME more[k].set = "index"
          PROVE /\ k # 1
                /\ \A d \in Convs \ {more[k].conv} :
                     Range(more[k].ids) \cap Range(index[d].ids) = {} \/ \E j \in DOMAIN more : j < k /\ Places(j, d)'
      <3>1. IndexFits(k + 1)  BY <2>2, <2>5 DEF FeedInv, Planned
      <3>2. k # 1
        <4>1. k = 1 => k + 1 > 1 /\ k + 1 - 1 = 1  BY <2>2
        <4> QED  BY <1>1, <3>1, <4>1 DEF IndexFits
      <3>3. \A d \in Convs \ {more[k].conv} :
              Range(more[k].ids) \cap Range(index[d].ids) = {} \/ \E j \in DOMAIN todo : j < k + 1 /\ Places(j, d)
          BY <2>2, <3>1 DEF IndexFits
      <3> QED  BY <2>3, <3>2, <3>3
    <2>6. more[k].set = "groups" => k # 1
      <3> SUFFICES ASSUME more[k].set = "groups", k = 1 PROVE FALSE  OBVIOUS
      <3>1. GroupsFit(k + 1) /\ k + 1 > 1 /\ k + 1 - 1 = 1  BY <2>2 DEF FeedInv, Planned
      <3> QED  BY <1>1, <3>1 DEF GroupsFit, Places
    <2> QED  BY <1>2, <2>1, <2>4, <2>5, <2>6, PlanOf
  <1> QED  BY <1>2, <1>5, <1>7, <1>9, <1>11, <1>12 DEF FeedInv, Planned

\* A set of the conversation store
LEMMA NextIndex ==
    ASSUME FeedInv, todo # <<>>, todo' = Tail(todo), todo[1].set \in {"index", "live", "clear"},
           index' = SetIndex(index, todo[1]), UNCHANGED <<events, groups, caches, timelines>>
    PROVE  FeedInv'
  <1>1. PICK s \in Sets : s = todo[1] /\ s.set \in {"index", "live", "clear"} /\ s.conv \in Convs
    <2>1. todo[1] \in Sets  BY Shift DEF FeedInv, FeedTyped
    <2> QED  BY <2>1, SetForms
  <1>2. PICK more : more = todo'  OBVIOUS
  <1>3. /\ todo \in Seq(Sets) /\ more \in Seq(Sets) /\ 1 \in DOMAIN todo /\ todo[1] = s
        /\ \A j \in DOMAIN more : j \in Nat /\ j > 0 /\ j + 1 \in DOMAIN todo /\ more[j] = todo[j + 1]
        /\ \A j \in DOMAIN todo : j \in Nat /\ (j > 1 => j - 1 \in DOMAIN more /\ more[j - 1] = todo[j])
      BY <1>1, <1>2, Shift DEF FeedInv, FeedTyped
  <1>4. /\ index' \in [Convs -> Index]
        /\ \A c \in Convs : c # s.conv => index'[c] = index[c]
        /\ s.set = "index" => index'[s.conv].ids = s.ids
        /\ s.set = "clear" => index'[s.conv].ids = <<>>
        /\ s.set = "live" => index'[s.conv].ids = index[s.conv].ids /\ index'[s.conv].version = index[s.conv].version
    <2>0. index \in [Convs -> Index] /\ index[s.conv] \in Index  BY <1>1 DEF FeedInv, FeedTyped
    <2>1. CASE s.set = "index"
      <3>1. index' = [index EXCEPT ![s.conv].ids = s.ids, ![s.conv].next = s.next, ![s.conv].version = @ + 1]
          BY <1>1, <2>1 DEF SetIndex
      <3>2. s.ids \in Seq(Nat) /\ s.next \in Nat  BY <2>1, SetForms
      <3>3. PICK x : x = [index[s.conv] EXCEPT !.ids = s.ids, !.next = s.next, !.version = @ + 1]  OBVIOUS
      <3>4. x \in Index /\ x.ids = s.ids
        <4>1. PICK old \in Index : old = index[s.conv]  BY <2>0
        <4>2. old.version + 1 \in Nat /\ old.live \in {"default", "draft"}  BY DEF Index
        <4>3. x = [ids |-> s.ids, next |-> s.next, version |-> old.version + 1, live |-> old.live]
            BY <3>3, <4>1 DEF Index
        <4> QED  BY <3>2, <4>2, <4>3 DEF Index
      <3>5. index' = [index EXCEPT ![s.conv] = x]  BY <1>1, <2>0, <3>1, <3>3
      <3> QED  BY <1>1, <2>0, <2>1, <3>4, <3>5
    <2>2. CASE s.set = "live"
      <3>1. index' = [index EXCEPT ![s.conv].live = s.live]  BY <1>1, <2>2 DEF SetIndex
      <3>2. s.live \in {"default", "draft"}  BY <2>2, SetForms
      <3>3. PICK x : x = [index[s.conv] EXCEPT !.live = s.live]  OBVIOUS
      <3>4. x \in Index /\ x.ids = index[s.conv].ids /\ x.version = index[s.conv].version
          BY <2>0, <3>2, <3>3 DEF Index
      <3>5. index' = [index EXCEPT ![s.conv] = x]  BY <1>1, <2>0, <3>1, <3>3
      <3> QED  BY <1>1, <2>0, <2>2, <3>4, <3>5
    <2>3. CASE s.set = "clear"
      <3>1. index' = [index EXCEPT ![s.conv] = EmptyIndex]  BY <1>1, <2>3 DEF SetIndex
      <3>2. EmptyIndex \in Index /\ EmptyIndex.ids = <<>>  BY DEF EmptyIndex, Index, Scale
      <3> QED  BY <1>1, <2>0, <2>3, <3>1, <3>2
    <2> QED  BY <1>1, <2>1, <2>2, <2>3
  <1>5. FeedTyped'  BY <1>2, <1>3, <1>4 DEF FeedInv, FeedTyped
  <1>6. /\ s.set = "index" => IndexFits(1)
        /\ s.set # "live" => PlaceFits(1)
      BY <1>1, <1>3 DEF FeedInv, Planned
  <1>7. \A j \in DOMAIN todo : ~(j < 1)  BY <1>3
  <1>8. \A c \in Convs : Places(1, c) <=> s.set # "live" /\ c = s.conv  BY <1>1 DEF Places
  <1>9. \A c \in Convs : \/ c = s.conv /\ s.set # "live"
                         \/ index'[c].ids = index[c].ids /\ index'[c].version = index[c].version
    <2> TAKE c \in Convs
    <2>1. CASE c # s.conv  BY <1>4, <2>1
    <2>2. CASE c = s.conv
      <3>1. s.set = "live" => index'[s.conv].ids = index[s.conv].ids /\ index'[s.conv].version = index[s.conv].version
          BY <1>4
      <3> QED  BY <2>2, <3>1
    <2> QED  BY <2>1, <2>2
  <1>10. Stored'
    <2>1. \A c \in Convs : IsInjective(index'[c].ids)
      <3>1. IsInjective(<<>>)  BY DEF IsInjective
      <3>2. s.set = "index" => IsInjective(s.ids)  BY <1>1, <1>6 DEF IndexFits
      <3>3. \A c \in Convs : IsInjective(index[c].ids)  BY DEF FeedInv, Stored
      <3> QED  BY <1>1, <1>4, <1>9, <3>1, <3>2, <3>3
    <2>2. \A d \in Convs : d # s.conv => Range(index'[s.conv].ids) \cap Range(index[d].ids) = {}
      <3>1. Range(<<>>) = {}  BY DEF Range
      <3>2. s.set = "index" => \A d \in Convs \ {s.conv} : Range(s.ids) \cap Range(index[d].ids) = {}
          BY <1>1, <1>6, <1>7 DEF IndexFits
      <3>3. \A d \in Convs : d # s.conv => Range(index[s.conv].ids) \cap Range(index[d].ids) = {}
          BY <1>1 DEF FeedInv, Stored
      <3> QED  BY <1>1, <1>4, <3>1, <3>2, <3>3
    <2>3. \A r \in events : r.id \in Range(index'[s.conv].ids) => r.conv = s.conv
      <3>1. Range(<<>>) = {}  BY DEF Range
      <3>2. s.set = "index" => \A r \in events : r.id \in Range(s.ids) => r.conv = s.conv  BY <1>1, <1>6 DEF IndexFits
      <3>3. \A r \in events : r.id \in Range(index[s.conv].ids) => r.conv = s.conv  BY <1>1 DEF FeedInv, Stored
      <3> QED  BY <1>1, <1>4, <3>1, <3>2, <3>3
    <2>4. \A c, d \in Convs : c # d => Range(index'[c].ids) \cap Range(index'[d].ids) = {}
      <3>1. \A c, d \in Convs : c # d => Range(index[c].ids) \cap Range(index[d].ids) = {}  BY DEF FeedInv, Stored
      <3> QED  BY <1>4, <2>2, <3>1
    <2>5. \A r \in events, c \in Convs : r.id \in Range(index'[c].ids) => r.conv = c
      <3>1. \A r \in events, c \in Convs : r.id \in Range(index[c].ids) => r.conv = c  BY DEF FeedInv, Stored
      <3> QED  BY <1>4, <2>3, <3>1
    <2> QED  BY <2>1, <2>4, <2>5 DEF FeedInv, Stored
  <1>11. StoresAgree'
    <2> SUFFICES ASSUME NEW c \in Convs, ~Due(c)' PROVE Fresh(c)' /\ Spared(c)'  BY DEF StoresAgree
    <2>1. ~Due(c)
      <3>1. ~\E k \in DOMAIN more : more[k].set = "groups" /\ more[k].conv = c  BY <1>2 DEF Due
      <3>2. \A k \in DOMAIN todo : k = 1 \/ k > 1  BY <1>3
      <3> QED  BY <1>1, <1>3, <3>1, <3>2 DEF Due
    <2>2. Fresh(c) /\ Spared(c)  BY <1>1, <2>1 DEF FeedInv, StoresAgree, Rewords
    <2>3. ~(c = s.conv /\ s.set # "live")
      <3> SUFFICES ASSUME c = s.conv, s.set # "live" PROVE Due(c)  BY <2>1
      <3> QED  BY <1>1, <1>6 DEF PlaceFits, Due
    <2>4. /\ groups'[c] = groups[c] /\ index'[c].ids = index[c].ids /\ index'[c].version = index[c].version
          /\ caches'[c] = caches[c] /\ timelines'[c] = timelines[c] /\ events' = events
        BY <1>9, <2>3
    <2>5. \A id : Alike(events, events', id)  BY DEF Alike
    <2>6. Fresh(c)'  BY <2>2, <2>4, <2>5, FreshStays DEF FeedInv
    <2>7. \A k \in DOMAIN more : more[k].set = "events" => Touched(more[k]) \cap GroupIds(groups[c]) = {}
        BY <1>3, <2>2 DEF Spared
    <2> QED  BY <1>2, <2>4, <2>6, <2>7 DEF Spared
  <1>12. ASSUME NEW r, r.conv \in Convs, NEW k \in Nat, Homed(r, k) PROVE Homed(r, IF k = 0 THEN 0 ELSE k - 1)'
    <2>1. ~(todo[1].set = "events" /\ r.id \in Touched(todo[1]))  BY <1>1
    <2>2. ASSUME Places(1, r.conv), todo[1].set = "index", r.id \in Range(todo[1].ids)
          PROVE  r.id \in Range(index'[r.conv].ids) /\ \A l \in DOMAIN todo : l > 1 => ~Places(l, r.conv)
      <3>1. r.conv = s.conv  BY <1>8, <1>12, <2>2
      <3>2. r.id \in Range(index'[r.conv].ids)  BY <1>1, <1>4, <2>2, <3>1
      <3>3. ASSUME NEW l \in DOMAIN todo, l > 1, Places(l, r.conv) PROVE FALSE
        <4>1. PlaceFits(l) /\ todo[l].conv = r.conv  BY <3>3 DEF FeedInv, Planned, Places
        <4> QED  BY <1>3, <2>2, <3>3, <4>1 DEF PlaceFits
      <3> QED  BY <3>2, <3>3
    <2>3. ~Places(1, r.conv) => index'[r.conv].ids = index[r.conv].ids  BY <1>8, <1>9, <1>12
    <2> QED  BY <1>3, <1>12, <2>1, <2>2, <2>3, AccountShift
  <1>13. \A r \in events' : Homed(r, 0)'
    <2> SUFFICES ASSUME NEW r \in events PROVE Homed(r, 0)'  OBVIOUS
    <2>1. r.conv \in Convs  BY FeedRowsAssumption DEF FeedInv, FeedTyped
    <2>2. Homed(r, 0)  BY DEF FeedInv, Planned
    <2>3. Homed(r, IF 0 = 0 THEN 0 ELSE 0 - 1)'  BY <1>12, <2>1, <2>2
    <2> QED  BY <2>3
  <1>14. ASSUME NEW k \in DOMAIN more
         PROVE  (/\ todo[k].set = "events" => EventsFit(k)
                 /\ todo[k].set \in {"index", "clear"} => PlaceFits(k)
                 /\ todo[k].set = "index" => IndexFits(k)
                 /\ todo[k].set = "groups" => GroupsFit(k))'
    <2>1. Paired(k)'  BY <1>2, <1>3, PairsShift DEF FeedInv
    <2>2. k \in Nat /\ k > 0 /\ k + 1 \in DOMAIN todo /\ more[k] = todo[k + 1] /\ 1 < k + 1  BY <1>3
    <2>3. ASSUME NEW c \in Convs, c # s.conv \/ s.set = "live", \E j \in DOMAIN todo : j < k + 1 /\ Places(j, c)
          PROVE  \E i \in DOMAIN more : i < k /\ Places(i, c)'
      <3>1. PICK j \in DOMAIN todo : j < k + 1 /\ Places(j, c)  BY <2>3
      <3>2. j # 1  BY <1>8, <2>3, <3>1
      <3>3. j > 1 /\ j - 1 < k
        <4>1. j \in 1 .. Len(todo)  BY <1>3
        <4> QED  BY <2>2, <3>1, <3>2, <4>1
      <3> QED  BY <1>2, <1>3, <3>1, <3>3 DEF Places
    <2>4. ASSUME more[k].set = "events"
          PROVE /\ \A n \in more[k].new : Homed(n, k)'
                /\ \A n \in more[k].new, c \in Convs :
                     n.id \in Range(index'[c].ids) => n.conv = c \/ \E j \in DOMAIN more : j < k /\ Places(j, c)'
      <3>1. EventsFit(k + 1)  BY <2>2, <2>4 DEF FeedInv, Planned
      <3>2. ASSUME NEW n \in more[k].new PROVE Homed(n, k)'
        <4>1. Homed(n, k + 1)  BY <2>2, <3>1 DEF EventsFit
        <4>2. n.conv \in Convs
          <5>1. more[k] \in Sets  BY <1>3, <3>2, Shift
          <5>2. n \in FeedRows  BY <2>4, <5>1, SetForms
          <5> QED  BY <5>2, FeedRowsAssumption
        <4>3. PICK m \in Nat : m = k + 1  BY <2>2
        <4>4. Homed(n, IF m = 0 THEN 0 ELSE m - 1)'
          <5>1. Homed(n, m)  BY <4>1, <4>3
          <5> QED  BY <1>12, <4>2, <5>1
        <4>5. k = IF m = 0 THEN 0 ELSE m - 1  BY <2>2, <4>3
        <4> QED  BY <4>4, <4>5
      <3>3. ASSUME NEW n \in more[k].new, NEW c \in Convs, n.id \in Range(index'[c].ids), n.conv # c
            PROVE  \E j \in DOMAIN more : j < k /\ Places(j, c)'
        <4>1. CASE c # s.conv \/ s.set = "live"
          <5>1. n.id \in Range(index[c].ids)  BY <1>9, <3>3, <4>1
          <5>2. \E j \in DOMAIN todo : j < k + 1 /\ Places(j, c)  BY <2>2, <3>1, <3>3, <5>1 DEF EventsFit
          <5> QED  BY <2>3, <4>1, <5>2
        <4>2. CASE c = s.conv /\ s.set = "index"
          <5>1. n.id \in Range(s.ids)  BY <1>4, <3>3, <4>2
          <5>2. n.conv = s.conv  BY <1>1, <1>3, <2>2, <3>1, <3>3, <4>2, <5>1 DEF EventsFit
          <5> QED  BY <3>3, <4>2, <5>2
        <4>3. CASE c = s.conv /\ s.set = "clear"
          <5>1. Range(<<>>) = {}  BY DEF Range
          <5> QED  BY <1>4, <3>3, <4>3, <5>1
        <4> QED  BY <1>1, <4>1, <4>2, <4>3
      <3> QED  BY <3>2, <3>3
    <2>5. ASSUME more[k].set = "index"
          PROVE /\ k = 1 => \A r \in events' : r.id \in Range(more[k].ids) => r.conv = more[k].conv
                /\ \A d \in Convs \ {more[k].conv} :
                     Range(more[k].ids) \cap Range(index'[d].ids) = {} \/ \E j \in DOMAIN more : j < k /\ Places(j, d)'
      <3>1. IndexFits(k + 1)  BY <2>2, <2>5 DEF FeedInv, Planned
      <3>2. k # 1
        <4>1. k = 1 => k + 1 > 1 /\ k + 1 - 1 = 1  BY <2>2
        <4> QED  BY <1>1, <3>1, <4>1 DEF IndexFits
      <3>3. ASSUME NEW d \in Convs \ {more[k].conv}, Range(more[k].ids) \cap Range(index'[d].ids) # {}
            PROVE  \E j \in DOMAIN more : j < k /\ Places(j, d)'
        <4>1. CASE d # s.conv \/ s.set = "live"
          <5>1. index'[d].ids = index[d].ids  BY <1>9, <4>1
          <5>2. \E j \in DOMAIN todo : j < k + 1 /\ Places(j, d)  BY <2>2, <3>1, <3>3, <5>1 DEF IndexFits
          <5> QED  BY <2>3, <4>1, <5>2
        <4>2. CASE d = s.conv /\ s.set = "index"
          <5>1. Range(s.ids) \cap Range(more[k].ids) = {}  BY <1>1, <1>3, <2>2, <3>1, <4>2 DEF IndexFits
          <5> QED  BY <1>4, <3>3, <4>2, <5>1
        <4>3. CASE d = s.conv /\ s.set = "clear"
          <5>1. Range(<<>>) = {}  BY DEF Range
          <5> QED  BY <1>4, <3>3, <4>3, <5>1
        <4> QED  BY <1>1, <4>1, <4>2, <4>3
      <3> QED  BY <3>2, <3>3
    <2>6. ASSUME more[k].set = "groups", k = 1 PROVE GroupIds(more[k].groups) \subseteq Range(index'[more[k].conv].ids)
      <3>1. GroupsFit(k + 1) /\ k + 1 > 1 /\ k + 1 - 1 = 1  BY <2>2, <2>6 DEF FeedInv, Planned
      <3>2. \/ Places(1, more[k].conv) /\ s.set = "index" /\ GroupIds(more[k].groups) \subseteq Range(s.ids)
            \/ GroupIds(more[k].groups) = {}
          BY <1>1, <2>2, <3>1 DEF GroupsFit
      <3>3. Places(1, more[k].conv) => more[k].conv = s.conv  BY <1>1 DEF Places
      <3> QED  BY <1>4, <3>2, <3>3
    <2> QED  BY <1>2, <2>1, <2>4, <2>5, <2>6, PlanOf
  <1> QED  BY <1>2, <1>5, <1>10, <1>11, <1>13, <1>14 DEF FeedInv, Planned

-----------------------------------------------------------------------------
(* An operation begins. *)

\* A finite set of numbers has a largest one.
LEMMA MaxOf ==
    ASSUME NEW S \in SUBSET Nat, IsFiniteSet(S), S # {}
    PROVE  Max(S) \in S /\ \A y \in S : y <= Max(S)
  <1> DEFINE HasMax(U) == \E x \in U : \A y \in U : x >= y
             F == FiniteSubsetsOf(S)
             Bad == {U \in F : U # {} /\ ~HasMax(U)}
  <1>1. Bad = {}
    <2> SUFFICES ASSUME Bad # {} PROVE FALSE  OBVIOUS
    <2>1. IsWellFoundedOn(StrictSubsetOrdering(S), F)  BY FS_StrictSubsetOrderingWellFounded
    <2>2. Bad \subseteq F  OBVIOUS
    <2>3. PICK U \in Bad : \A V \in Bad : ~(<<V, U>> \in StrictSubsetOrdering(S))  BY <2>1, <2>2, WFMin
    <2>4. U \in SUBSET S /\ IsFiniteSet(U) /\ U # {}  BY <2>3 DEF FiniteSubsetsOf
    <2>5. PICK x \in U : TRUE  BY <2>4
    <2> DEFINE V == U \ {x}
    <2>6. V \in F
      <3>1. IsFiniteSet(V)  BY <2>4, FS_RemoveElement
      <3> QED  BY <2>4, <3>1 DEF FiniteSubsetsOf
    <2>7. V \notin Bad
      <3>1. <<V, U>> \in StrictSubsetOrdering(S)
        <4>1. V \in SUBSET U /\ V # U  BY <2>5
        <4> QED  BY <2>4, <2>6, <4>1 DEF StrictSubsetOrdering, FiniteSubsetsOf
      <3> QED  BY <2>3, <3>1
    <2>8. CASE V = {}
      <3>1. U = {x} /\ x \in Nat  BY <2>4, <2>5, <2>8
      <3>2. HasMax(U)  BY <3>1
      <3> QED  BY <2>3, <3>2
    <2>9. CASE V # {}
      <3>1. PICK z \in V : \A y \in V : z >= y  BY <2>6, <2>7, <2>9
      <3>2. \A y \in U : y \in V \/ y = x  OBVIOUS
      <3>3. x \in Nat /\ z \in Nat /\ z \in U /\ \A y \in U : y \in Nat  BY <2>4, <2>5, <3>1
      <3>4. CASE x >= z
        <4>1. \A y \in U : x >= y  BY <3>1, <3>2, <3>3, <3>4
        <4> QED  BY <2>3, <2>5, <4>1
      <3>5. CASE z >= x
        <4>1. \A y \in U : z >= y  BY <3>1, <3>2, <3>3, <3>5
        <4> QED  BY <2>3, <3>3, <4>1
      <3> QED  BY <3>3, <3>4, <3>5
    <2> QED  BY <2>8, <2>9
  <1>2. S \in F  BY DEF FiniteSubsetsOf
  <1>3. HasMax(S)  BY <1>1, <1>2
  <1>4. PICK x \in S : \A y \in S : x >= y  BY <1>3
  <1>5. Max(S) \in S /\ \A y \in S : Max(S) >= y  BY <1>4 DEF Max
  <1> QED  BY <1>5

\* The next number of rows
LEMMA NextNumber ==
    ASSUME NEW rows \in Seq(FeedRows)
    PROVE  NextSequenceNo(rows) \in Nat
  <1>1. PICK n \in Nat : DOMAIN rows = 1 .. n  OBVIOUS
  <1> DEFINE seqs == {rows[i].seq : i \in 1 .. n}
             seq == [i \in 1 .. n |-> rows[i].seq]
  <1>2. \A i \in 1 .. n : rows[i].seq \in Nat  BY <1>1, FeedRowsAssumption
  <1>3. IsFiniteSet(seqs)
    <2>1. seq \in Surjection(1 .. n, seqs)  BY DEF Surjection
    <2>2. IsFiniteSet(1 .. n)  BY OneTo
    <2> HIDE DEF seq, seqs
    <2> QED  BY <2>1, <2>2, FS_Surjection
  <1>4. ASSUME NEW T, T = {0} \cup seqs PROVE T \in SUBSET Nat /\ T # {} /\ IsFiniteSet(T)
    <2>1. IsFiniteSet(seqs \cup {0})  BY <1>3, FS_AddElement
    <2>2. T = seqs \cup {0}  BY <1>4
    <2>3. \A x \in seqs : x \in Nat  BY <1>2
    <2> HIDE DEF seqs
    <2> QED  BY <2>1, <2>2, <2>3
  <1>5. PICK T : T = {0} \cup {rows[i].seq : i \in DOMAIN rows}  OBVIOUS
  <1>6. Max(T) \in Nat
    <2>1. T = {0} \cup seqs  BY <1>1, <1>5
    <2>2. T \in SUBSET Nat /\ T # {} /\ IsFiniteSet(T)  BY <1>4, <2>1
    <2> QED  BY <2>2, MaxOf
  <1>7. PICK m \in Nat : m = Max(T)  BY <1>6
  <1>8. (m \div 1000 + 1) * 1000 \in Nat  OBVIOUS
  <1> QED  BY <1>5, <1>7, <1>8 DEF NextSequenceNo, Scale

\* What must hold of the sets of an operation when it begins
LEMMA BeginInv ==
    ASSUME FeedInv, todo = <<>>, todo' \in Seq(Sets), UNCHANGED <<events, index, groups, caches, timelines>>,
           \A r \in events : Homed(r, 0)',
           \A c \in Convs : Due(c)' \/ Rewords' \/ Spared(c)',
           \A k \in DOMAIN todo' :
             /\ Paired(k)'
             /\ (todo[k].set = "events" =>
                    /\ \A n \in todo[k].new : Homed(n, k)
                    /\ \A n \in todo[k].new, c \in Convs :
                         n.id \in Range(index[c].ids) => n.conv = c \/ \E j \in DOMAIN todo : j < k /\ Places(j, c))'
             /\ (todo[k].set = "index" =>
                    /\ k = 1 => \A r \in events : r.id \in Range(todo[k].ids) => r.conv = todo[k].conv
                    /\ \A d \in Convs \ {todo[k].conv} :
                         Range(todo[k].ids) \cap Range(index[d].ids) = {} \/ \E j \in DOMAIN todo : j < k /\ Places(j, d))'
             /\ (todo[k].set = "groups" /\ k = 1 => GroupIds(todo[k].groups) \subseteq Range(index[todo[k].conv].ids))'
    PROVE  FeedInv'
  <1>1. FeedTyped'  BY DEF FeedInv, FeedTyped
  <1>2. Stored'  BY DEF FeedInv, Stored
  <1>3. ASSUME NEW c \in Convs PROVE Fresh(c)'
    <2>1. ~Due(c)
      <3>1. DOMAIN todo = {}  OBVIOUS
      <3> QED  BY <3>1 DEF Due
    <2>2. Fresh(c)  BY <2>1 DEF FeedInv, StoresAgree
    <2>3. \A id : Alike(events, events', id)  BY DEF Alike
    <2>4. groups'[c] = groups[c] /\ index'[c].ids = index[c].ids /\ index'[c].version = index[c].version
          /\ caches'[c] = caches[c] /\ timelines'[c] = timelines[c]
        OBVIOUS
    <2> QED  BY <2>2, <2>3, <2>4, FreshStays DEF FeedInv
  <1>4. StoresAgree'  BY <1>3 DEF StoresAgree
  <1>5. ASSUME NEW k \in DOMAIN todo'
        PROVE  (/\ todo[k].set = "events" => EventsFit(k)
                /\ todo[k].set \in {"index", "clear"} => PlaceFits(k)
                /\ todo[k].set = "index" => IndexFits(k)
                /\ todo[k].set = "groups" => GroupsFit(k))'
      BY PlanOf
  <1>6. Planned'  BY <1>5 DEF Planned
  <1> QED  BY <1>1, <1>2, <1>4, <1>6 DEF FeedInv

\* Three sets that give a conversation new rows, or none: rows, ids, groups
BlockOf(e, x, g, c) ==
    /\ e.set = "events" /\ e.gone = Range(index[c].ids) /\ UniqueIds(e.new) /\ \A n \in e.new : n.conv = c
    /\ x.set \in {"index", "clear"} /\ x.conv = c
    /\ x.set = "clear" => e.new = {} /\ GroupIds(g.groups) = {}
    /\ x.set = "index" => /\ IsInjective(x.ids) /\ GroupIds(g.groups) \subseteq Range(x.ids)
                          /\ \A id \in Range(x.ids) : \E n \in e.new : n.id = id
                          /\ \A n \in e.new : n.id \in Range(x.ids)
    /\ g.set = "groups" /\ g.conv = c

\* Between two operations every stored row is in its conversation, and the groups of a
\* conversation hold ids of it.
LEMMA AtRest ==
    ASSUME FeedInv, todo = <<>>
    PROVE  /\ \A r \in events : r.conv \in Convs /\ r.id \in Range(index[r.conv].ids)
           /\ \A c \in Convs : Fresh(c) /\ GroupIds(groups[c]) \subseteq Range(index[c].ids)
           /\ \A c, d \in Convs : c # d => Range(index[c].ids) \cap Range(index[d].ids) = {}
           /\ \A c \in Convs : index[c].ids \in Seq(Nat) /\ Range(index[c].ids) \in SUBSET Nat
  <1>1. DOMAIN todo = {}  OBVIOUS
  <1>2. \A r \in events : r.id \in Range(index[r.conv].ids)  BY <1>1 DEF FeedInv, Planned, Homed
  <1>3. \A r \in events : r.conv \in Convs  BY FeedRowsAssumption DEF FeedInv, FeedTyped
  <1>4. \A c \in Convs : Fresh(c)  BY <1>1 DEF FeedInv, StoresAgree, Due
  <1>5. \A c \in Convs : GroupIds(groups[c]) \subseteq Range(index[c].ids)  BY <1>4 DEF Fresh
  <1>6. \A c \in Convs : index[c].ids \in Seq(Nat)  BY DEF FeedInv, FeedTyped, Index
  <1>7. \A q \in Seq(Nat) : Range(q) \in SUBSET Nat
    <2> SUFFICES ASSUME NEW q \in Seq(Nat), NEW i \in DOMAIN q PROVE q[i] \in Nat  BY DEF Range
    <2> QED  OBVIOUS
  <1>8. \A c, d \in Convs : c # d => Range(index[c].ids) \cap Range(index[d].ids) = {}  BY DEF FeedInv, Stored
  <1> QED  BY <1>2, <1>3, <1>4, <1>5, <1>6, <1>7, <1>8

\* An operation on one conversation begins.
LEMMA OneBlock ==
    ASSUME FeedInv, todo = <<>>, UNCHANGED <<events, index, groups, caches, timelines>>,
           NEW c \in Convs, NEW e, NEW x, NEW g, BlockOf(e, x, g, c),
           \A n \in e.new, d \in Convs : d # c => n.id \notin Range(index[d].ids),
           NEW N \in {3, 4}, todo' \in Seq(Sets), DOMAIN todo' = 1 .. N,
           todo'[1] = e, todo'[2] = x, todo'[3] = g, N = 4 => todo'[4].set = "live"
    PROVE  FeedInv'
  <1>1. PICK more : more = todo'  OBVIOUS
  <1>2. /\ more[1] = e /\ more[2] = x /\ more[3] = g /\ DOMAIN more = 1 .. N
        /\ 1 \in DOMAIN more /\ 2 \in DOMAIN more /\ 3 \in DOMAIN more
        /\ \A k \in DOMAIN more : k = 1 \/ k = 2 \/ k = 3 \/ (k = 4 /\ more[k].set = "live")
    <2>1. \A k \in 1 .. N : k = 1 \/ k = 2 \/ k = 3 \/ (k = 4 /\ N = 4)  OBVIOUS
    <2> QED  BY <1>1, <2>1
  <1>3. /\ \A r \in events : r.conv \in Convs /\ r.id \in Range(index[r.conv].ids)
        /\ \A d \in Convs : GroupIds(groups[d]) \subseteq Range(index[d].ids)
        /\ \A d \in Convs : d # c => Range(index[c].ids) \cap Range(index[d].ids) = {}
      BY AtRest
  <1>4. e.set = "events" /\ x.set \in {"index", "clear"} /\ x.conv = c /\ g.set = "groups" /\ g.conv = c  BY DEF BlockOf
  <1>5. \A r \in events : Homed(r, 0)'
    <2> SUFFICES ASSUME NEW r \in events PROVE Homed(r, 0)'  OBVIOUS
    <2>1. CASE r.conv = c
      <3>1. r.id \in Touched(e)  BY <1>3, <2>1 DEF Touched, BlockOf
      <3> QED  BY <1>1, <1>2, <1>4, <3>1 DEF Homed
    <2>2. CASE r.conv # c
      <3>1. \A l \in DOMAIN more : ~(more[l].set \in {"index", "clear"} /\ more[l].conv = r.conv)
          BY <1>2, <1>4, <2>2
      <3> QED  BY <1>1, <1>3, <3>1 DEF Homed, Places
    <2> QED  BY <2>1, <2>2
  <1>6. \A d \in Convs : Due(d)' \/ Spared(d)'
    <2> SUFFICES ASSUME NEW d \in Convs PROVE Due(d)' \/ Spared(d)'  OBVIOUS
    <2>1. CASE d = c  BY <1>1, <1>2, <1>4, <2>1 DEF Due
    <2>2. CASE d # c
      <3>1. Touched(e) \cap GroupIds(groups[d]) = {}  BY <1>3, <2>2 DEF Touched, BlockOf
      <3>2. \A k \in DOMAIN more : more[k].set = "events" => Touched(more[k]) \cap GroupIds(groups[d]) = {}
          BY <1>2, <1>4, <3>1
      <3> QED  BY <1>1, <3>2 DEF Spared
    <2> QED  BY <2>1, <2>2
  <1>7. ASSUME NEW k \in DOMAIN more
        PROVE  /\ Paired(k)'
               /\ (todo[k].set = "events" =>
                      /\ \A n \in todo[k].new : Homed(n, k)
                      /\ \A n \in todo[k].new, d \in Convs :
                           n.id \in Range(index[d].ids) => n.conv = d \/ \E j \in DOMAIN todo : j < k /\ Places(j, d))'
               /\ (todo[k].set = "index" =>
                      /\ k = 1 => \A r \in events : r.id \in Range(todo[k].ids) => r.conv = todo[k].conv
                      /\ \A d \in Convs \ {todo[k].conv} :
                           Range(todo[k].ids) \cap Range(index[d].ids) = {} \/ \E j \in DOMAIN todo : j < k /\ Places(j, d))'
               /\ (todo[k].set = "groups" /\ k = 1 => GroupIds(todo[k].groups) \subseteq Range(index[todo[k].conv].ids))'
    <2>1. CASE k = 1
      <3>1. more[k] = e /\ \A j \in DOMAIN more : ~(j < k)  BY <1>2, <2>1
      <3>2. Paired(k)'  BY <1>1, <1>4, <3>1 DEF Paired, BlockOf
      <3>3. ASSUME NEW n \in e.new PROVE Homed(n, k)'
        <4>1. x.set = "index" /\ n.conv = c /\ n.id \in Range(x.ids)  BY <3>3 DEF BlockOf
        <4> QED  BY <1>1, <1>2, <1>4, <2>1, <4>1 DEF Homed
      <3>4. \A n \in e.new, d \in Convs : n.id \in Range(index[d].ids) => n.conv = d  BY DEF BlockOf
      <3> QED  BY <1>1, <1>4, <3>1, <3>2, <3>3, <3>4
    <2>2. CASE k = 2
      <3>1. more[k] = x /\ k - 1 = 1 /\ k > 1 /\ \A j \in DOMAIN more : j < k => j = 1
        <4>1. \A j \in DOMAIN more : j < 2 => j = 1  BY <1>2
        <4> QED  BY <1>2, <2>2, <4>1
      <3>2. PlaceFits(k)'
        <4>1. \E l \in DOMAIN more : l > k /\ more[l].set = "groups" /\ more[l].conv = more[k].conv
            BY <1>2, <1>4, <2>2, <3>1
        <4> QED  BY <1>1, <1>2, <1>4, <3>1, <4>1 DEF PlaceFits, Places
      <3>3. Paired(k)'  BY <1>1, <1>2, <1>4, <3>1, <3>2 DEF Paired, BlockOf
      <3>4. x.set = "index" => \A d \in Convs \ {c} : Range(x.ids) \cap Range(index[d].ids) = {}  BY DEF BlockOf
      <3> QED  BY <1>1, <1>4, <3>1, <3>3, <3>4
    <2>3. CASE k = 3
      <3>1. more[k] = g /\ k - 1 = 2 /\ k > 1  BY <1>2, <2>3
      <3>2. Paired(k)'  BY <1>1, <1>2, <1>4, <3>1 DEF Paired, BlockOf, Places
      <3> QED  BY <1>1, <1>4, <2>3, <3>1, <3>2
    <2>4. CASE k = 4 /\ more[k].set = "live"
      BY <1>1, <2>4 DEF Paired
    <2> QED  BY <1>2, <2>1, <2>2, <2>3, <2>4
  <1> QED  BY <1>1, <1>5, <1>6, <1>7, BeginInv

\* The sets that move a row, whose id is old, from one conversation to another
MovesTo(s, c, d, id) ==
    /\ DOMAIN s = 1 .. 6 /\ BlockOf(s[1], s[2], s[3], c) /\ BlockOf(s[4], s[5], s[6], d)
    /\ s[2].set = "index" /\ s[5].set = "index"
    /\ \A n \in s[1].new : n.id \in Range(index[c].ids) /\ n.id # id
    /\ \A n \in s[4].new : n.id \in Range(index[d].ids) \/ n.id = id

\* An operation that moves a row begins.
LEMMA TwoBlocks ==
    ASSUME FeedInv, todo = <<>>, UNCHANGED <<events, index, groups, caches, timelines>>,
           NEW c \in Convs, NEW d \in Convs, c # d, NEW id, id \in Range(index[c].ids),
           NEW s \in Seq(Sets), todo' = s, MovesTo(s, c, d, id)
    PROVE  FeedInv'
  <1>0. PICK e, x, g, f, y, h :
            /\ BlockOf(e, x, g, c) /\ BlockOf(f, y, h, d) /\ x.set = "index" /\ y.set = "index"
            /\ \A n \in e.new : n.id \in Range(index[c].ids) /\ n.id # id
            /\ \A n \in f.new : n.id \in Range(index[d].ids) \/ n.id = id
            /\ todo' \in Seq(Sets) /\ DOMAIN todo' = 1 .. 6
            /\ todo'[1] = e /\ todo'[2] = x /\ todo'[3] = g /\ todo'[4] = f /\ todo'[5] = y /\ todo'[6] = h
      BY DEF MovesTo
  <1> USE <1>0
  <1>1. PICK more : more = todo'  OBVIOUS
  <1>2. /\ more[1] = e /\ more[2] = x /\ more[3] = g /\ more[4] = f /\ more[5] = y /\ more[6] = h
        /\ 1 \in DOMAIN more /\ 2 \in DOMAIN more /\ 3 \in DOMAIN more
        /\ 4 \in DOMAIN more /\ 5 \in DOMAIN more /\ 6 \in DOMAIN more
        /\ \A k \in DOMAIN more : k = 1 \/ k = 2 \/ k = 3 \/ k = 4 \/ k = 5 \/ k = 6
    <2>1. \A k \in 1 .. 6 : k = 1 \/ k = 2 \/ k = 3 \/ k = 4 \/ k = 5 \/ k = 6  OBVIOUS
    <2> QED  BY <1>1, <2>1
  <1>3. /\ \A r \in events : r.conv \in Convs /\ r.id \in Range(index[r.conv].ids)
        /\ \A b \in Convs : GroupIds(groups[b]) \subseteq Range(index[b].ids)
        /\ \A a, b \in Convs : a # b => Range(index[a].ids) \cap Range(index[b].ids) = {}
      BY AtRest
  <1>4. /\ e.set = "events" /\ x.conv = c /\ g.set = "groups" /\ g.conv = c
        /\ f.set = "events" /\ y.conv = d /\ h.set = "groups" /\ h.conv = d
      BY DEF BlockOf
  <1>5. /\ \A b \in Convs : b # c => \A n \in e.new : n.id \notin Range(index[b].ids)
        /\ \A b \in Convs : b # d => \A n \in f.new : n.id \in Range(index[b].ids) => b = c
        /\ \A i \in Range(x.ids) : i \in Range(index[c].ids) /\ i # id
        /\ \A i \in Range(y.ids) : i \in Range(index[d].ids) \/ i = id
        /\ \A i \in Touched(e) : i \in Range(index[c].ids)
        /\ \A i \in Touched(f) : i \in Range(index[d].ids) \/ i \in Range(index[c].ids)
    <2>1. \A b \in Convs : b # c => \A n \in e.new : n.id \notin Range(index[b].ids)  BY <1>3
    <2>2. \A b \in Convs : b # d => \A n \in f.new : n.id \in Range(index[b].ids) => b = c
      <3> SUFFICES ASSUME NEW b \in Convs, b # d, b # c, NEW n \in f.new, n.id \in Range(index[b].ids) PROVE FALSE  OBVIOUS
      <3>1. Range(index[b].ids) \cap Range(index[d].ids) = {} /\ Range(index[b].ids) \cap Range(index[c].ids) = {}
          BY <1>3
      <3> QED  BY <3>1
    <2>3. \A i \in Range(x.ids) : i \in Range(index[c].ids) /\ i # id  BY DEF BlockOf
    <2>4. \A i \in Range(y.ids) : i \in Range(index[d].ids) \/ i = id  BY DEF BlockOf
    <2>5. \A i \in Touched(e) : i \in Range(index[c].ids)  BY DEF BlockOf, Touched
    <2>6. \A i \in Touched(f) : i \in Range(index[d].ids) \/ i \in Range(index[c].ids)  BY DEF BlockOf, Touched
    <2> QED  BY <2>1, <2>2, <2>3, <2>4, <2>5, <2>6
  <1>6. \A r \in events : Homed(r, 0)'
    <2> SUFFICES ASSUME NEW r \in events PROVE Homed(r, 0)'  OBVIOUS
    <2>1. CASE r.conv = c
      <3>1. r.id \in Touched(e)  BY <1>3, <2>1 DEF Touched, BlockOf
      <3> QED  BY <1>1, <1>2, <1>4, <3>1 DEF Homed
    <2>2. CASE r.conv = d
      <3>1. r.id \in Touched(f)  BY <1>3, <2>2 DEF Touched, BlockOf
      <3> QED  BY <1>1, <1>2, <1>4, <3>1 DEF Homed
    <2>3. CASE r.conv # c /\ r.conv # d
      <3>1. \A l \in DOMAIN more : ~(more[l].set \in {"index", "clear"} /\ more[l].conv = r.conv)
          BY <1>2, <1>4, <2>3
      <3> QED  BY <1>1, <1>3, <3>1 DEF Homed, Places
    <2> QED  BY <2>1, <2>2, <2>3
  <1>7. \A b \in Convs : Due(b)' \/ Spared(b)'
    <2> SUFFICES ASSUME NEW b \in Convs PROVE Due(b)' \/ Spared(b)'  OBVIOUS
    <2>1. CASE b = c  BY <1>1, <1>2, <1>4, <2>1 DEF Due
    <2>2. CASE b = d  BY <1>1, <1>2, <1>4, <2>2 DEF Due
    <2>3. CASE b # c /\ b # d
      <3>0. /\ Range(index[b].ids) \cap Range(index[c].ids) = {} /\ Range(index[b].ids) \cap Range(index[d].ids) = {}
            /\ GroupIds(groups[b]) \subseteq Range(index[b].ids)
          BY <1>3, <2>3
      <3>1. Touched(e) \cap GroupIds(groups[b]) = {}  BY <1>5, <3>0
      <3>2. Touched(f) \cap GroupIds(groups[b]) = {}  BY <1>5, <3>0
      <3>3. \A k \in DOMAIN more : more[k].set = "events" => Touched(more[k]) \cap GroupIds(groups[b]) = {}
          BY <1>2, <1>4, <3>1, <3>2
      <3> QED  BY <1>1, <3>3 DEF Spared
    <2> QED  BY <2>1, <2>2, <2>3
  <1>8. ASSUME NEW k \in DOMAIN more
        PROVE  /\ Paired(k)'
               /\ (todo[k].set = "events" =>
                      /\ \A n \in todo[k].new : Homed(n, k)
                      /\ \A n \in todo[k].new, b \in Convs :
                           n.id \in Range(index[b].ids) => n.conv = b \/ \E j \in DOMAIN todo : j < k /\ Places(j, b))'
               /\ (todo[k].set = "index" =>
                      /\ k = 1 => \A r \in events : r.id \in Range(todo[k].ids) => r.conv = todo[k].conv
                      /\ \A b \in Convs \ {todo[k].conv} :
                           Range(todo[k].ids) \cap Range(index[b].ids) = {} \/ \E j \in DOMAIN todo : j < k /\ Places(j, b))'
               /\ (todo[k].set = "groups" /\ k = 1 => GroupIds(todo[k].groups) \subseteq Range(index[todo[k].conv].ids))'
    <2>1. CASE k = 1
      <3>1. more[k] = e /\ \A j \in DOMAIN more : ~(j < k)  BY <1>2, <2>1
      <3>2. Paired(k)'  BY <1>1, <1>4, <3>1 DEF Paired, BlockOf
      <3>3. ASSUME NEW n \in e.new PROVE Homed(n, k)'
        <4>1. n.conv = c /\ n.id \in Range(x.ids)  BY <3>3 DEF BlockOf
        <4> QED  BY <1>1, <1>2, <1>4, <2>1, <4>1 DEF Homed
      <3>4. \A n \in e.new, b \in Convs : n.id \in Range(index[b].ids) => n.conv = b  BY <1>5 DEF BlockOf
      <3> QED  BY <1>1, <1>4, <3>1, <3>2, <3>3, <3>4
    <2>2. CASE k = 2
      <3>1. more[k] = x /\ k - 1 = 1 /\ k > 1 /\ \A j \in DOMAIN more : j < k => j = 1
        <4>1. \A j \in DOMAIN more : j < 2 => j = 1  BY <1>2
        <4> QED  BY <1>2, <2>2, <4>1
      <3>2. PlaceFits(k)'
        <4>1. \E l \in DOMAIN more : l > k /\ more[l].set = "groups" /\ more[l].conv = more[k].conv
            BY <1>2, <1>4, <2>2, <3>1
        <4> QED  BY <1>1, <1>2, <1>4, <3>1, <4>1 DEF PlaceFits, Places
      <3>3. Paired(k)'  BY <1>1, <1>2, <1>4, <3>1, <3>2 DEF Paired, BlockOf
      <3>4. \A b \in Convs \ {c} : Range(x.ids) \cap Range(index[b].ids) = {}  BY <1>3, <1>5
      <3> QED  BY <1>1, <1>4, <3>1, <3>3, <3>4
    <2>3. CASE k = 3
      <3>1. more[k] = g /\ k - 1 = 2 /\ k > 1  BY <1>2, <2>3
      <3>2. Paired(k)'  BY <1>1, <1>2, <1>4, <3>1 DEF Paired, BlockOf, Places
      <3> QED  BY <1>1, <1>4, <2>3, <3>1, <3>2
    <2>4. CASE k = 4
      <3>1. more[k] = f /\ \A j \in DOMAIN more : j < k => j = 1 \/ j = 2 \/ j = 3
        <4>1. \A j \in DOMAIN more : j < 4 => j = 1 \/ j = 2 \/ j = 3  BY <1>2
        <4> QED  BY <1>2, <2>4, <4>1
      <3>2. Paired(k)'
        <4>1. \A n \in f.new : n.id \notin Range(x.ids)  BY <1>3, <1>5
        <4>2. Touched(f) \cap GroupIds(g.groups) = {}
          <5>1. GroupIds(g.groups) \subseteq Range(x.ids)  BY DEF BlockOf
          <5>2. \A i \in f.gone : i \notin Range(x.ids)  BY <1>3, <1>5 DEF BlockOf
          <5> QED  BY <4>1, <5>1, <5>2 DEF Touched
        <4>3. \A j \in DOMAIN more : j < k /\ more[j].set = "index" =>
                \A n \in f.new : n.id \in Range(more[j].ids) => n.conv = more[j].conv
            BY <1>2, <1>4, <3>1, <4>1
        <4>4. \A j \in DOMAIN more : j < k /\ more[j].set = "groups" => Touched(f) \cap GroupIds(more[j].groups) = {}
            BY <1>2, <1>4, <3>1, <4>2
        <4>5. UniqueIds(f.new)  BY DEF BlockOf
        <4> QED  BY <1>1, <1>4, <3>1, <4>3, <4>4, <4>5 DEF Paired
      <3>3. ASSUME NEW n \in f.new PROVE Homed(n, k)'
        <4>1. n.conv = d /\ n.id \in Range(y.ids)  BY <3>3 DEF BlockOf
        <4> QED  BY <1>1, <1>2, <1>4, <2>4, <4>1 DEF Homed
      <3>4. \E j \in DOMAIN more : j < k /\ Places(j, c)'  BY <1>1, <1>2, <1>4, <2>4 DEF Places
      <3>5. \A n \in f.new, b \in Convs : n.id \in Range(index[b].ids) => n.conv = b \/ b = c
        <4>1. \A n \in f.new : n.conv = d  BY DEF BlockOf
        <4> QED  BY <1>5, <4>1
      <3> QED  BY <1>1, <1>4, <3>1, <3>2, <3>3, <3>4, <3>5
    <2>5. CASE k = 5
      <3>1. more[k] = y /\ k - 1 = 4 /\ k > 1 /\ \A j \in DOMAIN more : j < k => j = 1 \/ j = 2 \/ j = 3 \/ j = 4
        <4>1. \A j \in DOMAIN more : j < 5 => j = 1 \/ j = 2 \/ j = 3 \/ j = 4  BY <1>2
        <4> QED  BY <1>2, <2>5, <4>1
      <3>2. PlaceFits(k)'
        <4>1. \E l \in DOMAIN more : l > k /\ more[l].set = "groups" /\ more[l].conv = more[k].conv
            BY <1>2, <1>4, <2>5, <3>1
        <4>2. \A j \in DOMAIN more : j < k => ~(more[j].set \in {"index", "clear"} /\ more[j].conv = more[k].conv)
            BY <1>2, <1>4, <3>1
        <4> QED  BY <1>1, <4>1, <4>2 DEF PlaceFits, Places
      <3>3. Paired(k)'
        <4>1. Range(x.ids) \cap Range(y.ids) = {}  BY <1>3, <1>5
        <4>2. \A j \in DOMAIN more : j < k /\ more[j].set = "index" => Range(more[j].ids) \cap Range(y.ids) = {}
            BY <1>2, <1>4, <3>1, <4>1
        <4>3. /\ IsInjective(y.ids) /\ \A n \in f.new : n.conv = d
              /\ \A i \in Range(y.ids) : \E n \in f.new : n.id = i
            BY DEF BlockOf
        <4> QED  BY <1>1, <1>2, <1>4, <3>1, <3>2, <4>2, <4>3 DEF Paired
      <3>4. \E j \in DOMAIN more : j < k /\ Places(j, c)'  BY <1>1, <1>2, <1>4, <2>5 DEF Places
      <3>5. \A b \in Convs \ {d} : Range(y.ids) \cap Range(index[b].ids) = {} \/ b = c
        <4> SUFFICES ASSUME NEW b \in Convs, b # d, b # c PROVE Range(y.ids) \cap Range(index[b].ids) = {}  OBVIOUS
        <4>1. Range(index[b].ids) \cap Range(index[d].ids) = {} /\ Range(index[b].ids) \cap Range(index[c].ids) = {}
            BY <1>3
        <4> QED  BY <1>5, <4>1
      <3> QED  BY <1>1, <1>4, <3>1, <3>3, <3>4, <3>5
    <2>6. CASE k = 6
      <3>1. more[k] = h /\ k - 1 = 5 /\ k > 1  BY <1>2, <2>6
      <3>2. GroupIds(h.groups) \subseteq Range(y.ids)  BY DEF BlockOf
      <3>3. Paired(k)'  BY <1>1, <1>2, <1>4, <3>1, <3>2 DEF Paired, Places
      <3> QED  BY <1>1, <1>4, <2>6, <3>1, <3>3
    <2> QED  BY <1>2, <2>1, <2>2, <2>3, <2>4, <2>5, <2>6
  <1> QED  BY <1>1, <1>6, <1>7, <1>8, BeginInv

\* An operation that changes what rows say begins.
LEMMA Rewording ==
    ASSUME FeedInv, todo = <<>>, UNCHANGED <<events, index, groups, caches, timelines>>,
           NEW new \in SUBSET FeedRows, UniqueIds(new), todo' = <<EventSet({}, new)>>,
           \A n \in new : \E r \in events : r.id = n.id /\ ~EventAffectsStructure(r, n)
    PROVE  FeedInv'
  <1>1. PICK s \in EventSets : s.set = "events" /\ s.gone = {} /\ s.new = new /\ todo' = <<s>>
      BY DEF EventSet, EventSets
  <1>2. PICK more : more = todo'  OBVIOUS
  <1>3. more \in Seq(Sets) /\ Len(more) = 1 /\ DOMAIN more = {1} /\ more[1] = s  BY <1>1, <1>2 DEF Sets
  <1>4. /\ \A r \in events : r.conv \in Convs /\ r.id \in Range(index[r.conv].ids)
        /\ \A a, b \in Convs : a # b => Range(index[a].ids) \cap Range(index[b].ids) = {}
      BY AtRest
  <1>5. \A k \in DOMAIN more : \A c : ~Places(k, c)'  BY <1>1, <1>2, <1>3 DEF Places
  <1>6. \A r : r.id \in Range(index[r.conv].ids) => \A k : Homed(r, k)'  BY <1>2, <1>5 DEF Homed
  <1>7. Rewords'  BY <1>1, <1>2, <1>3 DEF Rewords
  <1>8. \A n \in new, c \in Convs : n.id \in Range(index[n.conv].ids) /\ (n.id \in Range(index[c].ids) => n.conv = c)
    <2> SUFFICES ASSUME NEW n \in new, NEW c \in Convs
                 PROVE  n.id \in Range(index[n.conv].ids) /\ (n.id \in Range(index[c].ids) => n.conv = c)
        OBVIOUS
    <2>1. PICK r \in events : r.id = n.id /\ r.conv = n.conv  BY DEF EventAffectsStructure
    <2> QED  BY <1>4, <2>1
  <1>9. ASSUME NEW k \in DOMAIN more
        PROVE  /\ Paired(k)'
               /\ (todo[k].set = "events" =>
                      /\ \A n \in todo[k].new : Homed(n, k)
                      /\ \A n \in todo[k].new, b \in Convs :
                           n.id \in Range(index[b].ids) => n.conv = b \/ \E j \in DOMAIN todo : j < k /\ Places(j, b))'
               /\ (todo[k].set = "index" =>
                      /\ k = 1 => \A r \in events : r.id \in Range(todo[k].ids) => r.conv = todo[k].conv
                      /\ \A b \in Convs \ {todo[k].conv} :
                           Range(todo[k].ids) \cap Range(index[b].ids) = {} \/ \E j \in DOMAIN todo : j < k /\ Places(j, b))'
               /\ (todo[k].set = "groups" /\ k = 1 => GroupIds(todo[k].groups) \subseteq Range(index[todo[k].conv].ids))'
    <2>1. more[k] = s /\ \A j \in DOMAIN more : ~(j < k)  BY <1>3
    <2>2. Paired(k)'  BY <1>1, <1>2, <2>1 DEF Paired
    <2>3. \A n \in new : n.conv \in Convs  BY FeedRowsAssumption
    <2>4. \A n \in new : Homed(n, k)'  BY <1>6, <1>8, <2>3
    <2> QED  BY <1>1, <1>2, <1>8, <2>1, <2>2, <2>4
  <1>10. \A r \in events : Homed(r, 0)'  BY <1>4, <1>6
  <1> QED  BY <1>2, <1>3, <1>7, <1>9, <1>10, BeginInv

\* filter keeps the elements of a list apart.
LEMMA OnlyApart ==
    ASSUME NEW S, NEW list \in Seq(S), NEW set
    PROVE  \A k, l \in DOMAIN Only(list, set) : k # l =>
             \E i, j \in DOMAIN list : i # j /\ Only(list, set)[k] = list[i] /\ Only(list, set)[l] = list[j]
  <1>1. PICK only \in Seq(S) : only = Only(list, set)  BY OnlyOrder
  <1>2. \A k, l \in DOMAIN only : k < l => \E i, j \in DOMAIN list : i < j /\ only[k] = list[i] /\ only[l] = list[j]
      BY <1>1, OnlyOrder
  <1>3. \A i, j \in DOMAIN list : i < j => i # j
    <2>1. \A i \in DOMAIN list : i \in 1 .. Len(list)  OBVIOUS
    <2> QED  BY <2>1
  <1>4. \A k, l \in DOMAIN only : k # l => k < l \/ l < k
    <2>1. \A k \in DOMAIN only : k \in 1 .. Len(only)  OBVIOUS
    <2>2. \A k, l \in 1 .. Len(only) : k # l => k < l \/ l < k  OBVIOUS
    <2> QED  BY <2>1, <2>2
  <1>5. \A k, l \in DOMAIN only : k < l => \E i, j \in DOMAIN list : i # j /\ only[k] = list[i] /\ only[l] = list[j]
      BY <1>2, <1>3
  <1>6. ASSUME NEW k \in DOMAIN only, NEW l \in DOMAIN only, k # l
        PROVE  \E i, j \in DOMAIN list : i # j /\ only[k] = list[i] /\ only[l] = list[j]
    <2>1. CASE k < l  BY <1>5, <2>1
    <2>2. CASE l < k
      <3>1. PICK i, j \in DOMAIN list : i # j /\ only[l] = list[i] /\ only[k] = list[j]  BY <1>5, <2>2
      <3> QED  BY <3>1
    <2> QED  BY <1>4, <1>6, <2>1, <2>2
  <1> QED  BY <1>1, <1>6

\* The ids of stored rows are ids of the list.
LEMMA MaterializeIds ==
    ASSUME NEW ids \in Seq(Nat), NEW held \in SUBSET FeedRows
    PROVE  /\ IdSeq(Materialize(ids, held)) = Only(ids, {r.id : r \in held})
           /\ IsInjective(ids) => IsInjective(IdSeq(Materialize(ids, held)))
  <1> DEFINE found == Only(ids, {r.id : r \in held})
  <1>1. found \in Seq(Nat) /\ Range(found) = Range(ids) \cap {r.id : r \in held}  BY OnlyOrder
  <1>2. Materialize(ids, held) = [i \in DOMAIN found |-> CHOOSE r \in held : r.id = found[i]]  BY DEF Materialize
  <1>3. IsInjective(ids) => IsInjective(found)
    <2> SUFFICES ASSUME IsInjective(ids) PROVE \A k, l \in DOMAIN found : k # l => found[k] # found[l]  BY DEF IsInjective
    <2>1. \A i, j \in DOMAIN ids : i # j => ids[i] # ids[j]  BY DEF IsInjective
    <2>2. \A k, l \in DOMAIN found : k # l => \E i, j \in DOMAIN ids : i # j /\ found[k] = ids[i] /\ found[l] = ids[j]
      <3>1. PICK some : some = {r.id : r \in held}  OBVIOUS
      <3>2. \A k, l \in DOMAIN Only(ids, some) : k # l =>
              \E i, j \in DOMAIN ids : i # j /\ Only(ids, some)[k] = ids[i] /\ Only(ids, some)[l] = ids[j]
          BY OnlyApart
      <3>3. found = Only(ids, some)  BY <3>1
      <3> HIDE DEF found
      <3> QED  BY <3>2, <3>3
    <2> HIDE DEF found
    <2> QED  BY <2>1, <2>2
  <1> HIDE DEF found
  <1>4. \A i \in DOMAIN found : \E r \in held : r.id = found[i]  BY <1>1 DEF Range
  <1>5. PICK n \in Nat : DOMAIN found = 1 .. n  BY <1>1
  <1>6. \A i \in DOMAIN found : (CHOOSE r \in held : r.id = found[i]).id = found[i]  BY <1>4
  <1>7. IdSeq(Materialize(ids, held)) = [i \in DOMAIN found |-> found[i]]  BY <1>2, <1>6 DEF IdSeq
  <1>8. IdSeq(Materialize(ids, held)) = found  BY <1>1, <1>7
  <1> QED  BY <1>3, <1>8 DEF found

\* A row takes its place after the others.
LEMMA RowsWith ==
    ASSUME NEW rows \in Seq(FeedRows), IsInjective(IdSeq(rows)), NEW r \in FeedRows
    PROVE  /\ Without(rows, r.id) \in Seq(FeedRows) /\ IsInjective(IdSeq(Without(rows, r.id)))
           /\ Append(Without(rows, r.id), r) \in Seq(FeedRows)
           /\ IsInjective(IdSeq(Append(Without(rows, r.id), r)))
           /\ Range(Append(Without(rows, r.id), r)) = {q \in Range(rows) : q.id # r.id} \cup {r}
           /\ Range(Without(rows, r.id)) = {q \in Range(rows) : q.id # r.id}
  <1>1. PICK rest \in Seq(FeedRows) : rest = Without(rows, r.id) /\ Range(rest) = {q \in Range(rows) : q.id # r.id}
      BY WithoutRows
  <1>2. \A k, l \in DOMAIN rest : k # l => rest[k].id # rest[l].id
    <2>1. \A i, j \in DOMAIN rows : i # j => rows[i].id # rows[j].id  BY DEF IsInjective, IdSeq
    <2>2. rest = Only(rows, {q \in ToSet(rows) : q.id # r.id})  BY <1>1 DEF Without
    <2>3. \A k, l \in DOMAIN rest : k # l => \E i, j \in DOMAIN rows : i # j /\ rest[k] = rows[i] /\ rest[l] = rows[j]
      <3>1. PICK some : some = {q \in ToSet(rows) : q.id # r.id}  OBVIOUS
      <3>2. \A k, l \in DOMAIN Only(rows, some) : k # l =>
              \E i, j \in DOMAIN rows : i # j /\ Only(rows, some)[k] = rows[i] /\ Only(rows, some)[l] = rows[j]
          BY OnlyApart
      <3>3. rest = Only(rows, some)  BY <2>2, <3>1
      <3> QED  BY <3>2, <3>3
    <2> QED  BY <2>1, <2>3
  <1>3. IsInjective(IdSeq(rest))  BY <1>2 DEF IsInjective, IdSeq
  <1>4. PICK n \in Nat : n = Len(rest) /\ DOMAIN rest = 1 .. n  OBVIOUS
  <1>5. PICK more \in Seq(FeedRows) : more = Append(rest, r)
    <2>1. Append(rest, r) \in Seq(FeedRows)  OBVIOUS
    <2> QED  BY <2>1
  <1>6. DOMAIN more = 1 .. n + 1 /\ more[n + 1] = r /\ \A i \in 1 .. n : more[i] = rest[i]  BY <1>4, <1>5
  <1>7. \A i \in 1 .. n + 1 : i \in 1 .. n \/ i = n + 1  OBVIOUS
  <1>8. \A i \in 1 .. n : rest[i].id # r.id /\ rest[i] \in Range(rest)  BY <1>1, <1>4 DEF Range
  <1>9. IsInjective(IdSeq(more))
    <2> SUFFICES ASSUME NEW i \in 1 .. n + 1, NEW j \in 1 .. n + 1, more[i].id = more[j].id PROVE i = j
        BY <1>6 DEF IsInjective, IdSeq
    <2>1. CASE i \in 1 .. n /\ j \in 1 .. n  BY <1>2, <1>4, <1>6, <2>1
    <2>2. CASE i = n + 1 /\ j \in 1 .. n  BY <1>6, <1>8, <2>2
    <2>3. CASE j = n + 1 /\ i \in 1 .. n  BY <1>6, <1>8, <2>3
    <2> QED  BY <1>7, <2>1, <2>2, <2>3
  <1>10. Range(more) = Range(rest) \cup {r}
    <2>1. Range(more) = {more[i] : i \in 1 .. n + 1} /\ Range(rest) = {rest[i] : i \in 1 .. n}
        BY <1>4, <1>6 DEF Range
    <2>2. n + 1 \in 1 .. n + 1 /\ \A i \in 1 .. n : i \in 1 .. n + 1  OBVIOUS
    <2> QED  BY <1>6, <1>7, <2>1, <2>2
  <1> QED  BY <1>1, <1>3, <1>5, <1>9, <1>10

\* The rows of a conversation between two operations
LEMMA RowsAtRest ==
    ASSUME FeedInv, NEW c \in Convs
    PROVE  /\ RowsOf(c) \in Seq(FeedRows) /\ IsInjective(IdSeq(RowsOf(c)))
           /\ \A r \in Range(RowsOf(c)) : r \in events /\ r.id \in Range(index[c].ids) /\ r.conv = c
  <1>1. /\ index[c].ids \in Seq(Nat) /\ IsInjective(index[c].ids) /\ events \in SUBSET FeedRows
        /\ \A r \in events : r.id \in Range(index[c].ids) => r.conv = c
      BY DEF FeedInv, FeedTyped, Index, Stored
  <1>2. /\ Materialize(index[c].ids, events) \in Seq(FeedRows)
        /\ \A r \in Range(Materialize(index[c].ids, events)) : r \in events /\ r.id \in Range(index[c].ids)
        /\ IsInjective(IdSeq(Materialize(index[c].ids, events)))
      BY <1>1, MaterializeRows, MaterializeIds
  <1> QED  BY <1>1, <1>2 DEF RowsOf

\* The sets of replaceConversationEvents
LEMMA ReplaceForm ==
    ASSUME FeedInv, NEW c \in Convs, NEW rows \in Seq(FeedRows), IsInjective(IdSeq(rows)), \A r \in Range(rows) : r.conv = c
    PROVE  \E e \in Sets, x \in Sets, g \in Sets :
             /\ ReplaceSets(c, rows) = <<e, x, g>> /\ BlockOf(e, x, g, c) /\ x.set = "index" /\ e.new = Range(rows)
  <1>1. PICK sorted \in Seq(FeedRows) : sorted = SortRows(rows) /\ Range(sorted) = Range(rows) /\ IsInjective(IdSeq(sorted))
      BY SortKeeps
  <1>2. PICK gs \in Seq(Seq(Nat)) : gs = BuildActivityGroups(rows) /\ GroupIds(gs) \subseteq Range(IdSeq(sorted))
      BY <1>1, GroupsOfRows
  <1>3. PICK ids \in Seq(Nat) : ids = IdSeq(sorted) /\ \A id : id \in Range(ids) <=> \E r \in Range(rows) : r.id = id
      BY <1>1, IdsOfRows
  <1>4. PICK next \in Nat : next = NextSequenceNo(sorted)  BY NextNumber
  <1>5. UniqueIds(Range(rows)) /\ Range(rows) \in SUBSET FeedRows /\ ToSet(rows) = Range(rows)
      BY IdsOfRows DEF ToSet, Range
  <1>6. PICK gone \in SUBSET Nat : gone = Range(index[c].ids)
    <2>1. index[c].ids \in Seq(Nat)  BY DEF FeedInv, FeedTyped, Index
    <2>2. \A q \in Seq(Nat) : Range(q) \in SUBSET Nat
      <3> SUFFICES ASSUME NEW q \in Seq(Nat), NEW i \in DOMAIN q PROVE q[i] \in Nat  BY DEF Range
      <3> QED  OBVIOUS
    <2> QED  BY <2>1, <2>2
  <1>7. PICK e \in Sets : e = [set |-> "events", gone |-> gone, new |-> Range(rows)]  BY <1>5 DEF Sets, EventSets
  <1>8. PICK x \in Sets : x = [set |-> "index", conv |-> c, ids |-> ids, next |-> next]  BY DEF Sets, IndexSets
  <1>9. PICK g \in Sets : g = [set |-> "groups", conv |-> c, groups |-> gs]  BY DEF Sets, GroupSets
  <1>10. ReplaceSets(c, rows) = <<e, x, g>>
      BY <1>1, <1>2, <1>3, <1>4, <1>5, <1>6, <1>7, <1>8, <1>9 DEF ReplaceSets, EventSet, IndexSet, GroupSet
  <1>11. BlockOf(e, x, g, c)
    <2>1. e.set = "events" /\ e.gone = Range(index[c].ids) /\ e.new = Range(rows)  BY <1>6, <1>7
    <2>2. x.set = "index" /\ x.conv = c /\ x.ids = ids  BY <1>8
    <2>3. g.set = "groups" /\ g.conv = c /\ g.groups = gs  BY <1>9
    <2>4. \A id \in Range(ids) : \E n \in e.new : n.id = id  BY <1>3, <2>1
    <2>5. \A n \in e.new : n.id \in Range(ids)  BY <1>3, <2>1
    <2>6. IsInjective(ids) /\ GroupIds(gs) \subseteq Range(ids)  BY <1>1, <1>2, <1>3
    <2>7. UniqueIds(e.new) /\ \A n \in e.new : n.conv = c  BY <1>5, <2>1
    <2> QED  BY <2>1, <2>2, <2>3, <2>4, <2>5, <2>6, <2>7 DEF BlockOf
  <1>12. e.new = Range(rows) /\ x.set = "index"  BY <1>7, <1>8
  <1> QED  BY <1>10, <1>11, <1>12

\* replaceConversationEvents begins, also before the live state is reset.
LEMMA ReplaceBegins ==
    ASSUME FeedInv, NEW c \in Convs, NEW rows \in Seq(FeedRows), IsInjective(IdSeq(rows)), \A r \in Range(rows) : r.conv = c,
           \A r \in Range(rows), d \in Convs : d # c => r.id \notin Range(index[d].ids),
           Begins(ReplaceSets(c, rows)) \/ Begins(Append(ReplaceSets(c, rows), LiveSet(c, "default")))
    PROVE  FeedInv'
  <1>1. PICK e \in Sets, x \in Sets, g \in Sets :
             ReplaceSets(c, rows) = <<e, x, g>> /\ BlockOf(e, x, g, c) /\ x.set = "index" /\ e.new = Range(rows)
      BY ReplaceForm
  <1>2. PICK live \in Sets : live = LiveSet(c, "default") /\ live.set = "live"
    <2>1. [set |-> "live", conv |-> c, live |-> "default"] \in Sets  BY DEF Sets, LiveSets
    <2> QED  BY <2>1 DEF LiveSet
  <1>3. todo = <<>> /\ UNCHANGED <<events, index, groups, caches, timelines>>  BY DEF Begins
  <1>4. \A n \in e.new, d \in Convs : d # c => n.id \notin Range(index[d].ids)  BY <1>1
  <1>5. CASE Begins(ReplaceSets(c, rows))
    <2>1. todo' = <<e, x, g>>  BY <1>1, <1>5 DEF Begins
    <2>2. PICK N \in {3, 4} : N = 3  OBVIOUS
    <2>3. /\ todo' \in Seq(Sets) /\ DOMAIN todo' = 1 .. N /\ todo'[1] = e /\ todo'[2] = x /\ todo'[3] = g
          /\ N = 4 => todo'[4].set = "live"
        BY <2>1, <2>2
    <2> QED  BY <1>1, <1>3, <1>4, <2>3, OneBlock
  <1>6. CASE Begins(Append(ReplaceSets(c, rows), LiveSet(c, "default")))
    <2>1. todo' = Append(<<e, x, g>>, live)  BY <1>1, <1>2, <1>6 DEF Begins
    <2>2. PICK N \in {3, 4} : N = 4  OBVIOUS
    <2>3. /\ todo' \in Seq(Sets) /\ DOMAIN todo' = 1 .. N /\ todo'[1] = e /\ todo'[2] = x /\ todo'[3] = g
          /\ todo'[4] = live
        BY <2>1, <2>2
    <2> QED  BY <1>1, <1>2, <1>3, <1>4, <2>3, OneBlock
  <1> QED  BY <1>5, <1>6

\* A batch of a conversation is a sequence of its rows.
LEMMA BatchRows ==
    ASSUME NEW c \in Convs, NEW rows \in Batches(c)
    PROVE  rows \in Seq(FeedRows) /\ \A r \in Range(rows) : r.conv = c
  <1>1. CASE rows = <<>>  BY <1>1 DEF Range
  <1>2. CASE \E p, r \in FeedRows : p.conv = c /\ r.conv = c /\ rows = <<p, r>>
    <2>1. PICK p, r \in FeedRows : p.conv = c /\ r.conv = c /\ rows = <<p, r>>  BY <1>2
    <2>2. rows \in Seq(FeedRows)  BY <2>1
    <2>3. \A i \in DOMAIN rows : rows[i] = p \/ rows[i] = r
      <3>1. DOMAIN rows = 1 .. 2  BY <2>1
      <3>2. \A i \in 1 .. 2 : i = 1 \/ i = 2  OBVIOUS
      <3> QED  BY <2>1, <3>1, <3>2
    <2> QED  BY <2>1, <2>2, <2>3 DEF Range
  <1> QED  BY <1>1, <1>2 DEF Batches

\* Rows that name none of another conversation
LEMMA NotForeign ==
    ASSUME NEW c \in Convs, NEW rows \in Seq(FeedRows), Range(IdSeq(rows)) \cap Foreign(c) = {}
    PROVE  \A r \in Range(rows), d \in Convs : d # c => r.id \notin Range(index[d].ids)
  <1>1. \A r \in Range(rows) : r.id \in Range(IdSeq(rows))  BY IdsOfRows
  <1> QED  BY <1>1 DEF Foreign

\* Rows of a history replace those of a conversation.
LEMMA ReplaceKeeps == ASSUME FeedInv, ReplaceConversation PROVE FeedInv'
  <1>0. PICK c \in Convs : \E rows \in Batches(c) :
            IsInjective(IdSeq(rows)) /\ Range(IdSeq(rows)) \cap Foreign(c) = {} /\ Begins(ReplaceSets(c, rows))
      BY DEF ReplaceConversation
  <1>1. PICK rows \in Batches(c) :
            IsInjective(IdSeq(rows)) /\ Range(IdSeq(rows)) \cap Foreign(c) = {} /\ Begins(ReplaceSets(c, rows))
      BY <1>0
  <1>2. rows \in Seq(FeedRows) /\ \A r \in Range(rows) : r.conv = c  BY BatchRows
  <1>3. \A r \in Range(rows), d \in Convs : d # c => r.id \notin Range(index[d].ids)  BY <1>1, <1>2, NotForeign
  <1> QED  BY <1>1, <1>2, <1>3, ReplaceBegins

\* They do, and the live state is reset.
LEMMA HydrateKeeps == ASSUME FeedInv, HydrateConversation PROVE FeedInv'
  <1>0. PICK c \in Convs : \E rows \in Batches(c) :
            /\ IsInjective(IdSeq(rows)) /\ Range(IdSeq(rows)) \cap Foreign(c) = {}
            /\ Begins(Append(ReplaceSets(c, rows), LiveSet(c, "default")))
      BY DEF HydrateConversation
  <1>1. PICK rows \in Batches(c) :
            /\ IsInjective(IdSeq(rows)) /\ Range(IdSeq(rows)) \cap Foreign(c) = {}
            /\ Begins(Append(ReplaceSets(c, rows), LiveSet(c, "default")))
      BY <1>0
  <1>2. rows \in Seq(FeedRows) /\ \A r \in Range(rows) : r.conv = c  BY BatchRows
  <1>3. \A r \in Range(rows), d \in Convs : d # c => r.id \notin Range(index[d].ids)  BY <1>1, <1>2, NotForeign
  <1> QED  BY <1>1, <1>2, <1>3, ReplaceBegins

\* A row is added, or takes the place of the one with its id.
LEMMA InsertBegins ==
    ASSUME FeedInv, todo = <<>>, NEW r \in FeedRows, \A d \in Convs : d # r.conv => r.id \notin Range(index[d].ids),
           Begins(ReplaceSets(r.conv, Append(Without(RowsOf(r.conv), r.id), r)))
    PROVE  FeedInv'
  <1>1. PICK c \in Convs : c = r.conv  BY FeedRowsAssumption
  <1>2. /\ RowsOf(c) \in Seq(FeedRows) /\ IsInjective(IdSeq(RowsOf(c)))
        /\ \A q \in Range(RowsOf(c)) : q.id \in Range(index[c].ids) /\ q.conv = c
      BY RowsAtRest
  <1>3. PICK rows \in Seq(FeedRows) :
            /\ rows = Append(Without(RowsOf(c), r.id), r) /\ IsInjective(IdSeq(rows))
            /\ Range(rows) = {q \in Range(RowsOf(c)) : q.id # r.id} \cup {r}
    <2>1. /\ Append(Without(RowsOf(c), r.id), r) \in Seq(FeedRows)
          /\ IsInjective(IdSeq(Append(Without(RowsOf(c), r.id), r)))
          /\ Range(Append(Without(RowsOf(c), r.id), r)) = {q \in Range(RowsOf(c)) : q.id # r.id} \cup {r}
        BY <1>2, RowsWith
    <2> QED  BY <2>1
  <1>4. \A q \in Range(rows) : q.conv = c  BY <1>1, <1>2, <1>3
  <1>5. \A d \in Convs : d # c => Range(index[c].ids) \cap Range(index[d].ids) = {}  BY AtRest
  <1>6. \A q \in Range(rows), d \in Convs : d # c => q.id \notin Range(index[d].ids)  BY <1>1, <1>2, <1>3, <1>5
  <1>7. Begins(ReplaceSets(c, rows))  BY <1>1, <1>3
  <1> QED  BY <1>3, <1>4, <1>6, <1>7, ReplaceBegins

\* A row that no other conversation has is added or replaced.
LEMMA UpsertKeeps == ASSUME FeedInv, UpsertConversation PROVE FeedInv'
  <1>1. PICK r \in FeedRows :
            r.id \notin Foreign(r.conv) /\ Begins(ReplaceSets(r.conv, Append(Without(RowsOf(r.conv), r.id), r)))
      BY DEF UpsertConversation
  <1>2. todo = <<>>  BY <1>1 DEF Begins
  <1>3. \A d \in Convs : d # r.conv => r.id \notin Range(index[d].ids)  BY <1>1 DEF Foreign
  <1> QED  BY <1>1, <1>2, <1>3, InsertBegins

\* A row moves to another conversation.
LEMMA MoveBegins ==
    ASSUME FeedInv, todo = <<>>, NEW was \in events, NEW next \in FeedRows, next.id = was.id, next.conv # was.conv,
           Begins(ReplaceSets(was.conv, Without(RowsOf(was.conv), next.id))
                  \o ReplaceSets(next.conv, Append(Without(RowsOf(next.conv), next.id), next)))
    PROVE  FeedInv'
  <1>1. PICK c \in Convs : c = was.conv /\ was.id \in Range(index[c].ids)  BY AtRest
  <1>2. PICK d \in Convs : d = next.conv /\ c # d  BY <1>1, FeedRowsAssumption
  <1>3. /\ RowsOf(c) \in Seq(FeedRows) /\ IsInjective(IdSeq(RowsOf(c)))
        /\ \A q \in Range(RowsOf(c)) : q.id \in Range(index[c].ids) /\ q.conv = c
      BY RowsAtRest
  <1>4. /\ RowsOf(d) \in Seq(FeedRows) /\ IsInjective(IdSeq(RowsOf(d)))
        /\ \A q \in Range(RowsOf(d)) : q.id \in Range(index[d].ids) /\ q.conv = d
      BY RowsAtRest
  <1>5. PICK rest \in Seq(FeedRows) :
            /\ rest = Without(RowsOf(c), next.id) /\ IsInjective(IdSeq(rest))
            /\ Range(rest) = {q \in Range(RowsOf(c)) : q.id # next.id}
      BY <1>3, RowsWith
  <1>6. PICK rows \in Seq(FeedRows) :
            /\ rows = Append(Without(RowsOf(d), next.id), next) /\ IsInjective(IdSeq(rows))
            /\ Range(rows) = {q \in Range(RowsOf(d)) : q.id # next.id} \cup {next}
    <2>1. /\ Append(Without(RowsOf(d), next.id), next) \in Seq(FeedRows)
          /\ IsInjective(IdSeq(Append(Without(RowsOf(d), next.id), next)))
          /\ Range(Append(Without(RowsOf(d), next.id), next)) = {q \in Range(RowsOf(d)) : q.id # next.id} \cup {next}
        BY <1>4, RowsWith
    <2> QED  BY <2>1
  <1>7. PICK e \in Sets, x \in Sets, g \in Sets :
             ReplaceSets(c, rest) = <<e, x, g>> /\ BlockOf(e, x, g, c) /\ x.set = "index" /\ e.new = Range(rest)
    <2>1. \A q \in Range(rest) : q.conv = c  BY <1>3, <1>5
    <2> QED  BY <1>5, <2>1, ReplaceForm
  <1>8. PICK f \in Sets, y \in Sets, h \in Sets :
             ReplaceSets(d, rows) = <<f, y, h>> /\ BlockOf(f, y, h, d) /\ y.set = "index" /\ f.new = Range(rows)
    <2>1. \A q \in Range(rows) : q.conv = d  BY <1>2, <1>4, <1>6
    <2> QED  BY <1>6, <2>1, ReplaceForm
  <1>9. PICK id : id = next.id /\ id \in Range(index[c].ids)  BY <1>1
  <1>10. \A n \in e.new : n.id \in Range(index[c].ids) /\ n.id # id  BY <1>3, <1>5, <1>7, <1>9
  <1>11. \A n \in f.new : n.id \in Range(index[d].ids) \/ n.id = id  BY <1>4, <1>6, <1>8, <1>9
  <1>12. todo' = <<e, x, g>> \o <<f, y, h>> /\ UNCHANGED <<events, index, groups, caches, timelines>>
      BY <1>1, <1>2, <1>5, <1>6, <1>7, <1>8 DEF Begins
  <1>13. PICK s \in Seq(Sets) :
             /\ todo' = s /\ DOMAIN s = 1 .. 6
             /\ s[1] = e /\ s[2] = x /\ s[3] = g /\ s[4] = f /\ s[5] = y /\ s[6] = h
    <2>1. PICK s : s = <<e, x, g>> \o <<f, y, h>>  OBVIOUS
    <2>2. s \in Seq(Sets) /\ DOMAIN s = 1 .. 6  BY <2>1
    <2>3. s[1] = e /\ s[2] = x /\ s[3] = g /\ s[4] = f /\ s[5] = y /\ s[6] = h  BY <2>1
    <2>4. todo' = s  BY <1>12, <2>1
    <2> QED  BY <2>2, <2>3, <2>4
  <1>14. MovesTo(s, c, d, id)  BY <1>7, <1>8, <1>10, <1>11, <1>13 DEF MovesTo
  <1>15. id \in Range(index[c].ids) /\ c # d /\ todo' = s  BY <1>2, <1>9, <1>13
  <1> QED  BY <1>12, <1>14, <1>15, TwoBlocks

\* A row changes: what it says, its place, or its conversation.
LEMMA UpdateKeeps == ASSUME FeedInv, UpdateConversationEvent PROVE FeedInv'
  <1> DEFINE Moved(next) == Append(Without(RowsOf(next.conv), next.id), next)
  <1>1. PICK was \in events, next \in FeedRows :
            /\ next.id = was.id
            /\ Begins(IF ~EventAffectsStructure(was, next) THEN <<EventSet({}, {next})>>
                      ELSE IF next.conv = was.conv THEN ReplaceSets(next.conv, Moved(next))
                      ELSE ReplaceSets(was.conv, Without(RowsOf(was.conv), next.id)) \o ReplaceSets(next.conv, Moved(next)))
      BY DEF UpdateConversationEvent
  <1>2. todo = <<>> /\ UNCHANGED <<events, index, groups, caches, timelines>>  BY <1>1 DEF Begins
  <1>3. was.conv \in Convs /\ was.id \in Range(index[was.conv].ids)
        /\ \A d \in Convs : d # was.conv => Range(index[was.conv].ids) \cap Range(index[d].ids) = {}
      BY <1>2, AtRest
  <1>4. CASE ~EventAffectsStructure(was, next)
    <2>1. PICK new \in SUBSET FeedRows : new = {next}  OBVIOUS
    <2>2. todo' = <<EventSet({}, new)>> /\ UniqueIds(new)  BY <1>1, <1>4, <2>1 DEF Begins, UniqueIds
    <2>3. \A n \in new : \E r \in events : r.id = n.id /\ ~EventAffectsStructure(r, n)  BY <1>1, <1>4, <2>1
    <2> QED  BY <1>2, <2>2, <2>3, Rewording
  <1>5. CASE EventAffectsStructure(was, next) /\ next.conv = was.conv
    <2>1. Begins(ReplaceSets(next.conv, Append(Without(RowsOf(next.conv), next.id), next)))  BY <1>1, <1>5
    <2>2. \A d \in Convs : d # next.conv => next.id \notin Range(index[d].ids)  BY <1>1, <1>3, <1>5
    <2> QED  BY <1>2, <2>1, <2>2, InsertBegins
  <1>6. CASE EventAffectsStructure(was, next) /\ next.conv # was.conv
    <2>1. Begins(ReplaceSets(was.conv, Without(RowsOf(was.conv), next.id))
                 \o ReplaceSets(next.conv, Append(Without(RowsOf(next.conv), next.id), next)))
        BY <1>1, <1>6
    <2> QED  BY <1>1, <1>2, <1>6, <2>1, MoveBegins
  <1> QED  BY <1>4, <1>5, <1>6

\* Rows of waiting approvals change what they say.
LEMMA SyncKeeps == ASSUME FeedInv, SyncPendingApprovals PROVE FeedInv'
  <1>1. PICK c \in Convs, waiting \in SUBSET FeedRows :
            /\ \A w \in waiting : \E r \in ToSet(RowsOf(c)) : w.id = r.id /\ ~EventAffectsStructure(r, w)
            /\ UniqueIds(waiting) /\ Begins(<<EventSet({}, waiting)>>)
      BY DEF SyncPendingApprovals, UniqueIds
  <1>2. \A r \in ToSet(RowsOf(c)) : r \in events
    <2>1. ToSet(RowsOf(c)) = Range(RowsOf(c))  BY DEF ToSet, Range
    <2> QED  BY <2>1, RowsAtRest
  <1>3. todo = <<>> /\ todo' = <<EventSet({}, waiting)>> /\ UNCHANGED <<events, index, groups, caches, timelines>>
      BY <1>1 DEF Begins
  <1>4. \A n \in waiting : \E r \in events : r.id = n.id /\ ~EventAffectsStructure(r, n)  BY <1>1, <1>2
  <1> QED  BY <1>1, <1>3, <1>4, Rewording

\* Everything of a conversation goes.
LEMMA ClearKeeps == ASSUME FeedInv, ClearConversationPipeline PROVE FeedInv'
  <1>1. PICK c \in Convs : Begins(<<EventSet(Range(index[c].ids), {}), ClearIndex(c), GroupSet(c, <<>>)>>)
      BY DEF ClearConversationPipeline
  <1>2. todo = <<>> /\ UNCHANGED <<events, index, groups, caches, timelines>>  BY <1>1 DEF Begins
  <1>3. PICK gone \in SUBSET Nat : gone = Range(index[c].ids)  BY <1>2, AtRest
  <1>4. PICK e \in Sets : e = [set |-> "events", gone |-> gone, new |-> {}]  BY DEF Sets, EventSets
  <1>5. PICK x \in Sets : x = [set |-> "clear", conv |-> c, ids |-> <<>>, next |-> Scale, live |-> "default"]
      BY DEF Sets, ClearSets
  <1>6. PICK g \in Sets : g = [set |-> "groups", conv |-> c, groups |-> <<>>]
    <2>1. <<>> \in Seq(Seq(Nat))  OBVIOUS
    <2> QED  BY <2>1 DEF Sets, GroupSets
  <1>7. todo' = <<e, x, g>>  BY <1>1, <1>3, <1>4, <1>5, <1>6 DEF Begins, EventSet, ClearIndex, EmptyIndex, GroupSet
  <1>8. BlockOf(e, x, g, c) /\ e.new = {}
    <2>1. GroupIds(<<>>) = {}  BY DEF GroupIds
    <2> QED  BY <1>3, <1>4, <1>5, <1>6, <2>1 DEF BlockOf, UniqueIds
  <1>9. PICK N \in {3, 4} : N = 3  OBVIOUS
  <1>10. todo' \in Seq(Sets) /\ DOMAIN todo' = 1 .. N /\ todo'[1] = e /\ todo'[2] = x /\ todo'[3] = g
      BY <1>7, <1>9
  <1>11. N = 4 => todo'[4].set = "live"  BY <1>9
  <1>12. \A n \in e.new, d \in Convs : d # c => n.id \notin Range(index[d].ids)  BY <1>8
  <1> QED  BY <1>2, <1>8, <1>10, <1>11, <1>12, OneBlock

\* The ids and versions of the conversations stay, and so does what the plan says of them.
LEMMA SameIds ==
    ASSUME FeedInv, todo = <<>>, UNCHANGED <<events, groups, caches, timelines, todo>>, index' \in [Convs -> Index],
           \A c \in Convs : index'[c].ids = index[c].ids /\ index'[c].version = index[c].version
    PROVE  FeedInv'
  <1>1. FeedTyped'  BY DEF FeedInv, FeedTyped
  <1>2. Stored'  BY DEF FeedInv, Stored
  <1>3. ASSUME NEW c \in Convs PROVE Fresh(c)' /\ Spared(c)'
    <2>1. Fresh(c)  BY AtRest
    <2>2. \A id : Alike(events, events', id)  BY DEF Alike
    <2>3. groups'[c] = groups[c] /\ index'[c].ids = index[c].ids /\ index'[c].version = index[c].version
          /\ caches'[c] = caches[c] /\ timelines'[c] = timelines[c]
        OBVIOUS
    <2>4. Fresh(c)'  BY <2>1, <2>2, <2>3, FreshStays DEF FeedInv
    <2>5. DOMAIN todo' = {}  OBVIOUS
    <2> QED  BY <2>4, <2>5 DEF Spared
  <1>4. StoresAgree'  BY <1>3 DEF StoresAgree
  <1>5. Planned'
    <2>1. DOMAIN todo' = {}  OBVIOUS
    <2>2. \A r \in events' : r.id \in Range(index'[r.conv].ids)  BY AtRest
    <2>3. \A r \in events' : Homed(r, 0)'  BY <2>1, <2>2 DEF Homed
    <2> QED  BY <2>1, <2>3 DEF Planned
  <1> QED  BY <1>1, <1>2, <1>4, <1>5 DEF FeedInv

\* The larger of two numbers
LEMMA LargerOf == ASSUME NEW a \in Nat, NEW b \in Nat PROVE Max({a, b}) \in Nat
  <1>1. PICK S \in SUBSET Nat : S = {a, b}  OBVIOUS
  <1>2. IsFiniteSet({a, b})
    <2>1. IsFiniteSet({a})  BY FS_Singleton
    <2>2. IsFiniteSet({a} \cup {b})  BY <2>1, FS_AddElement
    <2>3. {a} \cup {b} = {a, b}  OBVIOUS
    <2> QED  BY <2>2, <2>3
  <1>3. Max(S) \in S  BY <1>1, <1>2, MaxOf
  <1> QED  BY <1>1, <1>3

\* The next number of a conversation is taken, or one given is passed.
LEMMA ReserveKeeps == ASSUME FeedInv, ReserveSequence PROVE FeedInv'
  <1>1. PICK c \in Convs, requested \in {0} \cup {r.seq : r \in FeedRows} :
            index' = [index EXCEPT ![c].next = IF requested = 0 THEN @ + Scale
                                               ELSE Max({@, (requested \div Scale + 1) * Scale})]
      BY DEF ReserveSequence
  <1>2. requested \in Nat  BY FeedRowsAssumption
  <1>3. index \in [Convs -> Index] /\ index[c].next \in Nat  BY DEF FeedInv, FeedTyped, Index
  <1>4. (requested \div Scale + 1) * Scale \in Nat /\ index[c].next + Scale \in Nat
    <2>1. Scale = 1000  BY DEF Scale
    <2>2. (requested \div 1000 + 1) * 1000 \in Nat  BY <1>2
    <2>3. index[c].next + 1000 \in Nat  BY <1>3
    <2> QED  BY <2>1, <2>2, <2>3
  <1>5. PICK next \in Nat : next = IF requested = 0 THEN index[c].next + Scale
                                   ELSE Max({index[c].next, (requested \div Scale + 1) * Scale})
    <2>1. Max({index[c].next, (requested \div Scale + 1) * Scale}) \in Nat  BY <1>3, <1>4, LargerOf
    <2> QED  BY <1>4, <2>1
  <1>6. index' = [index EXCEPT ![c].next = next]  BY <1>1, <1>5
  <1>7. index' \in [Convs -> Index]  BY <1>3, <1>6 DEF Index
  <1>8. \A d \in Convs : index'[d].ids = index[d].ids /\ index'[d].version = index[d].version  BY <1>3, <1>6 DEF Index
  <1>9. todo = <<>> /\ UNCHANGED <<events, groups, caches, timelines, todo>>  BY DEF ReserveSequence
  <1> QED  BY <1>7, <1>8, <1>9, SameIds

\* The live state of a conversation changes.
LEMMA LiveKeeps == ASSUME FeedInv, UpdateLive PROVE FeedInv'
  <1>1. PICK c \in Convs, live \in {"default", "draft"} : index' = [index EXCEPT ![c].live = live]  BY DEF UpdateLive
  <1>2. index \in [Convs -> Index]  BY DEF FeedInv, FeedTyped
  <1>3. index' \in [Convs -> Index]  BY <1>1, <1>2 DEF Index
  <1>4. \A d \in Convs : index'[d].ids = index[d].ids /\ index'[d].version = index[d].version  BY <1>1, <1>2 DEF Index
  <1>5. todo = <<>> /\ UNCHANGED <<events, groups, caches, timelines, todo>>  BY DEF UpdateLive
  <1> QED  BY <1>3, <1>4, <1>5, SameIds

\* A view reads, and what it read is kept.
LEMMA ReadKeeps == ASSUME FeedInv, ReadViews PROVE FeedInv'
  <1>1. PICK c \in Convs :
            /\ caches' = [caches EXCEPT ![c] =
                   IF \E e \in @ : e.version = index[c].version /\ e.hide = TRUE THEN @ ELSE @ \cup {Computed(c, TRUE)}]
            /\ timelines' = [timelines EXCEPT ![c] = IF @ = <<>> THEN <<FlattenSeq(groups[c])>> ELSE @]
      BY DEF ReadViews
  <1>2. UNCHANGED <<events, index, groups, todo>>  BY DEF ReadViews
  <1>3. caches = [d \in Convs |-> caches[d]] /\ timelines = [d \in Convs |-> timelines[d]]  BY DEF FeedInv, FeedTyped
  <1>4. PICK read : read = [d \in Convs |-> IF d = c THEN IF timelines[c] = <<>> THEN <<FlattenSeq(groups[c])>> ELSE timelines[c]
                                            ELSE timelines[d]]
      OBVIOUS
  <1>5. PICK some : some = IF \E e \in caches[c] : e.version = index[c].version /\ e.hide = TRUE THEN caches[c]
                           ELSE caches[c] \cup {Computed(c, TRUE)}
      OBVIOUS
  <1>6. caches' = [caches EXCEPT ![c] = some] /\ timelines' = read  BY <1>1, <1>3, <1>4, <1>5
  <1>7. /\ \A d \in Convs : d # c => caches'[d] = caches[d] /\ timelines'[d] = timelines[d]
        /\ \A e \in caches'[c] : e \in caches[c] \/ e = Computed(c, TRUE)
        /\ timelines'[c] = timelines[c] \/ timelines'[c] = <<FlattenSeq(groups[c])>>
        /\ caches' = [d \in Convs |-> caches'[d]] /\ timelines' = [d \in Convs |-> timelines'[d]]
    <2>1. caches' = [d \in Convs |-> IF d = c THEN some ELSE caches[d]]  BY <1>3, <1>6
    <2>2. timelines' = [d \in Convs |-> IF d = c THEN timelines'[c] ELSE timelines[d]]
          /\ (timelines'[c] = timelines[c] \/ timelines'[c] = <<FlattenSeq(groups[c])>>)
        BY <1>4, <1>6
    <2>3. caches'[c] = some /\ \A e \in some : e \in caches[c] \/ e = Computed(c, TRUE)  BY <1>5, <2>1
    <2> QED  BY <2>1, <2>2, <2>3
  <1>8. FeedTyped'  BY <1>2, <1>7 DEF FeedInv, FeedTyped
  <1>9. Stored'  BY <1>2 DEF FeedInv, Stored
  <1>10. \A d \in Convs : Due(d)' <=> Due(d)  BY <1>2 DEF Due
  <1>11. \A d \in Convs : \A hide : Computed(d, hide)' = Computed(d, hide)  BY <1>2 DEF Computed
  <1>12. Computed(c, TRUE).hide = TRUE  BY DEF Computed
  <1>13. ASSUME NEW d \in Convs, Fresh(d) PROVE Fresh(d)'
    <2>1. GroupIds(groups'[d]) \subseteq Range(index'[d].ids)  BY <1>2, <1>13 DEF Fresh
    <2>2. \A e \in caches'[d] : e = Computed(d, e.hide)
      <3>1. \A e \in caches[d] : e = Computed(d, e.hide)  BY <1>13 DEF Fresh
      <3>2. CASE d = c  BY <1>7, <1>12, <3>1, <3>2
      <3>3. CASE d # c  BY <1>7, <3>1, <3>3
      <3> QED  BY <3>2, <3>3
    <2>3. timelines'[d] # <<>> => timelines'[d][1] = FlattenSeq(groups[d])
      <3>1. timelines[d] # <<>> => timelines[d][1] = FlattenSeq(groups[d])  BY <1>13 DEF Fresh
      <3> QED  BY <1>7, <3>1
    <2> QED  BY <1>2, <1>11, <2>1, <2>2, <2>3 DEF Fresh
  <1>14. Rewords' <=> Rewords  BY <1>2 DEF Rewords
  <1>15. \A d \in Convs : Spared(d)' <=> Spared(d)  BY <1>2 DEF Spared
  <1>16. StoresAgree'  BY <1>10, <1>13, <1>14, <1>15 DEF FeedInv, StoresAgree
  <1>17. Planned'
    <2>1. \A r, k : Homed(r, k)' <=> Homed(r, k)  BY <1>2 DEF Homed, Places
    <2>2. \A k : EventsFit(k)' <=> EventsFit(k)  BY <1>2, <2>1 DEF EventsFit, Places
    <2>3. \A k : PlaceFits(k)' <=> PlaceFits(k)  BY <1>2 DEF PlaceFits, Places
    <2>4. \A k : IndexFits(k)' <=> IndexFits(k)  BY <1>2 DEF IndexFits, Places
    <2>5. \A k : GroupsFit(k)' <=> GroupsFit(k)  BY <1>2 DEF GroupsFit, Places
    <2> QED  BY <1>2, <2>1, <2>2, <2>3, <2>4, <2>5 DEF FeedInv, Planned
  <1> QED  BY <1>8, <1>9, <1>16, <1>17 DEF FeedInv

\* The next set is made.
LEMMA SetKeeps == ASSUME FeedInv, NextSet PROVE FeedInv'
  <1>1. todo # <<>> /\ todo' = Tail(todo) /\ Head(todo) = todo[1]
    <2>1. todo # <<>> /\ todo' = Tail(todo)  BY DEF NextSet
    <2> QED  BY <2>1, Shift DEF FeedInv, FeedTyped
  <1>2. CASE todo[1].set = "events" /\ events' = SetEvents(events, todo[1]) /\ UNCHANGED <<index, groups, caches, timelines>>
      BY <1>1, <1>2, NextEvents
  <1>3. CASE todo[1].set = "groups" /\ SetGroups(todo[1]) /\ UNCHANGED <<events, index>>
      BY <1>1, <1>3, NextGroups
  <1>4. CASE /\ todo[1].set \in {"index", "live", "clear"} /\ index' = SetIndex(index, todo[1])
             /\ UNCHANGED <<events, groups, caches, timelines>>
      BY <1>1, <1>4, NextIndex
  <1> QED  BY <1>1, <1>2, <1>3, <1>4 DEF NextSet

\* The empty stores agree.
LEMMA FeedInitInv == FeedInit => FeedInv
  <1> SUFFICES ASSUME FeedInit PROVE FeedInv  OBVIOUS
  <1>1. DOMAIN todo = {} /\ DOMAIN (<<>>) = {} /\ Range(<<>>) = {} /\ GroupIds(<<>>) = {}
      BY DEF FeedInit, Range, GroupIds
  <1>2. EmptyIndex \in Index
    <2>1. <<>> \in Seq(Nat) /\ 1000 \in Nat /\ 0 \in Nat  OBVIOUS
    <2> QED  BY <2>1 DEF EmptyIndex, Index, Scale
  <1>3. FeedTyped
    <2>1. <<>> \in Seq(Seq(Nat)) /\ <<>> \in Seq(Sets)  OBVIOUS
    <2> QED  BY <1>2, <2>1 DEF FeedInit, FeedTyped
  <1>4. Stored
    <2>1. IsInjective(<<>>)  BY DEF IsInjective
    <2> QED  BY <1>1, <2>1 DEF FeedInit, Stored, UniqueIds, EmptyIndex
  <1>5. StoresAgree
    <2>1. \A c \in Convs : Fresh(c)  BY <1>1 DEF FeedInit, Fresh, EmptyIndex
    <2> QED  BY <1>1, <2>1 DEF StoresAgree, Spared
  <1>6. Planned  BY <1>1 DEF FeedInit, Planned
  <1> QED  BY <1>3, <1>4, <1>5, <1>6 DEF FeedInv

\* A step that changes nothing keeps the invariant.
LEMMA FeedStutters == ASSUME FeedInv, UNCHANGED feedVars PROVE FeedInv'
  <1>0. UNCHANGED <<events, index, groups, caches, timelines, todo>>  BY DEF feedVars
  <1>1. FeedTyped' <=> FeedTyped  BY <1>0 DEF FeedTyped
  <1>2. Stored' <=> Stored  BY <1>0 DEF Stored
  <1>3. StoresAgree' <=> StoresAgree  BY <1>0 DEF StoresAgree, Fresh, Computed, Rewords, Spared, Due
  <1>4. Planned' <=> Planned
    <2>1. \A r, k : Homed(r, k)' <=> Homed(r, k)  BY <1>0 DEF Homed, Places
    <2>2. \A k : EventsFit(k)' <=> EventsFit(k)  BY <1>0, <2>1 DEF EventsFit, Places
    <2>3. \A k : PlaceFits(k)' <=> PlaceFits(k)  BY <1>0 DEF PlaceFits, Places
    <2>4. \A k : IndexFits(k)' <=> IndexFits(k)  BY <1>0 DEF IndexFits, Places
    <2>5. \A k : GroupsFit(k)' <=> GroupsFit(k)  BY <1>0 DEF GroupsFit, Places
    <2> QED  BY <1>0, <2>1, <2>2, <2>3, <2>4, <2>5 DEF Planned
  <1> QED  BY <1>1, <1>2, <1>3, <1>4 DEF FeedInv

\* Every step of the stores keeps it,
LEMMA FeedNextInv == FeedInv /\ [FeedNext]_feedVars => FeedInv'
  <1> SUFFICES ASSUME FeedInv, [FeedNext]_feedVars PROVE FeedInv'  OBVIOUS
  <1>1. CASE ReplaceConversation  BY <1>1, ReplaceKeeps
  <1>2. CASE HydrateConversation  BY <1>2, HydrateKeeps
  <1>3. CASE UpsertConversation  BY <1>3, UpsertKeeps
  <1>4. CASE UpdateConversationEvent  BY <1>4, UpdateKeeps
  <1>5. CASE SyncPendingApprovals  BY <1>5, SyncKeeps
  <1>6. CASE ClearConversationPipeline  BY <1>6, ClearKeeps
  <1>7. CASE ReserveSequence  BY <1>7, ReserveKeeps
  <1>8. CASE UpdateLive  BY <1>8, LiveKeeps
  <1>9. CASE NextSet  BY <1>9, SetKeeps
  <1>10. CASE ReadViews  BY <1>10, ReadKeeps
  <1>11. CASE UNCHANGED feedVars  BY <1>11, FeedStutters
  <1> QED  BY <1>1, <1>2, <1>3, <1>4, <1>5, <1>6, <1>7, <1>8, <1>9, <1>10, <1>11 DEF FeedNext

\* so it holds of every reachable state.
LEMMA FeedInvariance == FeedInit /\ [][FeedNext]_feedVars => []FeedInv
  <1> QED  BY FeedInitInv, FeedNextInv, PTL

\* When no operation is under way, what is cached for a conversation is what would be
\* computed from the stores: whichever reads fall between the sets of an operation.
THEOREM CachesStayFresh == FeedInit /\ [][FeedNext]_feedVars => []CachesFresh
  <1>1. FeedInv => CachesFresh
    <2> SUFFICES ASSUME FeedInv, todo = <<>> PROVE \A c \in Convs :
                        /\ \A e \in caches[c] : e.version = index[c].version => e = Computed(c, e.hide)
                        /\ timelines[c] # <<>> => timelines[c][1] = FlattenSeq(groups[c])
        BY DEF CachesFresh
    <2>1. \A c \in Convs : Fresh(c)  BY AtRest
    <2> QED  BY <2>1 DEF Fresh
  <1> QED  BY <1>1, FeedInvariance, PTL

-----------------------------------------------------------------------------
(* What the sets still to make leave. *)

\* A list keeps all its elements when all belong to the set.
LEMMA OnlyAll ==
    ASSUME NEW S, NEW list \in Seq(S), NEW set, Range(list) \subseteq set
    PROVE  Only(list, set) = list
  <1>1. PICK n \in Nat : n = Len(list) /\ DOMAIN list = 1 .. n  OBVIOUS
  <1>2. {i \in DOMAIN list : list[i] \in set} = 1 .. n  BY <1>1 DEF Range
  <1>3. Cardinality(1 .. n) = n  BY OneTo
  <1>4. \A k \in 1 .. n : Cardinality({j \in 1 .. n : j <= k}) = k
    <2>1. \A k \in 1 .. n : {j \in 1 .. n : j <= k} = 1 .. k /\ k \in Nat  OBVIOUS
    <2> QED  BY <2>1, OneTo
  <1>5. \A k \in 1 .. n : (CHOOSE i \in 1 .. n : Cardinality({j \in 1 .. n : j <= i}) = k) = k
    <2> SUFFICES ASSUME NEW k \in 1 .. n PROVE (CHOOSE i \in 1 .. n : Cardinality({j \in 1 .. n : j <= i}) = k) = k  OBVIOUS
    <2>1. k \in 1 .. n /\ Cardinality({j \in 1 .. n : j <= k}) = k  BY <1>4
    <2>2. \A i \in 1 .. n : Cardinality({j \in 1 .. n : j <= i}) = k => i = k  BY <1>4
    <2> QED  BY <2>1, <2>2
  <1> DEFINE Form(kept) == [k \in 1 .. Cardinality(kept) |-> list[CHOOSE i \in kept : Cardinality({j \in kept : j <= i}) = k]]
  <1>6. Only(list, set) = [k \in 1 .. n |-> list[CHOOSE i \in 1 .. n : Cardinality({j \in 1 .. n : j <= i}) = k]]
    <2>1. Only(list, set) = Form({i \in DOMAIN list : list[i] \in set})  BY DEF Only
    <2>2. Only(list, set) = Form(1 .. n)
      <3> HIDE DEF Form
      <3> QED  BY <1>2, <2>1
    <2> QED  BY <1>3, <2>2
  <1>7. Only(list, set) = [k \in 1 .. n |-> list[k]]  BY <1>5, <1>6
  <1> QED  BY <1>1, <1>7

\* The ids of stored rows give these rows back.
LEMMA MaterializeAll ==
    ASSUME NEW rows \in Seq(FeedRows), IsInjective(IdSeq(rows)), NEW held \in SUBSET FeedRows, Range(rows) \subseteq held,
           \A r \in held : r.id \in Range(IdSeq(rows)) => r \in Range(rows)
    PROVE  Materialize(IdSeq(rows), held) = rows
  <1>1. PICK n \in Nat : n = Len(rows) /\ DOMAIN rows = 1 .. n  OBVIOUS
  <1>2. PICK ids \in Seq(Nat) : ids = IdSeq(rows) /\ DOMAIN ids = 1 .. n /\ \A i \in 1 .. n : ids[i] = rows[i].id
      BY <1>1, IdsOfRows DEF IdSeq
  <1>3. Range(ids) \subseteq {r.id : r \in held}  BY <1>2, IdsOfRows
  <1>4. Only(ids, {r.id : r \in held}) = ids
    <2>1. PICK set : set = {r.id : r \in held}  OBVIOUS
    <2> QED  BY <1>3, <2>1, OnlyAll
  <1>5. ASSUME NEW i \in 1 .. n PROVE (CHOOSE r \in held : r.id = ids[i]) = rows[i]
    <2>1. rows[i] \in held /\ rows[i].id = ids[i] /\ ids[i] \in Range(ids)  BY <1>1, <1>2 DEF Range
    <2>2. \A r \in held : r.id = ids[i] => r = rows[i]
      <3>1. UniqueIds(Range(rows))  BY IdsOfRows
      <3>2. rows[i] \in Range(rows)  BY <1>1 DEF Range
      <3> QED  BY <1>2, <2>1, <3>1, <3>2 DEF UniqueIds
    <2> QED  BY <2>1, <2>2
  <1> DEFINE Form(found) == [i \in DOMAIN found |-> CHOOSE r \in held : r.id = found[i]]
  <1>6. Materialize(ids, held) = [i \in 1 .. n |-> CHOOSE r \in held : r.id = ids[i]]
    <2>1. Materialize(ids, held) = Form(Only(ids, {r.id : r \in held}))  BY DEF Materialize
    <2>2. Materialize(ids, held) = Form(ids)  BY <1>4, <2>1
    <2> QED  BY <1>2, <2>2
  <1>7. Materialize(ids, held) = [i \in 1 .. n |-> rows[i]]  BY <1>5, <1>6
  <1> QED  BY <1>1, <1>2, <1>7

\* What is stored besides the rows with these ids makes no difference.
LEMMA MaterializeSame ==
    ASSUME NEW ids \in Seq(Nat), NEW held \in SUBSET FeedRows, UniqueIds(held), NEW more \in SUBSET FeedRows,
           \A r \in held : r.id \in Range(ids) => r \in more, \A r \in more : r.id \in Range(ids) => r \in held
    PROVE  Materialize(ids, more) = Materialize(ids, held)
  <1>1. PICK set : set = {r.id : r \in held}  OBVIOUS
  <1>2. PICK other : other = {r.id : r \in more}  OBVIOUS
  <1>3. Range(ids) \cap set = Range(ids) \cap other  BY <1>1, <1>2
  <1>4. Only(ids, set) = Only(ids, other)  BY <1>3, OnlySame
  <1>5. PICK found \in Seq(Nat) : found = Only(ids, set) /\ Range(found) = Range(ids) \cap set  BY OnlyOrder
  <1>6. ASSUME NEW i \in DOMAIN found PROVE (CHOOSE r \in more : r.id = found[i]) = (CHOOSE r \in held : r.id = found[i])
    <2>1. found[i] \in Range(ids) /\ found[i] \in set  BY <1>5 DEF Range
    <2>2. PICK q \in held : q.id = found[i]  BY <1>1, <2>1
    <2>3. \A r \in held : r.id = found[i] => r = q  BY <2>2 DEF UniqueIds
    <2>4. q \in more /\ \A r \in more : r.id = found[i] => r = q  BY <2>1, <2>2, <2>3
    <2> QED  BY <2>2, <2>3, <2>4
  <1>7. Materialize(ids, held) = [i \in DOMAIN found |-> CHOOSE r \in held : r.id = found[i]]
      BY <1>1, <1>5 DEF Materialize
  <1>8. Materialize(ids, more) = [i \in DOMAIN found |-> CHOOSE r \in more : r.id = found[i]]
      BY <1>2, <1>4, <1>5 DEF Materialize
  <1> QED  BY <1>6, <1>7, <1>8

\* Rows in another order have the same next number.
LEMMA NextNumberSorted ==
    ASSUME NEW rows \in Seq(FeedRows)
    PROVE  NextSequenceNo(SortRows(rows)) = NextSequenceNo(rows)
  <1>1. PICK s \in Seq(FeedRows) : s = SortRows(rows) /\ Range(s) = Range(rows)  BY SortKeeps
  <1>2. {s[i].seq : i \in DOMAIN s} = {rows[i].seq : i \in DOMAIN rows}
    <2>1. {s[i].seq : i \in DOMAIN s} = {r.seq : r \in Range(s)}  BY DEF Range
    <2>2. {rows[i].seq : i \in DOMAIN rows} = {r.seq : r \in Range(rows)}  BY DEF Range
    <2> QED  BY <1>1, <2>1, <2>2
  <1> QED  BY <1>1, <1>2 DEF NextSequenceNo

\* Between two operations nothing is due.
LEMMA NothingDue ==
    ASSUME todo = <<>>
    PROVE  /\ RowsAfter = events /\ \A kinds, c : Waits(kinds, c) = {}
           /\ Outcome = [c \in Convs |-> [rows |-> RowsOf(c), groups |-> groups[c], next |-> index[c].next, live |-> index[c].live]]
  <1>1. DOMAIN todo = {}  OBVIOUS
  <1>2. RowsAfter = events  BY <1>1 DEF RowsAfter, Stays
  <1>3. \A kinds, c : Waits(kinds, c) = {}  BY <1>1 DEF Waits
  <1>4. \A kinds, c, now : Latest(kinds, c, now) = now  BY <1>3 DEF Latest
  <1> QED  BY <1>2, <1>3, <1>4 DEF Outcome, RowsOf

\* The last of the sets that a conversation waits for
LEMMA LatestOf ==
    ASSUME todo \in Seq(Sets), NEW kinds, NEW c, Waits(kinds, c) # {}
    PROVE  \E k \in Waits(kinds, c) :
             /\ k \in DOMAIN todo /\ \A l \in Waits(kinds, c) : l <= k
             /\ (CHOOSE i \in Waits(kinds, c) : \A l \in Waits(kinds, c) : l <= i) = k
  <1>1. PICK W : W = Waits(kinds, c)  OBVIOUS
  <1>2. W \in SUBSET (1 .. Len(todo)) /\ Len(todo) \in Nat  BY <1>1 DEF Waits
  <1>3. W \in SUBSET Nat /\ IsFiniteSet(W)
    <2>1. IsFiniteSet(1 .. Len(todo))  BY <1>2, OneTo
    <2>2. IsFiniteSet(W)  BY <1>2, <2>1, FS_Subset
    <2>3. \A k \in W : k \in Nat  BY <1>2
    <2> QED  BY <2>2, <2>3
  <1>4. PICK k \in W : \A l \in W : l <= k  BY <1>1, <1>3, MaxOf
  <1>5. \A i \in W : (\A l \in W : l <= i) => i = k
    <2>1. \A i \in W : i \in Nat  BY <1>3
    <2>2. \A i \in W : (\A l \in W : l <= i) => k <= i /\ i <= k  BY <1>4
    <2> QED  BY <2>1, <2>2
  <1>6. (CHOOSE i \in W : \A l \in W : l <= i) = k  BY <1>4, <1>5
  <1> QED  BY <1>1, <1>2, <1>4, <1>6

\* The last set stays the last when the first is made.
LEMMA LatestShift ==
    ASSUME todo \in Seq(Sets), todo # <<>>, todo' = Tail(todo), NEW kinds, NEW c
    PROVE  /\ Waits(kinds, c)' = {} => Waits(kinds, c) \subseteq {1}
           /\ Waits(kinds, c)' # {} =>
                /\ Waits(kinds, c) # {}
                /\ todo[CHOOSE k \in Waits(kinds, c) : \A l \in Waits(kinds, c) : l <= k]
                     = (todo[CHOOSE k \in Waits(kinds, c) : \A l \in Waits(kinds, c) : l <= k])'
  <1>1. PICK more : more = todo'  OBVIOUS
  <1>2. /\ more \in Seq(Sets)
        /\ \A j \in DOMAIN more : j \in Nat /\ j > 0 /\ j + 1 \in DOMAIN todo /\ more[j] = todo[j + 1]
        /\ \A j \in DOMAIN todo : j \in Nat /\ (j > 1 => j - 1 \in DOMAIN more /\ more[j - 1] = todo[j])
      BY <1>1, Shift
  <1>3. PICK W : W = Waits(kinds, c)  OBVIOUS
  <1>4. PICK V : V = Waits(kinds, c)'  OBVIOUS
  <1>5. /\ \A k \in V : k \in DOMAIN more /\ k + 1 \in W
        /\ \A k \in W : k \in DOMAIN todo /\ (k > 1 => k - 1 \in V)
      BY <1>1, <1>2, <1>3, <1>4 DEF Waits
  <1>6. V = {} => W \subseteq {1}
    <2>1. \A k \in W : ~(k > 1) => k = 1
      <3>1. DOMAIN todo = 1 .. Len(todo)  BY Shift
      <3> QED  BY <1>5, <3>1
    <2> QED  BY <1>5, <2>1
  <1>7. ASSUME V # {}
        PROVE  /\ W # {}
               /\ todo[CHOOSE k \in W : \A l \in W : l <= k] = more[CHOOSE k \in V : \A l \in V : l <= k]
    <2>1. W # {}  BY <1>5, <1>7
    <2>2. PICK k \in W : k \in DOMAIN todo /\ (\A l \in W : l <= k) /\ (CHOOSE i \in W : \A l \in W : l <= i) = k
        BY <1>3, <2>1, LatestOf
    <2>3. k > 1
      <3>1. PICK v \in V : v + 1 \in W /\ v \in Nat /\ v > 0  BY <1>2, <1>5, <1>7
      <3> QED  BY <1>2, <2>2, <3>1
    <2>4. k - 1 \in V /\ more[k - 1] = todo[k]  BY <1>2, <1>5, <2>2, <2>3
    <2>5. \A v \in V : v \in Nat /\ v <= k - 1
      <3>1. \A v \in V : v \in Nat /\ v + 1 <= k  BY <1>2, <1>5, <2>2
      <3> QED  BY <1>2, <2>2, <3>1
    <2>6. \A v \in V : (\A l \in V : l <= v) => v = k - 1
      <3>1. \A v \in V : (\A l \in V : l <= v) => k - 1 <= v  BY <2>4
      <3>2. \A v \in V : v \in Nat /\ v <= k - 1 /\ k - 1 \in Int  BY <1>2, <2>2, <2>5
      <3> QED  BY <3>1, <3>2
    <2>7. (CHOOSE i \in V : \A l \in V : l <= i) = k - 1  BY <2>4, <2>5, <2>6
    <2> QED  BY <2>1, <2>2, <2>4, <2>7
  <1> QED  BY <1>1, <1>3, <1>4, <1>6, <1>7

\* The rows that all sets leave stay the same when the first set is made.
LEMMA RowsAfterShift ==
    ASSUME todo \in Seq(Sets), events \in SUBSET FeedRows, todo # <<>>, todo' = Tail(todo),
           todo[1].set = "events" => events' = SetEvents(events, todo[1]),
           todo[1].set # "events" => events' = events
    PROVE  RowsAfter' = RowsAfter
  <1>1. PICK more : more = todo'  OBVIOUS
  <1>2. /\ 1 \in DOMAIN todo /\ todo[1] \in Sets
        /\ \A j \in DOMAIN more : j \in Nat /\ j > 0 /\ j + 1 \in DOMAIN todo /\ more[j] = todo[j + 1]
        /\ \A j \in DOMAIN todo : j \in Nat /\ j > 0 /\ (j > 1 => j - 1 \in DOMAIN more /\ more[j - 1] = todo[j])
    <2>1. \A j \in DOMAIN todo : j > 0
      <3>1. DOMAIN todo = 1 .. Len(todo)  BY Shift
      <3> QED  BY <3>1
    <2> QED  BY <1>1, <2>1, Shift
  <1>3. \A r, k : Stays(r, k)' <=> \A l \in DOMAIN more : l > k /\ more[l].set = "events" => r.id \notin Touched(more[l])
      BY <1>1 DEF Stays
  <1>4. ASSUME NEW r, NEW k \in Nat PROVE Stays(r, k)' <=> Stays(r, k + 1)
    <2>1. ASSUME Stays(r, k + 1), NEW l \in DOMAIN more, l > k, more[l].set = "events" PROVE r.id \notin Touched(more[l])
        BY <1>2, <2>1 DEF Stays
    <2>2. ASSUME Stays(r, k)', NEW l \in DOMAIN todo, l > k + 1, todo[l].set = "events" PROVE r.id \notin Touched(todo[l])
      <3>1. l > 1 /\ l - 1 > k  BY <1>2, <2>2
      <3> QED  BY <1>2, <1>3, <2>2, <3>1
    <2>3. Stays(r, k + 1) => Stays(r, k)'  BY <1>3, <2>1
    <2>4. Stays(r, k)' => Stays(r, k + 1)  BY <2>2 DEF Stays
    <2> QED  BY <2>3, <2>4
  <1>5. ASSUME NEW r PROVE Stays(r, 0) <=> (todo[1].set = "events" => r.id \notin Touched(todo[1])) /\ Stays(r, 1)
    <2>1. \A l \in DOMAIN todo : l > 0 <=> (l = 1 \/ l > 1)  BY <1>2
    <2> QED  BY <1>2, <2>1 DEF Stays
  <1>6. \A r : Stays(r, 0)' <=> Stays(r, 1)
    <2>1. \A r : Stays(r, 0)' <=> Stays(r, 0 + 1)  BY <1>4
    <2> QED  BY <2>1
  <1>7. \A r : r \in RowsAfter <=>
             \/ r \in events /\ Stays(r, 0)
             \/ \E k \in DOMAIN todo : todo[k].set = "events" /\ r \in todo[k].new /\ Stays(r, k)
      BY DEF RowsAfter
  <1>8. \A r : r \in RowsAfter' <=>
             \/ r \in events' /\ Stays(r, 0)'
             \/ \E k \in DOMAIN more : more[k].set = "events" /\ r \in more[k].new /\ Stays(r, k)'
      BY <1>1 DEF RowsAfter
  <1>9. todo[1].set = "events" =>
             /\ \A r \in events' : r \in todo[1].new \/ (r \in events /\ r.id \notin Touched(todo[1]))
             /\ \A r \in events : r.id \notin Touched(todo[1]) => r \in events'
             /\ todo[1].new \subseteq events'
    <2> SUFFICES ASSUME todo[1].set = "events"
                 PROVE  /\ \A r \in events' : r \in todo[1].new \/ (r \in events /\ r.id \notin Touched(todo[1]))
                        /\ \A r \in events : r.id \notin Touched(todo[1]) => r \in events'
                        /\ todo[1].new \subseteq events'
        OBVIOUS
    <2>1. PICK s \in Sets : s = todo[1] /\ s.set = "events"  BY <1>2
    <2>2. events' = SetEvents(events, s)  BY <2>1
    <2>3. /\ s.new \subseteq SetEvents(events, s)
          /\ \A r \in SetEvents(events, s) : r \in s.new \/ (r \in events /\ r.id \notin Touched(s))
          /\ \A r \in events : r.id \notin Touched(s) => r \in SetEvents(events, s)
        BY <2>1, SetRows
    <2> QED  BY <2>1, <2>2, <2>3
  <1>10. ASSUME NEW r PROVE r \in RowsAfter => r \in RowsAfter'
    <2>1. CASE r \in events /\ Stays(r, 0)  BY <1>5, <1>6, <1>8, <1>9, <2>1
    <2>2. CASE \E k \in DOMAIN todo : todo[k].set = "events" /\ r \in todo[k].new /\ Stays(r, k)
      <3>1. PICK k \in DOMAIN todo : todo[k].set = "events" /\ r \in todo[k].new /\ Stays(r, k)  BY <2>2
      <3>2. CASE k = 1
        <4>1. r \in events' /\ Stays(r, 0)'  BY <1>6, <1>9, <3>1, <3>2
        <4> QED  BY <1>8, <4>1
      <3>3. CASE k > 1
        <4>1. PICK j \in DOMAIN more : j = k - 1 /\ more[j] = todo[k] /\ j \in Nat /\ j + 1 = k  BY <1>2, <3>3
        <4>2. Stays(r, j)'  BY <1>4, <3>1, <4>1
        <4> QED  BY <1>8, <3>1, <4>1, <4>2
      <3>4. k = 1 \/ k > 1  BY <1>2
      <3> QED  BY <3>2, <3>3, <3>4
    <2> QED  BY <1>7, <2>1, <2>2
  <1>11. ASSUME NEW r PROVE r \in RowsAfter' => r \in RowsAfter
    <2>1. CASE r \in events' /\ Stays(r, 0)'
      <3>1. Stays(r, 1)  BY <1>6, <2>1
      <3>2. CASE todo[1].set = "events"
        <4>1. CASE r \in todo[1].new  BY <1>2, <1>7, <3>1, <3>2, <4>1
        <4>2. CASE r \in events /\ r.id \notin Touched(todo[1])  BY <1>5, <1>7, <3>1, <4>2
        <4> QED  BY <1>9, <2>1, <3>2, <4>1, <4>2
      <3>3. CASE todo[1].set # "events"  BY <1>5, <1>7, <2>1, <3>1, <3>3
      <3> QED  BY <3>2, <3>3
    <2>2. CASE \E k \in DOMAIN more : more[k].set = "events" /\ r \in more[k].new /\ Stays(r, k)'
      <3>1. PICK k \in DOMAIN more : more[k].set = "events" /\ r \in more[k].new /\ Stays(r, k)'  BY <2>2
      <3>2. k \in Nat /\ k + 1 \in DOMAIN todo /\ more[k] = todo[k + 1]  BY <1>2
      <3>3. Stays(r, k + 1)  BY <1>4, <3>1, <3>2
      <3> QED  BY <1>7, <3>1, <3>2, <3>3
    <2> QED  BY <1>8, <2>1, <2>2
  <1> QED  BY <1>10, <1>11

\* The store of activityStore.ts sorts, groups and numbers rows as the three stores do.
LEMMA StoreRows ==
    ASSUME NEW rows
    PROVE  /\ Store!SortRows(rows) = SortRows(rows)
           /\ Store!BuildActivityGroups(rows) = BuildActivityGroups(rows)
           /\ Store!NextAfter(rows) = NextSequenceNo(rows)
           /\ \A id : Store!Without(rows, id) = Without(rows, id)
  <1>1. Store!SortRows(rows) = SortRows(rows)
      BY DEF Store!SortRows, SortRows, Store!Cardinality, Cardinality, Store!UpTo, UpTo
  <1>2. Store!BuildActivityGroups(rows) = BuildActivityGroups(rows)
      BY DEF Store!BuildActivityGroups, BuildActivityGroups, Store!Only, Only, Store!Cardinality, Cardinality,
             Store!SortRows, SortRows, Store!UpTo, UpTo
  <1>3. Store!NextAfter(rows) = NextSequenceNo(rows)
      BY DEF Store!NextAfter, Store!NextSequenceNo, NextSequenceNo, Store!Max, Max, Store!Scale, Scale
  <1>4. \A id : Store!Without(rows, id) = Without(rows, id)
      BY DEF Store!Without, Without, Store!Only, Only, Store!ToSet, ToSet, Store!Cardinality, Cardinality
  <1> QED  BY <1>1, <1>2, <1>3, <1>4

\* A set that is made leaves what the operation under way will leave.
LEMMA SetsSame ==
    ASSUME FeedInv, NextSet
    PROVE  Outcome' = Outcome
  <1>1. PICK s \in Sets : todo # <<>> /\ todo' = Tail(todo) /\ s = todo[1] /\ 1 \in DOMAIN todo /\ todo \in Seq(Sets) /\ Head(todo) = s
    <2>1. todo # <<>> /\ todo' = Tail(todo) /\ todo \in Seq(Sets)  BY DEF NextSet, FeedInv, FeedTyped
    <2> QED  BY <2>1, Shift
  <1>2. \/ s.set = "events" /\ events' = SetEvents(events, s) /\ UNCHANGED <<index, groups>>
        \/ s.set = "groups" /\ groups' = [groups EXCEPT ![s.conv] = s.groups] /\ UNCHANGED <<events, index>>
        \/ s.set \in {"index", "live", "clear"} /\ index' = SetIndex(index, s) /\ UNCHANGED <<events, groups>>
      BY <1>1 DEF NextSet, SetGroups
  <1>3. RowsAfter' = RowsAfter
    <2>1. events \in SUBSET FeedRows  BY DEF FeedInv, FeedTyped
    <2> QED  BY <1>1, <1>2, <2>1, RowsAfterShift
  <1>4. /\ groups \in [Convs -> Seq(Seq(Nat))] /\ index \in [Convs -> Index]
      BY DEF FeedInv, FeedTyped
  <1>5. /\ s.set = "index" => s.conv \in Convs /\ s.ids \in Seq(Nat) /\ s.next \in Nat
        /\ s.set = "groups" => s.conv \in Convs /\ s.groups \in Seq(Seq(Nat))
        /\ s.set = "live" => s.conv \in Convs /\ s.live \in {"default", "draft"}
        /\ s.set = "clear" => s.conv \in Convs /\ s.ids = <<>> /\ s.next = Scale /\ s.live = "default"
      BY SetForms
  <1>6. ASSUME NEW c \in Convs, NEW K PROVE Waits(K, c) \subseteq {1} /\ ~(s.set \in K /\ s.conv = c) => Waits(K, c) = {}
      BY <1>1 DEF Waits
  <1>7. ASSUME NEW c \in Convs, NEW K, Waits(K, c)' = {}
        PROVE  \A now : Latest(K, c, now) = IF s.set \in K /\ s.conv = c THEN s ELSE now
    <2>1. Waits(K, c) \subseteq {1}  BY <1>1, <1>7, LatestShift
    <2>2. CASE s.set \in K /\ s.conv = c
      <3>1. Waits(K, c) = {1}  BY <1>1, <2>1, <2>2 DEF Waits
      <3>2. (CHOOSE k \in {1} : \A l \in {1} : l <= k) = 1  OBVIOUS
      <3> QED  BY <1>1, <2>2, <3>1, <3>2 DEF Latest
    <2>3. CASE ~(s.set \in K /\ s.conv = c)
      <3>1. Waits(K, c) = {}  BY <1>6, <2>1, <2>3
      <3> QED  BY <2>3, <3>1 DEF Latest
    <2> QED  BY <2>2, <2>3
  <1>8. ASSUME NEW c \in Convs
        PROVE  /\ groups'[c] = IF s.set = "groups" /\ s.conv = c THEN s.groups ELSE groups[c]
               /\ index'[c].ids = IF s.set \in {"index", "clear"} /\ s.conv = c THEN s.ids ELSE index[c].ids
               /\ index'[c].next = IF s.set \in {"index", "clear"} /\ s.conv = c THEN s.next ELSE index[c].next
               /\ index'[c].live = IF s.set \in {"live", "clear"} /\ s.conv = c THEN s.live ELSE index[c].live
    <2>1. CASE s.set = "events"  BY <1>2, <2>1
    <2>2. CASE s.set = "groups"  BY <1>2, <1>4, <1>5, <2>2
    <2>3. CASE s.set = "index"
      <3>1. index' = [index EXCEPT ![s.conv].ids = s.ids, ![s.conv].next = s.next, ![s.conv].version = @ + 1]
          BY <1>2, <2>3 DEF SetIndex
      <3> QED  BY <1>2, <1>4, <1>5, <2>3, <3>1 DEF Index
    <2>4. CASE s.set = "live"
      <3>1. index' = [index EXCEPT ![s.conv].live = s.live]  BY <1>2, <2>4 DEF SetIndex
      <3> QED  BY <1>2, <1>4, <1>5, <2>4, <3>1 DEF Index
    <2>5. CASE s.set = "clear"
      <3>1. index' = [index EXCEPT ![s.conv] = EmptyIndex]  BY <1>2, <2>5 DEF SetIndex
      <3> QED  BY <1>2, <1>4, <1>5, <2>5, <3>1 DEF EmptyIndex
    <2> QED  BY <1>2, <2>1, <2>2, <2>3, <2>4, <2>5
  <1>9. ASSUME NEW c \in Convs, NEW K, Waits(K, c)' # {}
        PROVE  \A now : Latest(K, c, now) = (todo[CHOOSE k \in Waits(K, c) : \A l \in Waits(K, c) : l <= k])'
    <2>1. /\ Waits(K, c) # {}
          /\ todo[CHOOSE k \in Waits(K, c) : \A l \in Waits(K, c) : l <= k]
               = (todo[CHOOSE k \in Waits(K, c) : \A l \in Waits(K, c) : l <= k])'
        BY <1>1, <1>9, LatestShift
    <2> QED  BY <2>1 DEF Latest
  <1>10. ASSUME NEW c \in Convs
         PROVE  /\ Latest({"groups"}, c, [groups |-> groups[c]])'.groups = Latest({"groups"}, c, [groups |-> groups[c]]).groups
                /\ Latest({"index", "clear"}, c, index[c])'.ids = Latest({"index", "clear"}, c, index[c]).ids
                /\ Latest({"index", "clear"}, c, index[c])'.next = Latest({"index", "clear"}, c, index[c]).next
                /\ Latest({"live", "clear"}, c, index[c])'.live = Latest({"live", "clear"}, c, index[c]).live
    <2>1. Latest({"groups"}, c, [groups |-> groups[c]])'.groups = Latest({"groups"}, c, [groups |-> groups[c]]).groups
      <3>1. PICK K : K = {"groups"}  OBVIOUS
      <3>2. PICK was, is : was = Latest(K, c, [groups |-> groups[c]]) /\ is = Latest(K, c, [groups |-> groups[c]])'
          OBVIOUS
      <3>3. ASSUME Waits(K, c)' = {} PROVE is.groups = was.groups
        <4>1. is.groups = groups'[c]  BY <3>2, <3>3 DEF Latest
        <4>2. was = IF s.set \in K /\ s.conv = c THEN s ELSE [groups |-> groups[c]]  BY <1>7, <3>2, <3>3
        <4> QED  BY <1>8, <3>1, <4>1, <4>2
      <3>4. ASSUME Waits(K, c)' # {} PROVE is.groups = was.groups
        <4>1. is = (todo[CHOOSE k \in Waits(K, c) : \A l \in Waits(K, c) : l <= k])'  BY <3>2, <3>4 DEF Latest
        <4> QED  BY <1>9, <3>2, <3>4, <4>1
      <3>5. is.groups = was.groups  BY <3>3, <3>4
      <3> QED  BY <3>1, <3>2, <3>5
    <2>2. /\ Latest({"index", "clear"}, c, index[c])'.ids = Latest({"index", "clear"}, c, index[c]).ids
          /\ Latest({"index", "clear"}, c, index[c])'.next = Latest({"index", "clear"}, c, index[c]).next
      <3>1. PICK K : K = {"index", "clear"}  OBVIOUS
      <3>2. CASE Waits(K, c)' = {}
        <4>1. Latest(K, c, index[c])' = index'[c]  BY <3>2 DEF Latest
        <4>2. Latest(K, c, index[c]) = IF s.set \in K /\ s.conv = c THEN s ELSE index[c]
            BY <1>7, <3>2
        <4> QED  BY <1>8, <3>1, <4>1, <4>2
      <3>3. CASE Waits(K, c)' # {}
        <4>1. Latest(K, c, index[c])' = (todo[CHOOSE k \in Waits(K, c) : \A l \in Waits(K, c) : l <= k])'
            BY <3>3 DEF Latest
        <4>2. Latest(K, c, index[c]) = (todo[CHOOSE k \in Waits(K, c) : \A l \in Waits(K, c) : l <= k])'
            BY <1>9, <3>3
        <4> QED  BY <3>1, <4>1, <4>2
      <3> QED  BY <3>2, <3>3
    <2>3. Latest({"live", "clear"}, c, index[c])'.live = Latest({"live", "clear"}, c, index[c]).live
      <3>1. PICK K : K = {"live", "clear"}  OBVIOUS
      <3>2. CASE Waits(K, c)' = {}
        <4>1. Latest(K, c, index[c])' = index'[c]  BY <3>2 DEF Latest
        <4>2. Latest(K, c, index[c]) = IF s.set \in K /\ s.conv = c THEN s ELSE index[c]
            BY <1>7, <3>2
        <4> QED  BY <1>8, <3>1, <4>1, <4>2
      <3>3. CASE Waits(K, c)' # {}
        <4>1. Latest(K, c, index[c])' = (todo[CHOOSE k \in Waits(K, c) : \A l \in Waits(K, c) : l <= k])'
            BY <3>3 DEF Latest
        <4> QED  BY <1>9, <3>1, <3>3, <4>1
      <3> QED  BY <3>2, <3>3
    <2> QED  BY <2>1, <2>2, <2>3
  <1> QED  BY <1>3, <1>10 DEF Outcome

-----------------------------------------------------------------------------
(* The operations of the pipeline are operations of the single store. *)

\* The last of some sets that gives a conversation something, or none
LastFor(sets, kinds, c, k) ==
    /\ k \in DOMAIN sets /\ sets[k].set \in kinds /\ sets[k].conv = c
    /\ \A l \in DOMAIN sets : sets[l].set \in kinds /\ sets[l].conv = c => l <= k
NoneFor(sets, kinds, c) == \A k \in DOMAIN sets : ~(sets[k].set \in kinds /\ sets[k].conv = c)

\* What an operation that begins will give a conversation
LEMMA WaitsNext ==
    ASSUME NEW sets \in Seq(Sets), todo' = sets, NEW kinds, NEW c
    PROVE  /\ NoneFor(sets, kinds, c) => Waits(kinds, c)' = {}
           /\ \A k : LastFor(sets, kinds, c, k) =>
                /\ Waits(kinds, c)' # {}
                /\ (todo[CHOOSE i \in Waits(kinds, c) : \A l \in Waits(kinds, c) : l <= i])' = sets[k]
  <1>1. PICK W : W = Waits(kinds, c)'  OBVIOUS
  <1>2. W = {k \in DOMAIN sets : sets[k].set \in kinds /\ sets[k].conv = c}  BY <1>1 DEF Waits
  <1>3. NoneFor(sets, kinds, c) => W = {}  BY <1>2 DEF NoneFor
  <1>4. ASSUME NEW k, LastFor(sets, kinds, c, k)
        PROVE  W # {} /\ sets[CHOOSE i \in W : \A l \in W : l <= i] = sets[k]
    <2>1. k \in W /\ \A l \in W : l <= k  BY <1>2, <1>4 DEF LastFor
    <2>2. \A i \in W : i \in Nat
      <3>1. DOMAIN sets = 1 .. Len(sets)  OBVIOUS
      <3> QED  BY <1>2, <3>1
    <2>3. \A i \in W : (\A l \in W : l <= i) => i = k
      <3>1. \A i \in W : (\A l \in W : l <= i) => k <= i /\ i <= k  BY <2>1
      <3> QED  BY <2>1, <2>2, <3>1
    <2>4. (CHOOSE i \in W : \A l \in W : l <= i) = k  BY <2>1, <2>3
    <2> QED  BY <2>1, <2>4
  <1> QED  BY <1>1, <1>3, <1>4

\* The rows that one set of the event store will leave
LEMMA RowsNext ==
    ASSUME NEW sets \in Seq(Sets), todo' = sets, UNCHANGED events, 1 \in DOMAIN sets, sets[1].set = "events",
           \A k \in DOMAIN sets : sets[k].set = "events" => k = 1
    PROVE  RowsAfter' = SetEvents(events, sets[1])
  <1>1. \A r : Stays(r, 0)' <=> r.id \notin Touched(sets[1])
    <2>1. \A r : Stays(r, 0)' <=> \A l \in DOMAIN sets : l > 0 /\ sets[l].set = "events" => r.id \notin Touched(sets[l])
        BY DEF Stays
    <2> QED  BY <2>1
  <1>2. \A r : Stays(r, 1)'
    <2>1. \A r : Stays(r, 1)' <=> \A l \in DOMAIN sets : l > 1 /\ sets[l].set = "events" => r.id \notin Touched(sets[l])
        BY DEF Stays
    <2> QED  BY <2>1
  <1>3. \A r : r \in RowsAfter' <=>
             \/ r \in events /\ Stays(r, 0)'
             \/ \E k \in DOMAIN sets : sets[k].set = "events" /\ r \in sets[k].new /\ Stays(r, k)'
      BY DEF RowsAfter
  <1>4. \A r : r \in RowsAfter' <=> (r \in events /\ r.id \notin Touched(sets[1])) \/ r \in sets[1].new
      BY <1>1, <1>2, <1>3
  <1> QED  BY <1>4 DEF SetEvents

\* What a conversation will have when the sets that an operation begins with are made
LEMMA OutcomeNext ==
    ASSUME NEW sets \in Seq(Sets), todo' = sets, UNCHANGED <<index, groups>>, NEW c \in Convs, NEW held, held = RowsAfter',
           NEW o, o = Outcome'[c]
    PROVE  /\ o = [rows |-> o.rows, groups |-> o.groups, next |-> o.next, live |-> o.live]
           /\ NoneFor(sets, {"index", "clear"}, c) => o.rows = Materialize(index[c].ids, held) /\ o.next = index[c].next
           /\ \A k : LastFor(sets, {"index", "clear"}, c, k) =>
                 o.rows = Materialize(sets[k].ids, held) /\ o.next = sets[k].next
           /\ NoneFor(sets, {"groups"}, c) => o.groups = groups[c]
           /\ \A k : LastFor(sets, {"groups"}, c, k) => o.groups = sets[k].groups
           /\ NoneFor(sets, {"live", "clear"}, c) => o.live = index[c].live
           /\ \A k : LastFor(sets, {"live", "clear"}, c, k) => o.live = sets[k].live
  <1>1. PICK placed : placed = Latest({"index", "clear"}, c, index[c])'  OBVIOUS
  <1>2. PICK grouped : grouped = Latest({"groups"}, c, [groups |-> groups[c]])'  OBVIOUS
  <1>3. PICK alive : alive = Latest({"live", "clear"}, c, index[c])'  OBVIOUS
  <1>4. Outcome'[c] = [rows |-> Materialize(placed.ids, held), groups |-> grouped.groups, next |-> placed.next, live |-> alive.live]
      BY <1>1, <1>2, <1>3 DEF Outcome
  <1>5. /\ NoneFor(sets, {"index", "clear"}, c) => placed = index[c]
        /\ \A k : LastFor(sets, {"index", "clear"}, c, k) => placed = sets[k]
    <2>1. PICK K : K = {"index", "clear"}  OBVIOUS
    <2>2. placed = IF Waits(K, c)' = {} THEN index[c] ELSE (todo[CHOOSE i \in Waits(K, c) : \A l \in Waits(K, c) : l <= i])'
        BY <1>1, <2>1 DEF Latest
    <2>3. NoneFor(sets, K, c) => placed = index[c]  BY <2>2, WaitsNext
    <2>4. \A k : LastFor(sets, K, c, k) => placed = sets[k]  BY <2>2, WaitsNext
    <2> QED  BY <2>1, <2>3, <2>4
  <1>6. /\ NoneFor(sets, {"groups"}, c) => grouped.groups = groups[c]
        /\ \A k : LastFor(sets, {"groups"}, c, k) => grouped = sets[k]
    <2>1. PICK K : K = {"groups"}  OBVIOUS
    <2>2. grouped = IF Waits(K, c)' = {} THEN [groups |-> groups[c]]
                    ELSE (todo[CHOOSE i \in Waits(K, c) : \A l \in Waits(K, c) : l <= i])'
        BY <1>2, <2>1 DEF Latest
    <2>3. NoneFor(sets, K, c) => grouped.groups = groups[c]
      <3>1. [groups |-> groups[c]].groups = groups[c]  OBVIOUS
      <3> QED  BY <2>2, <3>1, WaitsNext
    <2>4. \A k : LastFor(sets, K, c, k) => grouped = sets[k]  BY <2>2, WaitsNext
    <2> QED  BY <2>1, <2>3, <2>4
  <1>7. /\ NoneFor(sets, {"live", "clear"}, c) => alive = index[c]
        /\ \A k : LastFor(sets, {"live", "clear"}, c, k) => alive = sets[k]
    <2>1. PICK K : K = {"live", "clear"}  OBVIOUS
    <2>2. alive = IF Waits(K, c)' = {} THEN index[c] ELSE (todo[CHOOSE i \in Waits(K, c) : \A l \in Waits(K, c) : l <= i])'
        BY <1>3, <2>1 DEF Latest
    <2>3. NoneFor(sets, K, c) => alive = index[c]  BY <2>2, WaitsNext
    <2>4. \A k : LastFor(sets, K, c, k) => alive = sets[k]  BY <2>2, WaitsNext
    <2> QED  BY <2>1, <2>3, <2>4
  <1> HIDE DEF Outcome
  <1>8. o = Outcome'[c]  OBVIOUS
  <1>9. /\ o = [rows |-> Materialize(placed.ids, held), groups |-> grouped.groups, next |-> placed.next, live |-> alive.live]
      BY <1>4, <1>8
  <1>10. /\ o.rows = Materialize(placed.ids, held) /\ o.groups = grouped.groups
         /\ o.next = placed.next /\ o.live = alive.live
         /\ o = [rows |-> o.rows, groups |-> o.groups, next |-> o.next, live |-> o.live]
      BY <1>9
  <1> QED  BY <1>5, <1>6, <1>7, <1>8, <1>10

\* The rows of a conversation that a set of the event store does not touch
LEMMA RowsApart ==
    ASSUME FeedInv, todo = <<>>, NEW c \in Convs, NEW held \in SUBSET FeedRows,
           \A r : r.id \in Range(index[c].ids) => (r \in held <=> r \in events)
    PROVE  Materialize(index[c].ids, held) = RowsOf(c)
  <1>1. index[c].ids \in Seq(Nat) /\ events \in SUBSET FeedRows /\ UniqueIds(events)
      BY DEF FeedInv, FeedTyped, Stored, Index
  <1> QED  BY <1>1, MaterializeSame DEF RowsOf

\* Sets that give one conversation rows, an index and groups, and perhaps a live state
Blocked(sets, c, e, x, g, N) ==
    /\ c \in Convs /\ e \in Sets /\ x \in Sets /\ g \in Sets /\ BlockOf(e, x, g, c)
    /\ sets \in Seq(Sets) /\ N \in {3, 4} /\ DOMAIN sets = 1 .. N /\ sets[1] = e /\ sets[2] = x /\ sets[3] = g
    /\ N = 4 => sets[4].set = "live" /\ sets[4].conv = c
    /\ \A n \in e.new, d \in Convs : d # c => n.id \notin Range(index[d].ids)

\* The sets of one conversation change it as they say, and no other.
LEMMA BlockOutcome ==
    ASSUME FeedInv, todo = <<>>, UNCHANGED <<events, index, groups>>,
           NEW sets, todo' = sets, NEW c, NEW e, NEW x, NEW g, NEW N, Blocked(sets, c, e, x, g, N),
           NEW o, o = Outcome'[c]
    PROVE  /\ Outcome' = [Outcome EXCEPT ![c] = o]
           /\ o = [rows |-> Materialize(x.ids, SetEvents(events, e)), groups |-> g.groups, next |-> x.next, live |-> o.live]
           /\ N = 3 => o.live = IF x.set = "clear" THEN x.live ELSE index[c].live
           /\ N = 4 => o.live = sets[4].live
  <1> USE DEF Blocked
  <1>1. /\ 1 \in DOMAIN sets /\ 2 \in DOMAIN sets /\ 3 \in DOMAIN sets /\ (N = 4 => 4 \in DOMAIN sets)
        /\ \A k \in DOMAIN sets : k = 1 \/ k = 2 \/ k = 3 \/ (k = 4 /\ N = 4)
      OBVIOUS
  <1>2. /\ e.set = "events" /\ x.set \in {"index", "clear"} /\ x.conv = c /\ g.set = "groups" /\ g.conv = c
        /\ e.gone = Range(index[c].ids)
      BY DEF BlockOf
  <1>3. PICK held : held = RowsAfter'  OBVIOUS
  <1>4. held = SetEvents(events, e)
    <2>1. \A k \in DOMAIN sets : sets[k].set = "events" => k = 1  BY <1>1, <1>2
    <2> QED  BY <1>1, <1>2, <1>3, <2>1, RowsNext
  <1>5. held \in SUBSET FeedRows
    <2>1. events \in SUBSET FeedRows  BY DEF FeedInv, FeedTyped
    <2> QED  BY <1>2, <1>4, <2>1, SetRows
  <1>6. ASSUME NEW d \in Convs, d # c PROVE Outcome'[d] = Outcome[d]
    <2>1. \A K : NoneFor(sets, K \ {"events"}, d)
      <3> SUFFICES ASSUME NEW K, NEW k \in DOMAIN sets, sets[k].set \in K \ {"events"}, sets[k].conv = d PROVE FALSE
          BY DEF NoneFor
      <3> QED  BY <1>1, <1>2, <1>6
    <2>2. NoneFor(sets, {"index", "clear"}, d) /\ NoneFor(sets, {"groups"}, d) /\ NoneFor(sets, {"live", "clear"}, d)
      <3>1. {"index", "clear"} = {"index", "clear"} \ {"events"} /\ {"groups"} = {"groups"} \ {"events"}
            /\ {"live", "clear"} = {"live", "clear"} \ {"events"}
          OBVIOUS
      <3> QED  BY <2>1, <3>1
    <2>3. PICK other : other = Outcome'[d]  OBVIOUS
    <2>4. other = [rows |-> Materialize(index[d].ids, held), groups |-> groups[d], next |-> index[d].next, live |-> index[d].live]
      <3>1. /\ other = [rows |-> other.rows, groups |-> other.groups, next |-> other.next, live |-> other.live]
            /\ other.rows = Materialize(index[d].ids, held) /\ other.next = index[d].next
            /\ other.groups = groups[d] /\ other.live = index[d].live
          BY <1>3, <2>2, <2>3, OutcomeNext
      <3> QED  BY <3>1
    <2>5. \A r : r.id \in Range(index[d].ids) => (r \in held <=> r \in events)
      <3>1. Range(index[c].ids) \cap Range(index[d].ids) = {}  BY <1>6, AtRest
      <3>2. \A n \in e.new : n.id \notin Range(index[d].ids)  BY <1>6
      <3>3. \A r : r.id \in Range(index[d].ids) => r.id \notin Touched(e)  BY <1>2, <3>1, <3>2 DEF Touched
      <3> QED  BY <1>4, <3>2, <3>3 DEF SetEvents
    <2>6. Materialize(index[d].ids, held) = RowsOf(d)  BY <1>5, <2>5, RowsApart
    <2>7. Outcome[d] = [rows |-> RowsOf(d), groups |-> groups[d], next |-> index[d].next, live |-> index[d].live]
        BY NothingDue
    <2> QED  BY <2>3, <2>4, <2>6, <2>7
  <1>7. o = Outcome'[c]  OBVIOUS
  <1>8. /\ LastFor(sets, {"index", "clear"}, c, 2) /\ LastFor(sets, {"groups"}, c, 3)
        /\ N = 4 => LastFor(sets, {"live", "clear"}, c, 4)
        /\ N = 3 /\ x.set = "clear" => LastFor(sets, {"live", "clear"}, c, 2)
        /\ N = 3 /\ x.set # "clear" => NoneFor(sets, {"live", "clear"}, c)
      BY <1>1, <1>2 DEF LastFor, NoneFor
  <1>9. o = [rows |-> Materialize(x.ids, held), groups |-> g.groups, next |-> x.next, live |-> o.live]
    <2>1. /\ o = [rows |-> o.rows, groups |-> o.groups, next |-> o.next, live |-> o.live]
          /\ o.rows = Materialize(sets[2].ids, held) /\ o.next = sets[2].next
          /\ o.groups = sets[3].groups
        BY <1>3, <1>7, <1>8, OutcomeNext
    <2> QED  BY <2>1
  <1>10. \A k : LastFor(sets, {"live", "clear"}, c, k) => o.live = sets[k].live  BY <1>3, <1>7, OutcomeNext
  <1>11. N = 3 => o.live = IF x.set = "clear" THEN x.live ELSE index[c].live
    <2>1. CASE x.set = "clear"
      <3>1. N = 3 => o.live = sets[2].live  BY <1>8, <1>10, <2>1
      <3> QED  BY <2>1, <3>1
    <2>2. CASE x.set # "clear"
      <3>1. N = 3 => o.live = index[c].live  BY <1>3, <1>7, <1>8, <2>2, OutcomeNext
      <3> QED  BY <2>2, <3>1
    <2> QED  BY <2>1, <2>2
  <1>12. N = 4 => o.live = sets[4].live  BY <1>8, <1>10
  <1>13. Outcome' = [Outcome EXCEPT ![c] = o]
    <2>1. Outcome' = [d \in Convs |-> Outcome'[d]] /\ Outcome = [d \in Convs |-> Outcome[d]]  BY DEF Outcome
    <2> HIDE DEF Outcome
    <2>2. PICK before, after : before = Outcome /\ after = Outcome'  OBVIOUS
    <2>3. after = [d \in Convs |-> after[d]] /\ before = [d \in Convs |-> before[d]]  BY <2>1, <2>2
    <2>4. \A d \in Convs : after[d] = IF d = c THEN o ELSE before[d]  BY <1>6, <1>7, <2>2
    <2>5. after = [before EXCEPT ![c] = o]  BY <2>3, <2>4
    <2> QED  BY <2>2, <2>5
  <1> QED  BY <1>4, <1>7, <1>9, <1>11, <1>12, <1>13

\* The groups of rows are those of the sorted rows.
LEMMA SortedGroups ==
    ASSUME NEW rows \in Seq(FeedRows)
    PROVE  BuildActivityGroups(SortRows(rows)) = BuildActivityGroups(rows)
  BY SortAgain DEF BuildActivityGroups

\* The rows of a batch are all stored, and no others with their ids.
LEMMA BatchStored ==
    ASSUME NEW rows \in Seq(FeedRows), IsInjective(IdSeq(rows)), NEW e \in Sets, e.set = "events", e.new = Range(rows),
           events \in SUBSET FeedRows
    PROVE  Materialize(IdSeq(SortRows(rows)), SetEvents(events, e)) = SortRows(rows)
  <1>1. PICK s \in Seq(FeedRows) : s = SortRows(rows) /\ Range(s) = Range(rows) /\ IsInjective(IdSeq(s))
      BY SortKeeps
  <1>2. PICK held \in SUBSET FeedRows : held = SetEvents(events, e)  BY SetRows
  <1>3. Range(s) \subseteq held  BY <1>1, <1>2 DEF SetEvents
  <1>4. \A r \in held : r.id \in Range(IdSeq(s)) => r \in Range(s)
    <2> SUFFICES ASSUME NEW r \in held, r.id \in Range(IdSeq(s)), r \notin Range(s) PROVE FALSE  OBVIOUS
    <2>1. PICK q \in Range(s) : q.id = r.id  BY <1>1, IdsOfRows
    <2>2. r.id \in Touched(e)  BY <1>1, <2>1 DEF Touched
    <2> QED  BY <1>1, <1>2, <2>2 DEF SetEvents
  <1>5. Materialize(IdSeq(s), held) = s  BY <1>1, <1>3, <1>4, MaterializeAll
  <1> QED  BY <1>1, <1>2, <1>5

\* What the single store holds of a conversation, and what changes of it
Held(rows, gs, next, live) == [rows |-> rows, groups |-> gs, next |-> next, live |-> live]
Holds(v, c, rows, gs, next, live) == v = [d \in Convs |-> v[d]] /\ c \in Convs /\ v[c] = Held(rows, gs, next, live)

WithThree(v, c, rows, gs, next) == [v EXCEPT ![c].rows = rows, ![c].groups = gs, ![c].next = next]
WithRows(v, c, rows) == [v EXCEPT ![c].rows = rows]
WithNext(v, c, next) == [v EXCEPT ![c].next = next]
WithLive(v, c, live) == [v EXCEPT ![c].live = live]

\* A change of some of what is held of a conversation, as a whole
LEMMA FieldsAt ==
    ASSUME NEW v, NEW c, NEW a, NEW b, NEW e, NEW f, Holds(v, c, a, b, e, f)
    PROVE  /\ \A s, g, n : WithThree(v, c, s, g, n) = [v EXCEPT ![c] = Held(s, g, n, f)]
           /\ \A s : /\ WithLive(v, c, s) = [v EXCEPT ![c] = Held(a, b, e, s)]
                    /\ WithNext(v, c, s) = [v EXCEPT ![c] = Held(a, b, s, f)]
                    /\ WithRows(v, c, s) = [v EXCEPT ![c] = Held(s, b, e, f)]
  <1> SUFFICES ASSUME NEW s, NEW g, NEW n
               PROVE  /\ WithThree(v, c, s, g, n) = [v EXCEPT ![c] = Held(s, g, n, f)]
                      /\ WithLive(v, c, s) = [v EXCEPT ![c] = Held(a, b, e, s)]
                      /\ WithNext(v, c, s) = [v EXCEPT ![c] = Held(a, b, s, f)]
                      /\ WithRows(v, c, s) = [v EXCEPT ![c] = Held(s, b, e, f)]
      OBVIOUS
  <1>1. PICK r : r = v[c] /\ r = Held(a, b, e, f)  BY DEF Holds
  <1>0. v = [d \in Convs |-> v[d]] /\ c \in Convs  BY DEF Holds
  <1>2. [r EXCEPT !.rows = s, !.groups = g, !.next = n] = Held(s, g, n, f)
    <2>1. PICK p : p = [r EXCEPT !.rows = s]  OBVIOUS
    <2>2. p = [rows |-> s, groups |-> b, next |-> e, live |-> f]  BY <1>1, <2>1 DEF Held
    <2>3. PICK q : q = [p EXCEPT !.groups = g]  OBVIOUS
    <2>4. q = [rows |-> s, groups |-> g, next |-> e, live |-> f]  BY <2>2, <2>3
    <2>5. PICK t : t = [q EXCEPT !.next = n]  OBVIOUS
    <2>6. t = [rows |-> s, groups |-> g, next |-> n, live |-> f]  BY <2>4, <2>5
    <2>7. t = [r EXCEPT !.rows = s, !.groups = g, !.next = n]  BY <2>1, <2>3, <2>5
    <2> QED  BY <2>6, <2>7 DEF Held
  <1>3. WithThree(v, c, s, g, n) = [v EXCEPT ![c] = [v[c] EXCEPT !.rows = s, !.groups = g, !.next = n]]
      BY <1>0 DEF WithThree
  <1>4. /\ WithLive(v, c, s) = [v EXCEPT ![c] = [v[c] EXCEPT !.live = s]]
        /\ WithNext(v, c, s) = [v EXCEPT ![c] = [v[c] EXCEPT !.next = s]]
        /\ WithRows(v, c, s) = [v EXCEPT ![c] = [v[c] EXCEPT !.rows = s]]
      BY <1>0 DEF WithLive, WithNext, WithRows
  <1>5. /\ [r EXCEPT !.live = s] = Held(a, b, e, s)
        /\ [r EXCEPT !.next = s] = Held(a, b, s, f)
        /\ [r EXCEPT !.rows = s] = Held(s, b, e, f)
      BY <1>1 DEF Held
  <1>6. WithThree(v, c, s, g, n) = [v EXCEPT ![c] = Held(s, g, n, f)]  BY <1>1, <1>2, <1>3
  <1>7. WithLive(v, c, s) = [v EXCEPT ![c] = Held(a, b, e, s)]  BY <1>1, <1>4, <1>5
  <1>8. WithNext(v, c, s) = [v EXCEPT ![c] = Held(a, b, s, f)]  BY <1>1, <1>4, <1>5
  <1>9. WithRows(v, c, s) = [v EXCEPT ![c] = Held(s, b, e, f)]  BY <1>1, <1>4, <1>5
  <1> QED  BY <1>6, <1>7, <1>8, <1>9

\* Sorted rows of a conversation in the place of those it has are a replacement in the single
\* store, and with the live state reset a hydration.
LEMMA StoreReplaces ==
    ASSUME NEW v, NEW w, NEW c, NEW s \in Seq(FeedRows), SortRows(s) = s, NEW rows, NEW gs, NEW next, NEW live, NEW more,
           Holds(v, c, rows, gs, next, live),
           w = [v EXCEPT ![c] = Held(s, BuildActivityGroups(s), NextSequenceNo(s), more)],
           \A r \in Range(s) : r.conv = c
    PROVE  /\ more = "default" => Store!Hydrate(v, w, c, w[c].rows)
           /\ more = live /\ (\A d \in Convs \ {c} : Store!IdsOf(s) \cap Store!IdsOf(v[d].rows) = {})
                => Store!ReplaceConversationEvents(v, w, c, w[c].rows)
  <1>0. v = [d \in Convs |-> v[d]] /\ c \in Convs  BY DEF Holds
  <1>1. PICK own, number : own = BuildActivityGroups(s) /\ number = NextSequenceNo(s)  OBVIOUS
  <1>2. PICK o : o = Held(s, own, number, more)  OBVIOUS
  <1>3. w = [v EXCEPT ![c] = o]  BY <1>1, <1>2
  <1>4. w[c].rows = s
    <2>1. w[c] = o  BY <1>0, <1>3
    <2>2. o.rows = s  BY <1>2 DEF Held
    <2> QED  BY <2>1, <2>2
  <1>5. \A i \in DOMAIN s : s[i] \in FeedRows /\ s[i].conv = c
    <2>1. \A i \in DOMAIN s : s[i] \in FeedRows /\ s[i] \in Range(s)  BY DEF Range
    <2> QED  BY <2>1
  <1>6. PICK u : u = Store!WithEvents(v, c, s)  OBVIOUS
  <1>7. PICK p : p = Held(s, own, number, live)  OBVIOUS
  <1>8. u = [v EXCEPT ![c] = p]
    <2>1. u = WithThree(v, c, s, own, number)  BY <1>1, <1>6, StoreRows DEF Store!WithEvents, WithThree
    <2>2. WithThree(v, c, s, own, number) = [v EXCEPT ![c] = Held(s, own, number, live)]  BY FieldsAt
    <2> QED  BY <1>7, <2>1, <2>2
  <1>9. more = live => w = u  BY <1>2, <1>3, <1>7, <1>8
  <1>10. more = "default" => w = [u EXCEPT ![c].live = "default"]
    <2> SUFFICES ASSUME more = "default" PROVE w = [u EXCEPT ![c].live = "default"]  OBVIOUS
    <2>1. Holds(u, c, s, own, number, live)  BY <1>0, <1>7, <1>8 DEF Holds
    <2>2. WithLive(u, c, more) = [u EXCEPT ![c] = Held(s, own, number, more)]  BY <2>1, FieldsAt
    <2>3. [u EXCEPT ![c] = o] = [v EXCEPT ![c] = o]  BY <1>0, <1>8
    <2> QED  BY <1>2, <1>3, <2>2, <2>3 DEF WithLive
  <1>11. more = "default" => Store!Hydrate(v, w, c, w[c].rows)
      BY <1>4, <1>5, <1>6, <1>10 DEF Store!Hydrate, Store!DefaultLive
  <1>12. more = live /\ (\A d \in Convs \ {c} : Store!IdsOf(s) \cap Store!IdsOf(v[d].rows) = {})
            => Store!ReplaceConversationEvents(v, w, c, w[c].rows)
      BY <1>4, <1>5, <1>6, <1>9 DEF Store!ReplaceConversationEvents
  <1> QED  BY <1>11, <1>12

\* What the single store is between two operations
LEMMA OutcomeAtRest ==
    ASSUME todo = <<>>, NEW c \in Convs
    PROVE  /\ Outcome = [d \in Convs |-> Outcome[d]]
           /\ Outcome[c] = [rows |-> RowsOf(c), groups |-> groups[c], next |-> index[c].next, live |-> index[c].live]
           /\ Outcome[c].rows = RowsOf(c) /\ Outcome[c].groups = groups[c]
           /\ Outcome[c].next = index[c].next /\ Outcome[c].live = index[c].live
           /\ Holds(Outcome, c, RowsOf(c), groups[c], index[c].next, index[c].live)
  <1>1. Outcome = [d \in Convs |-> [rows |-> RowsOf(d), groups |-> groups[d], next |-> index[d].next, live |-> index[d].live]]
      BY NothingDue
  <1>2. PICK v : v = Outcome  OBVIOUS
  <1>3. v = [d \in Convs |-> v[d]]  BY <1>1, <1>2
  <1>4. v[c] = [rows |-> RowsOf(c), groups |-> groups[c], next |-> index[c].next, live |-> index[c].live]  BY <1>1, <1>2
  <1>5. /\ v[c].rows = RowsOf(c) /\ v[c].groups = groups[c] /\ v[c].next = index[c].next /\ v[c].live = index[c].live
      BY <1>4
  <1>6. Holds(v, c, RowsOf(c), groups[c], index[c].next, index[c].live)  BY <1>3, <1>4 DEF Holds, Held
  <1> QED  BY <1>2, <1>3, <1>4, <1>5, <1>6

\* replaceConversationEvents is that of the single store.
LEMMA ReplaceRefines ==
    ASSUME FeedInv, NEW c \in Convs, NEW rows \in Seq(FeedRows), IsInjective(IdSeq(rows)), \A r \in Range(rows) : r.conv = c,
           \A r \in Range(rows), d \in Convs : d # c => r.id \notin Range(index[d].ids),
           Begins(ReplaceSets(c, rows)) \/ Begins(Append(ReplaceSets(c, rows), LiveSet(c, "default")))
    PROVE  Store!StoreNext
  <1>1. PICK e \in Sets, x \in Sets, g \in Sets :
             ReplaceSets(c, rows) = <<e, x, g>> /\ BlockOf(e, x, g, c) /\ x.set = "index" /\ e.new = Range(rows)
      BY ReplaceForm
  <1>2. PICK live \in Sets : live = LiveSet(c, "default") /\ live.set = "live" /\ live.conv = c /\ live.live = "default"
    <2>1. [set |-> "live", conv |-> c, live |-> "default"] \in Sets  BY DEF Sets, LiveSets
    <2> QED  BY <2>1 DEF LiveSet
  <1>3. todo = <<>> /\ UNCHANGED <<events, index, groups>>  BY DEF Begins
  <1>4. PICK s \in Seq(FeedRows) : s = SortRows(rows) /\ SortRows(s) = s /\ Range(s) = Range(rows)
    <2>1. SortRows(rows) \in Seq(FeedRows) /\ Range(SortRows(rows)) = Range(rows)  BY SortKeeps
    <2>2. SortRows(SortRows(rows)) = SortRows(rows)  BY SortAgain
    <2> QED  BY <2>1, <2>2
  <1>5. x.ids = IdSeq(s) /\ x.next = NextSequenceNo(s) /\ g.groups = BuildActivityGroups(s)
    <2>1. PICK ids, next : ids = IdSeq(s) /\ next = NextSequenceNo(s)  OBVIOUS
    <2>2. PICK gs : gs = BuildActivityGroups(rows)  OBVIOUS
    <2>3. x = [set |-> "index", conv |-> c, ids |-> ids, next |-> next] /\ g = [set |-> "groups", conv |-> c, groups |-> gs]
        BY <1>1, <1>4, <2>1, <2>2 DEF ReplaceSets, IndexSet, GroupSet
    <2>4. gs = BuildActivityGroups(s)  BY <1>4, <2>2, SortedGroups
    <2>5. x.ids = ids /\ x.next = next /\ g.groups = gs  BY <2>3
    <2> QED  BY <2>1, <2>4, <2>5
  <1>6. Materialize(x.ids, SetEvents(events, e)) = s
    <2>1. events \in SUBSET FeedRows  BY DEF FeedInv, FeedTyped
    <2>2. e.set = "events"  BY <1>1 DEF BlockOf
    <2> QED  BY <1>1, <1>4, <1>5, <2>1, <2>2, BatchStored
  <1>7. \A n \in e.new, d \in Convs : d # c => n.id \notin Range(index[d].ids)  BY <1>1
  <1>8. PICK v, w, o : v = Outcome /\ w = Outcome' /\ o = Outcome'[c]  OBVIOUS
  <1>9. /\ w = [v EXCEPT ![c] = o]
        /\ o = [rows |-> s, groups |-> BuildActivityGroups(s), next |-> NextSequenceNo(s), live |-> o.live]
        /\ o.live = index[c].live \/ o.live = "default"
    <2>1. CASE Begins(ReplaceSets(c, rows))
      <3>1. PICK sets : sets = <<e, x, g>>  OBVIOUS
      <3>2. PICK N \in {3, 4} : N = 3  OBVIOUS
      <3>3. todo' = sets  BY <1>1, <2>1, <3>1 DEF Begins
      <3>4. /\ sets \in Seq(Sets) /\ DOMAIN sets = 1 .. N /\ sets[1] = e /\ sets[2] = x /\ sets[3] = g
            /\ N = 4 => sets[4].set = "live" /\ sets[4].conv = c
          BY <3>1, <3>2
      <3>8. Blocked(sets, c, e, x, g, N)  BY <1>1, <1>7, <3>4 DEF Blocked
      <3>5. /\ w = [v EXCEPT ![c] = o]
            /\ o = [rows |-> Materialize(x.ids, SetEvents(events, e)), groups |-> g.groups, next |-> x.next, live |-> o.live]
          BY <1>3, <1>8, <3>3, <3>8, BlockOutcome
      <3>6. N = 3 => o.live = IF x.set = "clear" THEN x.live ELSE index[c].live  BY <1>3, <1>8, <3>3, <3>8, BlockOutcome
      <3> QED  BY <1>1, <1>5, <1>6, <3>2, <3>5, <3>6
    <2>2. CASE Begins(Append(ReplaceSets(c, rows), LiveSet(c, "default")))
      <3>1. PICK sets : sets = Append(<<e, x, g>>, live)  OBVIOUS
      <3>2. PICK N \in {3, 4} : N = 4  OBVIOUS
      <3>3. todo' = sets  BY <1>1, <1>2, <2>2, <3>1 DEF Begins
      <3>4. /\ sets \in Seq(Sets) /\ DOMAIN sets = 1 .. N /\ sets[1] = e /\ sets[2] = x /\ sets[3] = g
            /\ N = 4 => sets[4].set = "live" /\ sets[4].conv = c
          BY <1>2, <3>1, <3>2
      <3>8. Blocked(sets, c, e, x, g, N)  BY <1>1, <1>7, <3>4 DEF Blocked
      <3>5. /\ w = [v EXCEPT ![c] = o]
            /\ o = [rows |-> Materialize(x.ids, SetEvents(events, e)), groups |-> g.groups, next |-> x.next, live |-> o.live]
          BY <1>3, <1>8, <3>2, <3>3, <3>8, BlockOutcome
      <3>6. N = 4 => o.live = sets[4].live  BY <1>3, <1>8, <3>3, <3>8, BlockOutcome
      <3>7. sets[4] = live  BY <3>1
      <3> QED  BY <1>2, <1>5, <1>6, <3>2, <3>5, <3>6, <3>7
    <2> QED  BY <2>1, <2>2
  <1>10. Holds(v, c, RowsOf(c), groups[c], index[c].next, index[c].live)  BY <1>3, <1>8, OutcomeAtRest
  <1>11. \A d \in Convs \ {c} : Store!IdsOf(s) \cap Store!IdsOf(v[d].rows) = {}
    <2> SUFFICES ASSUME NEW d \in Convs, d # c, NEW i \in DOMAIN s, NEW j \in DOMAIN v[d].rows, s[i].id = v[d].rows[j].id
                 PROVE FALSE
        BY DEF Store!IdsOf
    <2>1. v[d].rows = RowsOf(d)  BY <1>3, <1>8, OutcomeAtRest
    <2>2. s[i] \in Range(rows)  BY <1>4 DEF Range
    <2>3. RowsOf(d)[j] \in Range(RowsOf(d))  BY <2>1 DEF Range
    <2>4. RowsOf(d)[j].id \in Range(index[d].ids)  BY <2>3, RowsAtRest
    <2> QED  BY <2>1, <2>2, <2>4
  <1>12. Store!Hydrate(v, w, c, w[c].rows) \/ Store!ReplaceConversationEvents(v, w, c, w[c].rows)
    <2>1. PICK more : more = o.live  OBVIOUS
    <2>2. w = [v EXCEPT ![c] = Held(s, BuildActivityGroups(s), NextSequenceNo(s), more)]  BY <1>9, <2>1 DEF Held
    <2>3. more = index[c].live \/ more = "default"  BY <1>9, <2>1
    <2>4. \A r \in Range(s) : r.conv = c  BY <1>4
    <2>5. more = "default" => Store!Hydrate(v, w, c, w[c].rows)  BY <1>4, <1>10, <2>2, <2>4, StoreReplaces
    <2>6. more = index[c].live => Store!ReplaceConversationEvents(v, w, c, w[c].rows)
        BY <1>4, <1>10, <1>11, <2>2, <2>4, StoreReplaces
    <2> QED  BY <2>3, <2>5, <2>6
  <1> QED  BY <1>8, <1>12 DEF Store!StoreNext

-----------------------------------------------------------------------------
(* One operation of the pipeline after the other *)

\* Rows of a history replace those of a conversation.
LEMMA ReplaceSteps == ASSUME FeedInv, ReplaceConversation PROVE Store!StoreNext
  <1>0. PICK c \in Convs : \E rows \in Batches(c) :
            IsInjective(IdSeq(rows)) /\ Range(IdSeq(rows)) \cap Foreign(c) = {} /\ Begins(ReplaceSets(c, rows))
      BY DEF ReplaceConversation
  <1>1. PICK rows \in Batches(c) :
            IsInjective(IdSeq(rows)) /\ Range(IdSeq(rows)) \cap Foreign(c) = {} /\ Begins(ReplaceSets(c, rows))
      BY <1>0
  <1>2. rows \in Seq(FeedRows) /\ \A r \in Range(rows) : r.conv = c  BY BatchRows
  <1>3. \A r \in Range(rows), d \in Convs : d # c => r.id \notin Range(index[d].ids)  BY <1>1, <1>2, NotForeign
  <1> QED  BY <1>1, <1>2, <1>3, ReplaceRefines

\* They do, and the live state is reset.
LEMMA HydrateSteps == ASSUME FeedInv, HydrateConversation PROVE Store!StoreNext
  <1>0. PICK c \in Convs : \E rows \in Batches(c) :
            /\ IsInjective(IdSeq(rows)) /\ Range(IdSeq(rows)) \cap Foreign(c) = {}
            /\ Begins(Append(ReplaceSets(c, rows), LiveSet(c, "default")))
      BY DEF HydrateConversation
  <1>1. PICK rows \in Batches(c) :
            /\ IsInjective(IdSeq(rows)) /\ Range(IdSeq(rows)) \cap Foreign(c) = {}
            /\ Begins(Append(ReplaceSets(c, rows), LiveSet(c, "default")))
      BY <1>0
  <1>2. rows \in Seq(FeedRows) /\ \A r \in Range(rows) : r.conv = c  BY BatchRows
  <1>3. \A r \in Range(rows), d \in Convs : d # c => r.id \notin Range(index[d].ids)  BY <1>1, <1>2, NotForeign
  <1> QED  BY <1>1, <1>2, <1>3, ReplaceRefines

\* A row added, or put in the place of the one with its id
LEMMA InsertSteps ==
    ASSUME FeedInv, todo = <<>>, NEW r \in FeedRows, \A d \in Convs : d # r.conv => r.id \notin Range(index[d].ids),
           Begins(ReplaceSets(r.conv, Append(Without(RowsOf(r.conv), r.id), r)))
    PROVE  Store!StoreNext
  <1>1. PICK c \in Convs : c = r.conv  BY FeedRowsAssumption
  <1>2. /\ RowsOf(c) \in Seq(FeedRows) /\ IsInjective(IdSeq(RowsOf(c)))
        /\ \A q \in Range(RowsOf(c)) : q.id \in Range(index[c].ids) /\ q.conv = c
      BY RowsAtRest
  <1>3. PICK rows \in Seq(FeedRows) :
            /\ rows = Append(Without(RowsOf(c), r.id), r) /\ IsInjective(IdSeq(rows))
            /\ Range(rows) = {q \in Range(RowsOf(c)) : q.id # r.id} \cup {r}
    <2>1. /\ Append(Without(RowsOf(c), r.id), r) \in Seq(FeedRows)
          /\ IsInjective(IdSeq(Append(Without(RowsOf(c), r.id), r)))
          /\ Range(Append(Without(RowsOf(c), r.id), r)) = {q \in Range(RowsOf(c)) : q.id # r.id} \cup {r}
        BY <1>2, RowsWith
    <2> QED  BY <2>1
  <1>4. \A q \in Range(rows) : q.conv = c  BY <1>1, <1>2, <1>3
  <1>5. \A d \in Convs : d # c => Range(index[c].ids) \cap Range(index[d].ids) = {}  BY AtRest
  <1>6. \A q \in Range(rows), d \in Convs : d # c => q.id \notin Range(index[d].ids)  BY <1>1, <1>2, <1>3, <1>5
  <1>7. Begins(ReplaceSets(c, rows))  BY <1>1, <1>3
  <1> QED  BY <1>3, <1>4, <1>6, <1>7, ReplaceRefines

\* A row that no other conversation has is added or replaced.
LEMMA UpsertSteps == ASSUME FeedInv, UpsertConversation PROVE Store!StoreNext
  <1>1. PICK r \in FeedRows :
            r.id \notin Foreign(r.conv) /\ Begins(ReplaceSets(r.conv, Append(Without(RowsOf(r.conv), r.id), r)))
      BY DEF UpsertConversation
  <1>2. todo = <<>>  BY <1>1 DEF Begins
  <1>3. \A d \in Convs : d # r.conv => r.id \notin Range(index[d].ids)  BY <1>1 DEF Foreign
  <1> QED  BY <1>1, <1>2, <1>3, InsertSteps

\* Everything of a conversation goes.
LEMMA ClearSteps == ASSUME FeedInv, ClearConversationPipeline PROVE Store!StoreNext
  <1>1. PICK c \in Convs : Begins(<<EventSet(Range(index[c].ids), {}), ClearIndex(c), GroupSet(c, <<>>)>>)
      BY DEF ClearConversationPipeline
  <1>2. todo = <<>> /\ UNCHANGED <<events, index, groups>>  BY <1>1 DEF Begins
  <1>3. PICK gone \in SUBSET Nat : gone = Range(index[c].ids)  BY <1>2, AtRest
  <1>4. PICK e \in Sets : e = [set |-> "events", gone |-> gone, new |-> {}]  BY DEF Sets, EventSets
  <1>5. PICK x \in Sets : x = [set |-> "clear", conv |-> c, ids |-> <<>>, next |-> Scale, live |-> "default"]
      BY DEF Sets, ClearSets
  <1>6. PICK g \in Sets : g = [set |-> "groups", conv |-> c, groups |-> <<>>]
    <2>1. <<>> \in Seq(Seq(Nat))  OBVIOUS
    <2> QED  BY <2>1 DEF Sets, GroupSets
  <1>7. PICK sets : sets = <<e, x, g>>  OBVIOUS
  <1>8. todo' = sets  BY <1>1, <1>3, <1>4, <1>5, <1>6, <1>7 DEF Begins, EventSet, ClearIndex, EmptyIndex, GroupSet
  <1>9. BlockOf(e, x, g, c) /\ e.new = {}
    <2>1. GroupIds(<<>>) = {}  BY DEF GroupIds
    <2> QED  BY <1>3, <1>4, <1>5, <1>6, <2>1 DEF BlockOf, UniqueIds
  <1>10. PICK N \in {3, 4} : N = 3  OBVIOUS
  <1>11. Blocked(sets, c, e, x, g, N)
    <2>1. sets \in Seq(Sets) /\ DOMAIN sets = 1 .. N /\ sets[1] = e /\ sets[2] = x /\ sets[3] = g  BY <1>7, <1>10
    <2> QED  BY <1>9, <1>10, <2>1 DEF Blocked
  <1>12. PICK v, w, o : v = Outcome /\ w = Outcome' /\ o = Outcome'[c]  OBVIOUS
  <1>13. /\ w = [v EXCEPT ![c] = o]
         /\ o = [rows |-> Materialize(x.ids, SetEvents(events, e)), groups |-> g.groups, next |-> x.next, live |-> o.live]
      BY <1>2, <1>8, <1>11, <1>12, BlockOutcome
  <1>14. N = 3 => o.live = IF x.set = "clear" THEN x.live ELSE index[c].live  BY <1>2, <1>8, <1>11, <1>12, BlockOutcome
  <1>15. Materialize(x.ids, SetEvents(events, e)) = <<>>
    <2>1. PICK held : held = SetEvents(events, e)  OBVIOUS
    <2>2. PICK set : set = {r.id : r \in held}  OBVIOUS
    <2>3. Only(<<>>, set) = <<>>
      <3>1. <<>> \in Seq(Nat) /\ Range(<<>>) \subseteq set  BY DEF Range
      <3> QED  BY <3>1, OnlyAll
    <2>4. PICK found : found = Only(<<>>, set)  OBVIOUS
    <2>5. Materialize(<<>>, held) = [i \in DOMAIN found |-> CHOOSE r \in held : r.id = found[i]]  BY <2>2, <2>4 DEF Materialize
    <2>6. DOMAIN found = {}  BY <2>3, <2>4
    <2>7. Materialize(<<>>, held) = <<>>  BY <2>5, <2>6
    <2> QED  BY <1>5, <2>1, <2>7
  <1>16. o = Store!EmptyConversation
    <2>1. Store!Scale = Scale  BY DEF Store!Scale, Scale
    <2>2. o = [rows |-> <<>>, groups |-> <<>>, next |-> Scale, live |-> "default"]
      <3>1. x.next = Scale /\ x.live = "default" /\ x.set = "clear" /\ g.groups = <<>>  BY <1>5, <1>6
      <3>2. o.live = "default"  BY <1>10, <1>14, <3>1
      <3> QED  BY <1>13, <1>15, <3>1, <3>2
    <2> QED  BY <2>1, <2>2 DEF Store!EmptyConversation, Store!DefaultLive
  <1>17. Store!ClearConversation(v, w, c)  BY <1>13, <1>16 DEF Store!ClearConversation
  <1> QED  BY <1>12, <1>17 DEF Store!StoreNext

\* What the single store is after a step that leaves nothing due
LEMMA OutcomeStays ==
    ASSUME todo' = <<>>
    PROVE  Outcome' = [c \in Convs |-> [rows |-> Materialize(index'[c].ids, events'), groups |-> groups'[c],
                                        next |-> index'[c].next, live |-> index'[c].live]]
  <1>1. RowsAfter' = events'
    <2>1. \A r, k : Stays(r, k)'  BY DEF Stays
    <2> QED  BY <2>1 DEF RowsAfter
  <1>2. \A K, c : Waits(K, c)' = {}  BY DEF Waits
  <1>3. \A c : /\ Latest({"index", "clear"}, c, index[c])' = index'[c]
               /\ Latest({"live", "clear"}, c, index[c])' = index'[c]
               /\ Latest({"groups"}, c, [groups |-> groups[c]])' = [groups |-> groups'[c]]
      BY <1>2 DEF Latest
  <1>4. \A c : [groups |-> groups'[c]].groups = groups'[c]  OBVIOUS
  <1> QED  BY <1>1, <1>3, <1>4 DEF Outcome

\* An operation that only changes one field of a conversation
LEMMA FieldSteps ==
    ASSUME FeedInv, todo = <<>>, UNCHANGED <<events, groups, todo>>, NEW c \in Convs, NEW next, NEW live,
           \A d \in Convs \ {c} : index'[d] = index[d],
           index'[c].ids = index[c].ids, index'[c].next = next, index'[c].live = live
    PROVE  Outcome' = [Outcome EXCEPT ![c] = Held(RowsOf(c), groups[c], next, live)]
  <1>1. PICK v, w : v = Outcome /\ w = Outcome'  OBVIOUS
  <1>2. w = [d \in Convs |-> [rows |-> Materialize(index'[d].ids, events'), groups |-> groups'[d],
                              next |-> index'[d].next, live |-> index'[d].live]]
      BY <1>1, OutcomeStays
  <1>3. v = [d \in Convs |-> [rows |-> RowsOf(d), groups |-> groups[d], next |-> index[d].next, live |-> index[d].live]]
      BY <1>1, NothingDue
  <1>4. w[c] = Held(RowsOf(c), groups[c], next, live)  BY <1>2 DEF Held, RowsOf
  <1>5. \A d \in Convs \ {c} : w[d] = v[d]  BY <1>2, <1>3 DEF RowsOf
  <1>6. w = [d \in Convs |-> w[d]] /\ v = [d \in Convs |-> v[d]]  BY <1>2, <1>3
  <1>7. PICK o : o = Held(RowsOf(c), groups[c], next, live)  OBVIOUS
  <1>8. w = [v EXCEPT ![c] = o]  BY <1>4, <1>5, <1>6, <1>7
  <1> QED  BY <1>1, <1>7, <1>8

\* The larger of two numbers, and of it and one of them
LEMMA LargestOf ==
    ASSUME NEW a \in Nat, NEW b \in Nat
    PROVE  Max({a, b}) \in Nat /\ Max({a, Max({a, b})}) = Max({a, b})
  <1>1. ASSUME NEW x \in Nat, NEW y \in Nat PROVE Max({x, y}) \in {x, y} /\ x <= Max({x, y}) /\ y <= Max({x, y})
    <2>1. PICK S \in SUBSET Nat : S = {x, y}  OBVIOUS
    <2>2. IsFiniteSet({x, y})
      <3>1. IsFiniteSet({x})  BY FS_Singleton
      <3>2. IsFiniteSet({x} \cup {y})  BY <3>1, FS_AddElement
      <3>3. {x} \cup {y} = {x, y}  OBVIOUS
      <3> QED  BY <3>2, <3>3
    <2> QED  BY <2>1, <2>2, MaxOf
  <1>2. PICK m \in Nat : m = Max({a, b}) /\ a <= m  BY <1>1
  <1>3. PICK n : n = Max({a, m}) /\ n \in {a, m} /\ m <= n  BY <1>1
  <1>4. n = m  BY <1>2, <1>3
  <1> QED  BY <1>2, <1>3, <1>4

\* The next number of a conversation is taken, or one given is passed.
LEMMA ReserveSteps == ASSUME FeedInv, ReserveSequence PROVE Store!StoreNext
  <1>1. PICK c \in Convs, requested \in {0} \cup {r.seq : r \in FeedRows} :
            index' = [index EXCEPT ![c].next = IF requested = 0 THEN @ + Scale
                                               ELSE Max({@, (requested \div Scale + 1) * Scale})]
      BY DEF ReserveSequence
  <1>2. requested \in Nat  BY FeedRowsAssumption
  <1>3. index \in [Convs -> Index] /\ index[c].next \in Nat  BY DEF FeedInv, FeedTyped, Index
  <1>4. PICK above \in Nat : above = (requested \div Scale + 1) * Scale
    <2>1. Scale = 1000  BY DEF Scale
    <2>2. (requested \div 1000 + 1) * 1000 \in Nat  BY <1>2
    <2> QED  BY <2>1, <2>2
  <1>5. PICK was \in Nat : was = index[c].next  BY <1>3
  <1>6. PICK next : next = IF requested = 0 THEN was + Scale ELSE Max({was, above})  OBVIOUS
  <1>7. index' = [index EXCEPT ![c].next = next]  BY <1>1, <1>4, <1>5, <1>6
  <1>8. /\ \A d \in Convs \ {c} : index'[d] = index[d]
        /\ index'[c].ids = index[c].ids /\ index'[c].next = next /\ index'[c].live = index[c].live
      BY <1>3, <1>7 DEF Index
  <1>9. todo = <<>> /\ UNCHANGED <<events, groups, todo>>  BY DEF ReserveSequence
  <1>10. PICK v, w, live : v = Outcome /\ w = Outcome' /\ live = index[c].live  OBVIOUS
  <1>11. w = [v EXCEPT ![c] = Held(RowsOf(c), groups[c], next, live)]  BY <1>8, <1>9, <1>10, FieldSteps
  <1>12. Holds(v, c, RowsOf(c), groups[c], was, live)  BY <1>5, <1>9, <1>10, OutcomeAtRest
  <1>13. w = WithNext(v, c, next)  BY <1>11, <1>12, FieldsAt
  <1>14. v[c].next = was /\ w[c].next = next
    <2>1. w[c] = Held(RowsOf(c), groups[c], next, live)  BY <1>11, <1>12 DEF Holds
    <2>2. v[c] = Held(RowsOf(c), groups[c], was, live)  BY <1>12 DEF Holds
    <2> QED  BY <2>1, <2>2 DEF Held
  <1>15. v = [d \in Convs |-> v[d]]  BY <1>12 DEF Holds
  <1>16. CASE requested = 0
    <2>1. next = was + Scale /\ Store!Scale = Scale  BY <1>6, <1>16 DEF Store!Scale, Scale
    <2>2. w = [v EXCEPT ![c].next = v[c].next + Store!Scale]  BY <1>13, <1>14, <2>1 DEF WithNext
    <2>3. [v EXCEPT ![c].next = v[c].next + Store!Scale] = [v EXCEPT ![c].next = @ + Store!Scale]  BY <1>15
    <2>4. Store!ReserveSequenceNo(v, w, c)  BY <2>2, <2>3 DEF Store!ReserveSequenceNo
    <2> QED  BY <1>10, <2>4 DEF Store!StoreNext
  <1>17. CASE requested # 0
    <2>1. next = Max({was, above})  BY <1>6, <1>17
    <2>2. next = Max({was, next})  BY <1>4, <1>5, <2>1, LargestOf
    <2>3. Store!Max({was, next}) = Max({was, next})  BY DEF Store!Max, Max
    <2>4. w = [v EXCEPT ![c].next = Store!Max({v[c].next, w[c].next})]  BY <1>13, <1>14, <2>2, <2>3 DEF WithNext
    <2>5. [v EXCEPT ![c].next = Store!Max({v[c].next, w[c].next})] = [v EXCEPT ![c].next = Store!Max({@, w[c].next})]
        BY <1>15
    <2>6. Store!ReserveRequestedNo(v, w, c, w[c].next)  BY <2>4, <2>5 DEF Store!ReserveRequestedNo
    <2> QED  BY <1>10, <2>6 DEF Store!StoreNext
  <1> QED  BY <1>16, <1>17

\* The live state of a conversation changes.
LEMMA LiveSteps == ASSUME FeedInv, UpdateLive PROVE Store!StoreNext
  <1>1. PICK c \in Convs, live \in {"default", "draft"} : index' = [index EXCEPT ![c].live = live]  BY DEF UpdateLive
  <1>2. index \in [Convs -> Index]  BY DEF FeedInv, FeedTyped
  <1>3. /\ \A d \in Convs \ {c} : index'[d] = index[d]
        /\ index'[c].ids = index[c].ids /\ index'[c].next = index[c].next /\ index'[c].live = live
      BY <1>1, <1>2 DEF Index
  <1>4. todo = <<>> /\ UNCHANGED <<events, groups, todo>>  BY DEF UpdateLive
  <1>5. PICK v, w, next : v = Outcome /\ w = Outcome' /\ next = index[c].next  OBVIOUS
  <1>6. w = [v EXCEPT ![c] = Held(RowsOf(c), groups[c], next, live)]  BY <1>3, <1>4, <1>5, FieldSteps
  <1>7. Holds(v, c, RowsOf(c), groups[c], next, index[c].live)  BY <1>4, <1>5, OutcomeAtRest
  <1>8. w = WithLive(v, c, live)  BY <1>6, <1>7, FieldsAt
  <1>9. w[c].live = live
    <2>1. w[c] = Held(RowsOf(c), groups[c], next, live)  BY <1>6, <1>7 DEF Holds
    <2> QED  BY <2>1 DEF Held
  <1>10. Store!UpdateLiveState(v, w, c, w[c].live)  BY <1>8, <1>9 DEF Store!UpdateLiveState, WithLive
  <1> QED  BY <1>5, <1>10 DEF Store!StoreNext

\* Rows of a conversation that only say something else
LEMMA RewordSteps ==
    ASSUME FeedInv, todo = <<>>, UNCHANGED <<events, index, groups>>, NEW c \in Convs,
           NEW new \in SUBSET FeedRows, UniqueIds(new), todo' = <<EventSet({}, new)>>,
           \A n \in new : \E r \in Range(RowsOf(c)) : r.id = n.id /\ ~EventAffectsStructure(r, n)
    PROVE  Store!StoreNext
  <1>1. PICK e \in Sets : e.set = "events" /\ e.gone = {} /\ e.new = new /\ todo' = <<e>>
      BY DEF EventSet, EventSets, Sets
  <1>2. PICK sets \in Seq(Sets) : sets = <<e>> /\ todo' = sets /\ DOMAIN sets = {1} /\ sets[1] = e
    <2>1. PICK sets : sets = <<e>>  OBVIOUS
    <2>2. sets \in Seq(Sets) /\ Len(sets) = 1 /\ sets[1] = e /\ DOMAIN sets = 1 .. 1  BY <2>1
    <2>3. todo' = sets  BY <1>1, <2>1
    <2>4. 1 .. 1 = {1}  OBVIOUS
    <2>5. DOMAIN sets = {1}  BY <2>2, <2>4
    <2> QED  BY <2>1, <2>2, <2>3, <2>5
  <1>3. PICK held : held = RowsAfter'  OBVIOUS
  <1>4. held = SetEvents(events, e)  BY <1>1, <1>2, <1>3, RowsNext
  <1>5. events \in SUBSET FeedRows /\ UniqueIds(events) /\ index[c].ids \in Seq(Nat) /\ IsInjective(index[c].ids)
      BY DEF FeedInv, FeedTyped, Stored, Index
  <1>6. held \in SUBSET FeedRows  BY <1>1, <1>4, <1>5, SetRows
  <1>7. /\ RowsOf(c) \in Seq(FeedRows) /\ IsInjective(IdSeq(RowsOf(c)))
        /\ \A r \in Range(RowsOf(c)) : r \in events /\ r.id \in Range(index[c].ids)
      BY RowsAtRest
  <1>8. PICK rows \in Seq(FeedRows) : rows = RowsOf(c)  BY <1>7
  <1>9. PICK more \in Seq(FeedRows) : more = Materialize(index[c].ids, held)  BY <1>5, <1>6, MaterializeRows
  <1>10. \A id : (\E r \in held : r.id = id) <=> (\E r \in events : r.id = id)
    <2>1. \A n \in new : \E r \in events : r.id = n.id  BY <1>7
    <2>2. \A r : r \in held <=> (r \in events /\ ~\E n \in new : n.id = r.id) \/ r \in new
        BY <1>1, <1>4 DEF SetEvents, Touched
    <2> QED  BY <2>1, <2>2
  <1>11. IdSeq(more) = IdSeq(rows)
    <2>1. PICK set, other : set = {r.id : r \in held} /\ other = {r.id : r \in events}  OBVIOUS
    <2>2. set = other
      <3>1. \A id : id \in set <=> \E r \in held : r.id = id  BY <2>1
      <3>2. \A id : id \in other <=> \E r \in events : r.id = id  BY <2>1
      <3> QED  BY <1>10, <3>1, <3>2
    <2>3. IdSeq(more) = Only(index[c].ids, set)  BY <1>5, <1>6, <1>9, <2>1, MaterializeIds
    <2>4. IdSeq(rows) = Only(index[c].ids, other)  BY <1>5, <1>8, <2>1, MaterializeIds DEF RowsOf
    <2> QED  BY <2>2, <2>3, <2>4
  <1>12. DOMAIN more = DOMAIN rows /\ Len(more) = Len(rows) /\ \A i \in DOMAIN rows : more[i].id = rows[i].id
    <2>1. DOMAIN IdSeq(more) = DOMAIN more /\ DOMAIN IdSeq(rows) = DOMAIN rows  BY DEF IdSeq
    <2>2. \A i \in DOMAIN more : IdSeq(more)[i] = more[i].id  BY DEF IdSeq
    <2>3. \A i \in DOMAIN rows : IdSeq(rows)[i] = rows[i].id  BY DEF IdSeq
    <2>4. DOMAIN more = DOMAIN rows  BY <1>11, <2>1
    <2>5. Len(more) = Len(rows)
      <3>1. Len(IdSeq(more)) = Len(more) /\ Len(IdSeq(rows)) = Len(rows)  BY IdsOfRows
      <3> QED  BY <1>11, <3>1
    <2> QED  BY <1>11, <2>2, <2>3, <2>4, <2>5
  <1>13. ASSUME NEW i \in DOMAIN rows PROVE more[i] \in FeedRows /\ ~Store!AffectsStructure(rows[i], more[i])
    <2>1. more[i] \in Range(more) /\ rows[i] \in Range(rows)  BY <1>12 DEF Range
    <2>2. more[i] \in held /\ rows[i] \in events  BY <1>5, <1>6, <1>7, <1>8, <1>9, <2>1, MaterializeRows
    <2>3. ~EventAffectsStructure(rows[i], more[i])
      <3>1. CASE more[i] \in new
        <4>1. PICK r \in Range(rows) : r.id = more[i].id /\ ~EventAffectsStructure(r, more[i])  BY <1>8, <3>1
        <4>2. r = rows[i]  BY <1>5, <1>7, <1>8, <1>12, <2>2, <4>1 DEF UniqueIds
        <4> QED  BY <4>1, <4>2
      <3>2. CASE more[i] \notin new
        <4>1. more[i] \in events  BY <1>1, <1>4, <2>2, <3>2 DEF SetEvents
        <4>2. more[i] = rows[i]  BY <1>5, <1>12, <2>2, <4>1 DEF UniqueIds
        <4> QED  BY <4>2 DEF EventAffectsStructure
      <3> QED  BY <3>1, <3>2
    <2> QED  BY <1>6, <1>12, <2>2, <2>3 DEF Store!AffectsStructure, EventAffectsStructure
  <1>14. \A K, d : "events" \notin K => NoneFor(sets, K, d)  BY <1>1, <1>2 DEF NoneFor
  <1>15. ASSUME NEW d \in Convs
         PROVE  Outcome'[d] = Held(Materialize(index[d].ids, held), groups[d], index[d].next, index[d].live)
    <2>1. NoneFor(sets, {"index", "clear"}, d) /\ NoneFor(sets, {"groups"}, d) /\ NoneFor(sets, {"live", "clear"}, d)
        BY <1>14
    <2>2. PICK o : o = Outcome'[d]  OBVIOUS
    <2>3. sets \in Seq(Sets) /\ todo' = sets /\ UNCHANGED <<index, groups>>  BY <1>2
    <2>4. /\ o = [rows |-> o.rows, groups |-> o.groups, next |-> o.next, live |-> o.live]
          /\ o.rows = Materialize(index[d].ids, held) /\ o.next = index[d].next
        BY <1>3, <2>1, <2>2, <2>3, OutcomeNext
    <2>5. o.groups = groups[d]  BY <1>3, <2>1, <2>2, <2>3, OutcomeNext
    <2>6. o.live = index[d].live  BY <1>3, <2>1, <2>2, <2>3, OutcomeNext
    <2> QED  BY <2>2, <2>4, <2>5, <2>6 DEF Held
  <1>16. PICK v, w, next, live : v = Outcome /\ w = Outcome' /\ next = index[c].next /\ live = index[c].live  OBVIOUS
  <1>17. w[c] = Held(more, groups[c], next, live)  BY <1>9, <1>15, <1>16
  <1>18. ASSUME NEW d \in Convs, d # c PROVE w[d] = v[d]
    <2>1. \A r : r.id \in Range(index[d].ids) => (r \in held <=> r \in events)
      <3>1. Range(index[c].ids) \cap Range(index[d].ids) = {}  BY <1>18, AtRest
      <3>2. \A n \in new : n.id \notin Range(index[d].ids)  BY <1>7, <3>1
      <3>3. \A r : r.id \in Range(index[d].ids) => r.id \notin Touched(e)  BY <1>1, <3>2 DEF Touched
      <3> QED  BY <1>1, <1>4, <3>2, <3>3 DEF SetEvents
    <2>2. Materialize(index[d].ids, held) = RowsOf(d)  BY <1>6, <2>1, RowsApart
    <2>3. v[d] = Held(RowsOf(d), groups[d], index[d].next, index[d].live)  BY <1>16, OutcomeAtRest DEF Held
    <2> QED  BY <1>15, <1>16, <2>2, <2>3
  <1>19. Holds(v, c, rows, groups[c], next, live)  BY <1>8, <1>16, OutcomeAtRest
  <1>20. w = WithRows(v, c, more)
    <2>1. w = [d \in Convs |-> w[d]]  BY <1>16 DEF Outcome
    <2>2. v = [d \in Convs |-> v[d]]  BY <1>19 DEF Holds
    <2>3. w = [v EXCEPT ![c] = Held(more, groups[c], next, live)]
      <3>1. PICK o : o = Held(more, groups[c], next, live)  OBVIOUS
      <3>2. w = [v EXCEPT ![c] = o]  BY <1>17, <1>18, <2>1, <2>2, <3>1
      <3> QED  BY <3>1, <3>2
    <2> QED  BY <1>19, <2>3, FieldsAt
  <1>21. w[c].rows = more /\ v[c].rows = rows  BY <1>17, <1>19 DEF Holds, Held
  <1>22. Store!UpsertEvents(v, w, c, w[c].rows)  BY <1>12, <1>13, <1>20, <1>21 DEF Store!UpsertEvents, WithRows
  <1> QED  BY <1>16, <1>22 DEF Store!StoreNext

\* What the sets that replace the rows of a conversation give it
LEMMA BlockGives ==
    ASSUME NEW c, NEW rows \in Seq(FeedRows), NEW e, NEW x, NEW g, ReplaceSets(c, rows) = <<e, x, g>>,
           NEW s, s = SortRows(rows)
    PROVE  /\ x.ids = IdSeq(s) /\ x.next = NextSequenceNo(s) /\ g.groups = BuildActivityGroups(s)
           /\ NextSequenceNo(s) = NextSequenceNo(rows) /\ BuildActivityGroups(s) = BuildActivityGroups(rows)
  <1>1. PICK ids, next : ids = IdSeq(s) /\ next = NextSequenceNo(s)  OBVIOUS
  <1>2. PICK gs : gs = BuildActivityGroups(rows)  OBVIOUS
  <1>3. x = [set |-> "index", conv |-> c, ids |-> ids, next |-> next] /\ g = [set |-> "groups", conv |-> c, groups |-> gs]
      BY <1>1, <1>2 DEF ReplaceSets, IndexSet, GroupSet
  <1>4. gs = BuildActivityGroups(s)  BY <1>2, SortedGroups
  <1>5. x.ids = ids /\ x.next = next /\ g.groups = gs  BY <1>3
  <1> QED  BY <1>1, <1>2, <1>4, <1>5, NextNumberSorted

\* A change of what waiting approvals say is upsertEvents of the single store.
LEMMA SyncSteps == ASSUME FeedInv, SyncPendingApprovals PROVE Store!StoreNext
  <1>1. PICK c \in Convs, waiting \in SUBSET FeedRows :
            /\ \A w \in waiting : \E r \in ToSet(RowsOf(c)) : w.id = r.id /\ ~EventAffectsStructure(r, w)
            /\ UniqueIds(waiting) /\ Begins(<<EventSet({}, waiting)>>)
      BY DEF SyncPendingApprovals, UniqueIds
  <1>2. ToSet(RowsOf(c)) = Range(RowsOf(c))  BY DEF ToSet, Range
  <1>3. todo = <<>> /\ todo' = <<EventSet({}, waiting)>> /\ UNCHANGED <<events, index, groups>>
      BY <1>1 DEF Begins
  <1>4. \A n \in waiting : \E r \in Range(RowsOf(c)) : r.id = n.id /\ ~EventAffectsStructure(r, n)  BY <1>1, <1>2
  <1> QED  BY <1>1, <1>3, <1>4, RewordSteps

\* The rows that two sets of the event store will leave
LEMMA RowsNextTwo ==
    ASSUME NEW sets \in Seq(Sets), todo' = sets, UNCHANGED events, DOMAIN sets = 1 .. 6,
           \A k \in DOMAIN sets : sets[k].set = "events" <=> k \in {1, 4}
    PROVE  RowsAfter' = SetEvents(SetEvents(events, sets[1]), sets[4])
  <1>0. 1 \in DOMAIN sets /\ 4 \in DOMAIN sets /\ DOMAIN sets \subseteq Nat  OBVIOUS
  <1>1. \A r, k : Stays(r, k)' <=> \A l \in DOMAIN sets : l > k /\ sets[l].set = "events" => r.id \notin Touched(sets[l])
      BY DEF Stays
  <1>2. \A r : Stays(r, 0)' <=> r.id \notin Touched(sets[1]) /\ r.id \notin Touched(sets[4])  BY <1>0, <1>1
  <1>3. \A r : Stays(r, 1)' <=> r.id \notin Touched(sets[4])  BY <1>0, <1>1
  <1>4. \A r : Stays(r, 4)'  BY <1>0, <1>1
  <1>5. \A r : r \in RowsAfter' <=>
             \/ r \in events /\ Stays(r, 0)'
             \/ \E k \in DOMAIN sets : sets[k].set = "events" /\ r \in sets[k].new /\ Stays(r, k)'
      BY DEF RowsAfter
  <1>6. \A r : r \in RowsAfter' <=>
             \/ r \in events /\ r.id \notin Touched(sets[1]) /\ r.id \notin Touched(sets[4])
             \/ r \in sets[1].new /\ r.id \notin Touched(sets[4])
             \/ r \in sets[4].new
      BY <1>0, <1>2, <1>3, <1>4, <1>5
  <1> QED  BY <1>6 DEF SetEvents

\* Six sets that take a row from the rows of c and give it to those of d
Crossing(sets, c, d, id, rest, rows) ==
    /\ c \in Convs /\ d \in Convs /\ c # d /\ id \in Range(index[c].ids) /\ sets \in Seq(Sets) /\ DOMAIN sets = 1 .. 6
    /\ sets[1].set = "events" /\ sets[1].gone = Range(index[c].ids) /\ sets[1].new = Range(rest)
    /\ sets[2].set = "index" /\ sets[2].conv = c /\ sets[3].set = "groups" /\ sets[3].conv = c
    /\ sets[4].set = "events" /\ sets[4].gone = Range(index[d].ids) /\ sets[4].new = Range(rows)
    /\ sets[5].set = "index" /\ sets[5].conv = d /\ sets[6].set = "groups" /\ sets[6].conv = d
    /\ rest \in Seq(FeedRows) /\ IsInjective(IdSeq(rest)) /\ \A n \in Range(rest) : n.id \in Range(index[c].ids) /\ n.id # id
    /\ rows \in Seq(FeedRows) /\ IsInjective(IdSeq(rows)) /\ \A n \in Range(rows) : n.id \in Range(index[d].ids) \/ n.id = id

\* They leave those rows to the two conversations, and to the others what they had.
LEMMA CrossingRows ==
    ASSUME FeedInv, todo = <<>>, NEW sets, NEW c, NEW d, NEW id, NEW rest, NEW rows, Crossing(sets, c, d, id, rest, rows),
           NEW held, held = SetEvents(SetEvents(events, sets[1]), sets[4])
    PROVE  /\ held \in SUBSET FeedRows
           /\ Materialize(IdSeq(SortRows(rest)), held) = SortRows(rest)
           /\ Materialize(IdSeq(SortRows(rows)), held) = SortRows(rows)
           /\ \A b \in Convs \ {c, d} : Materialize(index[b].ids, held) = RowsOf(b)
  <1> USE DEF Crossing
  <1>1. PICK e \in Sets, f \in Sets : e = sets[1] /\ f = sets[4]
    <2>1. 1 \in DOMAIN sets /\ 4 \in DOMAIN sets  OBVIOUS
    <2>2. sets \in Seq(Sets)  OBVIOUS
    <2> HIDE DEF Crossing
    <2>3. sets[1] \in Sets /\ sets[4] \in Sets  BY <2>1, <2>2
    <2> QED  BY <2>3
  <1>2. /\ e.set = "events" /\ e.gone = Range(index[c].ids) /\ e.new = Range(rest)
        /\ f.set = "events" /\ f.gone = Range(index[d].ids) /\ f.new = Range(rows)
      BY <1>1
  <1>3. events \in SUBSET FeedRows  BY DEF FeedInv, FeedTyped
  <1>4. PICK kept \in SUBSET FeedRows : kept = SetEvents(events, e)  BY <1>2, <1>3, SetRows
  <1>5. held \in SUBSET FeedRows  BY <1>1, <1>2, <1>4, SetRows
  <1>6. \A b1, b2 \in Convs : b1 # b2 => Range(index[b1].ids) \cap Range(index[b2].ids) = {}  BY AtRest
  <1>7. \A r : r \in held <=> (r \in kept /\ r.id \notin Touched(f)) \/ r \in f.new  BY <1>1, <1>4 DEF SetEvents
  <1>8. \A r : r \in kept <=> (r \in events /\ r.id \notin Touched(e)) \/ r \in e.new  BY <1>4 DEF SetEvents
  <1>9. /\ \A r : r.id \in Touched(e) => r.id \in Range(index[c].ids)
        /\ \A r : r.id \in Touched(f) => r.id \in Range(index[d].ids) \/ r.id = id
        /\ \A r \in f.new : r.id \in Touched(f)
        /\ \A r \in e.new : r.id \in Touched(e)
      BY <1>2 DEF Touched
  <1>10. PICK s \in Seq(FeedRows) : s = SortRows(rest) /\ Range(s) = Range(rest) /\ IsInjective(IdSeq(s))
      BY SortKeeps
  <1>11. Materialize(IdSeq(s), held) = s
    <2>1. ASSUME NEW r \in Range(s) PROVE r \in held
      <3>1. r \in e.new /\ r.id \in Range(index[c].ids) /\ r.id # id  BY <1>2, <1>10
      <3>2. r.id \notin Range(index[d].ids)  BY <1>6, <3>1
      <3>3. r \in kept /\ r.id \notin Touched(f)  BY <1>8, <1>9, <3>1, <3>2
      <3> QED  BY <1>7, <3>3
    <2>2. ASSUME NEW r \in held, r.id \in Range(IdSeq(s)) PROVE r \in Range(s)
      <3>1. PICK q \in Range(s) : q.id = r.id  BY <1>10, <2>2, IdsOfRows
      <3>2. r.id \in Range(index[c].ids) /\ r.id # id /\ r.id \in Touched(e)  BY <1>2, <1>9, <1>10, <3>1
      <3>3. r \notin f.new  BY <1>2, <1>6, <3>2
      <3> QED  BY <1>2, <1>7, <1>8, <1>10, <3>2, <3>3
    <2> QED  BY <1>5, <1>10, <2>1, <2>2, MaterializeAll
  <1>12. PICK t \in Seq(FeedRows) : t = SortRows(rows) /\ Range(t) = Range(rows) /\ IsInjective(IdSeq(t))
      BY SortKeeps
  <1>13. Materialize(IdSeq(t), held) = t
    <2>1. Range(t) \subseteq held  BY <1>2, <1>7, <1>12
    <2>2. ASSUME NEW r \in held, r.id \in Range(IdSeq(t)) PROVE r \in Range(t)
      <3>1. PICK q \in Range(t) : q.id = r.id  BY <1>12, <2>2, IdsOfRows
      <3>2. r.id \in Touched(f)  BY <1>2, <1>9, <1>12, <3>1
      <3> QED  BY <1>2, <1>7, <1>12, <3>2
    <2> QED  BY <1>5, <1>12, <2>1, <2>2, MaterializeAll
  <1>14. ASSUME NEW b \in Convs \ {c, d} PROVE Materialize(index[b].ids, held) = RowsOf(b)
    <2>1. Range(index[c].ids) \cap Range(index[b].ids) = {} /\ Range(index[d].ids) \cap Range(index[b].ids) = {}
        BY <1>6
    <2>2. \A r : r.id \in Range(index[b].ids) => r.id \notin Touched(e) /\ r.id \notin Touched(f)  BY <1>9, <2>1
    <2>3. \A r : r.id \in Range(index[b].ids) => (r \in held <=> r \in events)  BY <1>7, <1>8, <1>9, <2>2
    <2> QED  BY <1>5, <2>3, RowsApart
  <1> QED  BY <1>5, <1>10, <1>11, <1>12, <1>13, <1>14

\* What the single store is to hold of a conversation then
Gives(b, c, d, rest, rows) ==
    IF b = c THEN Held(SortRows(rest), BuildActivityGroups(rest), NextSequenceNo(rest), index[c].live)
    ELSE IF b = d THEN Held(SortRows(rows), BuildActivityGroups(rows), NextSequenceNo(rows), index[d].live)
    ELSE Held(RowsOf(b), groups[b], index[b].next, index[b].live)

\* Sets of the index and the groups that are those of some rows
Granted(s, t, rows) ==
    s.ids = IdSeq(SortRows(rows)) /\ s.next = NextSequenceNo(rows) /\ t.groups = BuildActivityGroups(rows)

\* So the single store holds them.
LEMMA CrossingOutcome ==
    ASSUME FeedInv, todo = <<>>, UNCHANGED <<events, index, groups>>,
           NEW sets, todo' = sets, NEW c, NEW d, NEW id, NEW rest, NEW rows, Crossing(sets, c, d, id, rest, rows),
           Granted(sets[2], sets[3], rest), Granted(sets[5], sets[6], rows), NEW b \in Convs
    PROVE  Outcome'[b] = Gives(b, c, d, rest, rows)
  <1>1. PICK held : held = RowsAfter'  OBVIOUS
  <1>2. /\ sets \in Seq(Sets) /\ DOMAIN sets = 1 .. 6 /\ c # d
        /\ sets[1].set = "events" /\ sets[4].set = "events"
        /\ sets[2].set = "index" /\ sets[2].conv = c /\ sets[3].set = "groups" /\ sets[3].conv = c
        /\ sets[5].set = "index" /\ sets[5].conv = d /\ sets[6].set = "groups" /\ sets[6].conv = d
      BY DEF Crossing
  <1>3. /\ \A k \in DOMAIN sets : k \in Nat /\ (k = 1 \/ k = 2 \/ k = 3 \/ k = 4 \/ k = 5 \/ k = 6)
        /\ 1 \in DOMAIN sets /\ 2 \in DOMAIN sets /\ 3 \in DOMAIN sets
        /\ 4 \in DOMAIN sets /\ 5 \in DOMAIN sets /\ 6 \in DOMAIN sets
      BY <1>2
  <1>4. held = SetEvents(SetEvents(events, sets[1]), sets[4])
    <2>1. \A k \in DOMAIN sets : sets[k].set = "events" <=> k \in {1, 4}  BY <1>2, <1>3
    <2> QED  BY <1>1, <1>2, <2>1, RowsNextTwo
  <1>5. /\ Materialize(IdSeq(SortRows(rest)), held) = SortRows(rest)
        /\ Materialize(IdSeq(SortRows(rows)), held) = SortRows(rows)
        /\ \A a \in Convs \ {c, d} : Materialize(index[a].ids, held) = RowsOf(a)
      BY <1>4, CrossingRows
  <1>6. PICK o : o = Outcome'[b]  OBVIOUS
  <1>7. sets \in Seq(Sets) /\ todo' = sets /\ UNCHANGED <<index, groups>>  BY <1>2
  <1>8. NoneFor(sets, {"live", "clear"}, b)  BY <1>2, <1>3 DEF NoneFor
  <1>9. /\ o = [rows |-> o.rows, groups |-> o.groups, next |-> o.next, live |-> o.live]
        /\ o.live = index[b].live
      BY <1>1, <1>6, <1>7, <1>8, OutcomeNext
  <1>10. \A k : LastFor(sets, {"index", "clear"}, b, k) => o.rows = Materialize(sets[k].ids, held) /\ o.next = sets[k].next
      BY <1>1, <1>6, <1>7, OutcomeNext
  <1>11. \A k : LastFor(sets, {"groups"}, b, k) => o.groups = sets[k].groups
      BY <1>1, <1>6, <1>7, OutcomeNext
  <1>12. CASE b = c
    <2>1. LastFor(sets, {"index", "clear"}, b, 2) /\ LastFor(sets, {"groups"}, b, 3)  BY <1>2, <1>3, <1>12 DEF LastFor
    <2>2. o.rows = Materialize(sets[2].ids, held) /\ o.next = sets[2].next /\ o.groups = sets[3].groups
        BY <1>10, <1>11, <2>1
    <2>3. o.rows = SortRows(rest) /\ o.next = NextSequenceNo(rest) /\ o.groups = BuildActivityGroups(rest)
        BY <1>5, <2>2 DEF Granted
    <2> QED  BY <1>6, <1>9, <1>12, <2>3 DEF Gives, Held
  <1>13. CASE b = d
    <2>1. LastFor(sets, {"index", "clear"}, b, 5) /\ LastFor(sets, {"groups"}, b, 6)  BY <1>2, <1>3, <1>13 DEF LastFor
    <2>2. o.rows = Materialize(sets[5].ids, held) /\ o.next = sets[5].next /\ o.groups = sets[6].groups
        BY <1>10, <1>11, <2>1
    <2>3. o.rows = SortRows(rows) /\ o.next = NextSequenceNo(rows) /\ o.groups = BuildActivityGroups(rows)
        BY <1>5, <2>2 DEF Granted
    <2> QED  BY <1>2, <1>6, <1>9, <1>13, <2>3 DEF Gives, Held
  <1>14. CASE b # c /\ b # d
    <2>1. NoneFor(sets, {"index", "clear"}, b) /\ NoneFor(sets, {"groups"}, b)  BY <1>2, <1>3, <1>14 DEF NoneFor
    <2>2. o.rows = Materialize(index[b].ids, held) /\ o.next = index[b].next
        BY <1>1, <1>6, <1>7, <2>1, OutcomeNext
    <2>3. o.groups = groups[b]  BY <1>1, <1>6, <1>7, <2>1, OutcomeNext
    <2>4. o.rows = RowsOf(b)  BY <1>5, <1>14, <2>2
    <2> QED  BY <1>6, <1>9, <1>14, <2>2, <2>3, <2>4 DEF Gives, Held
  <1> QED  BY <1>12, <1>13, <1>14

\* Rows put in the place of those of a conversation, in the single store
LEMMA StorePuts ==
    ASSUME NEW v, NEW c, NEW was, NEW gs, NEW next, NEW live, Holds(v, c, was, gs, next, live), NEW rows
    PROVE  Store!WithEvents(v, c, rows)
               = [v EXCEPT ![c] = Held(SortRows(rows), BuildActivityGroups(rows), NextSequenceNo(rows), live)]
  <1>1. PICK s, g, n : s = SortRows(rows) /\ g = BuildActivityGroups(rows) /\ n = NextSequenceNo(rows)  OBVIOUS
  <1>2. Store!WithEvents(v, c, rows) = WithThree(v, c, s, g, n)  BY <1>1, StoreRows DEF Store!WithEvents, WithThree
  <1>3. WithThree(v, c, s, g, n) = [v EXCEPT ![c] = Held(s, g, n, live)]  BY FieldsAt
  <1> QED  BY <1>1, <1>2, <1>3

\* A row that moves to another conversation is updateEvent of the single store.
LEMMA MoveSteps ==
    ASSUME FeedInv, todo = <<>>, NEW was \in events, NEW next \in FeedRows, next.id = was.id, next.conv # was.conv,
           Begins(ReplaceSets(was.conv, Without(RowsOf(was.conv), next.id))
                  \o ReplaceSets(next.conv, Append(Without(RowsOf(next.conv), next.id), next)))
    PROVE  Store!StoreNext
  <1>1. PICK c \in Convs : c = was.conv /\ was.id \in Range(index[c].ids)  BY AtRest
  <1>2. PICK d \in Convs : d = next.conv /\ c # d  BY <1>1, FeedRowsAssumption
  <1>3. /\ RowsOf(c) \in Seq(FeedRows) /\ IsInjective(IdSeq(RowsOf(c)))
        /\ \A q \in Range(RowsOf(c)) : q.id \in Range(index[c].ids) /\ q.conv = c
      BY RowsAtRest
  <1>4. /\ RowsOf(d) \in Seq(FeedRows) /\ IsInjective(IdSeq(RowsOf(d)))
        /\ \A q \in Range(RowsOf(d)) : q.id \in Range(index[d].ids) /\ q.conv = d
      BY RowsAtRest
  <1>5. PICK rest \in Seq(FeedRows) :
            /\ rest = Without(RowsOf(c), next.id) /\ IsInjective(IdSeq(rest))
            /\ Range(rest) = {q \in Range(RowsOf(c)) : q.id # next.id}
      BY <1>3, RowsWith
  <1>6. PICK rows \in Seq(FeedRows) :
            /\ rows = Append(Without(RowsOf(d), next.id), next) /\ IsInjective(IdSeq(rows))
            /\ Range(rows) = {q \in Range(RowsOf(d)) : q.id # next.id} \cup {next}
    <2>1. /\ Append(Without(RowsOf(d), next.id), next) \in Seq(FeedRows)
          /\ IsInjective(IdSeq(Append(Without(RowsOf(d), next.id), next)))
          /\ Range(Append(Without(RowsOf(d), next.id), next)) = {q \in Range(RowsOf(d)) : q.id # next.id} \cup {next}
        BY <1>4, RowsWith
    <2> QED  BY <2>1
  <1>7. PICK e \in Sets, x \in Sets, g \in Sets :
             ReplaceSets(c, rest) = <<e, x, g>> /\ BlockOf(e, x, g, c) /\ x.set = "index" /\ e.new = Range(rest)
    <2>1. \A q \in Range(rest) : q.conv = c  BY <1>3, <1>5
    <2> QED  BY <1>5, <2>1, ReplaceForm
  <1>8. PICK f \in Sets, y \in Sets, h \in Sets :
             ReplaceSets(d, rows) = <<f, y, h>> /\ BlockOf(f, y, h, d) /\ y.set = "index" /\ f.new = Range(rows)
    <2>1. \A q \in Range(rows) : q.conv = d  BY <1>2, <1>4, <1>6
    <2> QED  BY <1>6, <2>1, ReplaceForm
  <1>9. PICK id : id = next.id /\ id \in Range(index[c].ids)  BY <1>1
  <1>10. \A n \in Range(rest) : n.id \in Range(index[c].ids) /\ n.id # id  BY <1>3, <1>5, <1>9
  <1>11. \A n \in Range(rows) : n.id \in Range(index[d].ids) \/ n.id = id  BY <1>4, <1>6, <1>9
  <1>12. todo' = <<e, x, g>> \o <<f, y, h>> /\ UNCHANGED <<events, index, groups>>
      BY <1>1, <1>2, <1>5, <1>6, <1>7, <1>8 DEF Begins
  <1>13. PICK sets \in Seq(Sets) :
             /\ todo' = sets /\ DOMAIN sets = 1 .. 6
             /\ sets[1] = e /\ sets[2] = x /\ sets[3] = g /\ sets[4] = f /\ sets[5] = y /\ sets[6] = h
    <2>1. PICK s : s = <<e, x, g>> \o <<f, y, h>>  OBVIOUS
    <2>2. s \in Seq(Sets) /\ DOMAIN s = 1 .. 6  BY <2>1
    <2>3. s[1] = e /\ s[2] = x /\ s[3] = g /\ s[4] = f /\ s[5] = y /\ s[6] = h  BY <2>1
    <2>4. todo' = s  BY <1>12, <2>1
    <2> QED  BY <2>2, <2>3, <2>4
  <1>14. Crossing(sets, c, d, id, rest, rows)
      BY <1>2, <1>5, <1>6, <1>7, <1>8, <1>9, <1>10, <1>11, <1>13 DEF BlockOf, Crossing
  <1>15. Granted(sets[2], sets[3], rest) /\ Granted(sets[5], sets[6], rows)
    <2>1. Granted(x, g, rest)
      <3>1. PICK s : s = SortRows(rest)  OBVIOUS
      <3> QED  BY <1>7, <3>1, BlockGives DEF Granted
    <2>2. Granted(y, h, rows)
      <3>1. PICK s : s = SortRows(rows)  OBVIOUS
      <3> QED  BY <1>8, <3>1, BlockGives DEF Granted
    <2> QED  BY <1>13, <2>1, <2>2
  <1>16. PICK v, w : v = Outcome /\ w = Outcome'  OBVIOUS
  <1>17. \A b \in Convs : w[b] = Gives(b, c, d, rest, rows)
    <2> SUFFICES ASSUME NEW b \in Convs PROVE Outcome'[b] = Gives(b, c, d, rest, rows)  BY <1>16
    <2>1. UNCHANGED <<events, index, groups>> /\ todo' = sets  BY <1>12, <1>13
    <2> QED  BY <1>14, <1>15, <2>1, CrossingOutcome
  <1>18. w = [b \in Convs |-> w[b]]  BY <1>16 DEF Outcome
  <1>19. \A b \in Convs : Holds(v, b, RowsOf(b), groups[b], index[b].next, index[b].live)  BY <1>16, OutcomeAtRest
  <1>20. v[c].rows = RowsOf(c) /\ v[d].rows = RowsOf(d)  BY <1>12, <1>16, OutcomeAtRest
  <1>21. PICK u : u = Store!WithEvents(v, c, Store!Without(v[c].rows, next.id))  OBVIOUS
  <1>22. PICK p, q : /\ p = Held(SortRows(rest), BuildActivityGroups(rest), NextSequenceNo(rest), index[c].live)
                     /\ q = Held(SortRows(rows), BuildActivityGroups(rows), NextSequenceNo(rows), index[d].live)
      OBVIOUS
  <1>23. u = [v EXCEPT ![c] = p]
    <2>1. Store!Without(v[c].rows, next.id) = rest  BY <1>5, <1>20, StoreRows
    <2> QED  BY <1>19, <1>21, <1>22, <2>1, StorePuts
  <1>24. Holds(u, d, RowsOf(d), groups[d], index[d].next, index[d].live)
    <2>1. v = [b \in Convs |-> v[b]] /\ v[d] = Held(RowsOf(d), groups[d], index[d].next, index[d].live)  BY <1>19 DEF Holds
    <2>2. u = [b \in Convs |-> u[b]] /\ u[d] = v[d]  BY <1>2, <1>23, <2>1
    <2> QED  BY <2>1, <2>2 DEF Holds
  <1>25. PICK to : to = Store!WithEvents(u, d, rows)  OBVIOUS
  <1>26. to = [u EXCEPT ![d] = q]  BY <1>22, <1>24, <1>25, StorePuts
  <1>27. w = to
    <2>1. v = [b \in Convs |-> v[b]] /\ \A b \in Convs : v[b] = Held(RowsOf(b), groups[b], index[b].next, index[b].live)
        BY <1>19 DEF Holds
    <2>2. to = [b \in Convs |-> to[b]] /\ to[c] = p /\ to[d] = q /\ \A b \in Convs \ {c, d} : to[b] = v[b]
        BY <1>2, <1>23, <1>26, <2>1
    <2>3. w[c] = p /\ w[d] = q  BY <1>2, <1>17, <1>22 DEF Gives
    <2>4. \A b \in Convs \ {c, d} : w[b] = v[b]  BY <1>17, <2>1 DEF Gives
    <2>5. \A b \in Convs : w[b] = to[b]  BY <2>2, <2>3, <2>4
    <2> QED  BY <1>18, <2>2, <2>5
  <1>28. PICK i \in DOMAIN v[c].rows : v[c].rows[i] = was
    <2>1. Range(RowsOf(c)) = {r \in events : r.id \in Range(index[c].ids)}
      <3>1. index[c].ids \in Seq(Nat) /\ events \in SUBSET FeedRows /\ UniqueIds(events)
          BY DEF FeedInv, FeedTyped, Stored, Index
      <3> QED  BY <3>1, MaterializeRows DEF RowsOf
    <2>2. was \in Range(RowsOf(c))  BY <1>1, <2>1
    <2> QED  BY <1>20, <2>2 DEF Range
  <1>29. next \in Store!ToSet(w[d].rows)
    <2>1. w[d].rows = SortRows(rows)
      <3>1. PICK o : o = w[d] /\ o = q  BY <1>2, <1>17, <1>22 DEF Gives
      <3>2. o.rows = SortRows(rows)  BY <1>22, <3>1 DEF Held
      <3> QED  BY <3>1, <3>2
    <2>2. next \in Range(SortRows(rows))  BY <1>6, SortKeeps
    <2>3. PICK s : s = SortRows(rows)  OBVIOUS
    <2>4. next \in Store!ToSet(s)  BY <2>2, <2>3 DEF Store!ToSet, Range
    <2> QED  BY <2>1, <2>3, <2>4
  <1>30. Store!UpdateEvent(v, w, c, i, next)
    <2>1. Store!AffectsStructure(was, next)  BY DEF Store!AffectsStructure
    <2>2. Append(Store!Without(v[d].rows, next.id), next) = rows  BY <1>6, <1>20, StoreRows
    <2>3. w = Store!WithEvents(u, next.conv, Append(Store!Without(v[next.conv].rows, next.id), next))
        BY <1>2, <1>25, <1>27, <2>2
    <2> QED  BY <1>1, <1>2, <1>21, <1>28, <2>1, <2>3 DEF Store!UpdateEvent
  <1>31. \E r \in Store!ToSet(w[d].rows) : \E a \in Convs : \E j \in DOMAIN v[a].rows : Store!UpdateEvent(v, w, a, j, r)
      BY <1>28, <1>29, <1>30
  <1> QED  BY <1>16, <1>31 DEF Store!StoreNext

\* A row changes: what it says, its place, or its conversation.
LEMMA UpdateSteps == ASSUME FeedInv, UpdateConversationEvent PROVE Store!StoreNext
  <1> DEFINE Moved(next) == Append(Without(RowsOf(next.conv), next.id), next)
  <1>1. PICK was \in events, next \in FeedRows :
            /\ next.id = was.id
            /\ Begins(IF ~EventAffectsStructure(was, next) THEN <<EventSet({}, {next})>>
                      ELSE IF next.conv = was.conv THEN ReplaceSets(next.conv, Moved(next))
                      ELSE ReplaceSets(was.conv, Without(RowsOf(was.conv), next.id)) \o ReplaceSets(next.conv, Moved(next)))
      BY DEF UpdateConversationEvent
  <1>2. todo = <<>> /\ UNCHANGED <<events, index, groups>>  BY <1>1 DEF Begins
  <1>3. was.conv \in Convs /\ was.id \in Range(index[was.conv].ids)
        /\ \A d \in Convs : d # was.conv => Range(index[was.conv].ids) \cap Range(index[d].ids) = {}
      BY <1>2, AtRest
  <1>4. CASE ~EventAffectsStructure(was, next)
    <2>1. PICK new \in SUBSET FeedRows : new = {next}  OBVIOUS
    <2>2. todo' = <<EventSet({}, new)>> /\ UniqueIds(new)  BY <1>1, <1>4, <2>1 DEF Begins, UniqueIds
    <2>3. PICK c \in Convs : c = was.conv  BY <1>3
    <2>4. Range(RowsOf(c)) = {r \in events : r.id \in Range(index[c].ids)}
      <3>1. index[c].ids \in Seq(Nat) /\ events \in SUBSET FeedRows /\ UniqueIds(events)
          BY DEF FeedInv, FeedTyped, Stored, Index
      <3> QED  BY <3>1, MaterializeRows DEF RowsOf
    <2>5. \A n \in new : \E r \in Range(RowsOf(c)) : r.id = n.id /\ ~EventAffectsStructure(r, n)
        BY <1>1, <1>3, <1>4, <2>1, <2>3, <2>4
    <2> QED  BY <1>2, <2>2, <2>5, RewordSteps
  <1>5. CASE EventAffectsStructure(was, next) /\ next.conv = was.conv
    <2>1. Begins(ReplaceSets(next.conv, Append(Without(RowsOf(next.conv), next.id), next)))  BY <1>1, <1>5
    <2>2. \A d \in Convs : d # next.conv => next.id \notin Range(index[d].ids)  BY <1>1, <1>3, <1>5
    <2> QED  BY <1>2, <2>1, <2>2, InsertSteps
  <1>6. CASE EventAffectsStructure(was, next) /\ next.conv # was.conv
    <2>1. Begins(ReplaceSets(was.conv, Without(RowsOf(was.conv), next.id))
                 \o ReplaceSets(next.conv, Append(Without(RowsOf(next.conv), next.id), next)))
        BY <1>1, <1>6
    <2> QED  BY <1>1, <1>2, <1>6, <2>1, MoveSteps
  <1> QED  BY <1>4, <1>5, <1>6

\* The empty stores are the empty store.
LEMMA StoreStarts == ASSUME FeedInit PROVE Store!StoreInit
  <1>1. todo = <<>> /\ events = {} /\ index = [c \in Convs |-> EmptyIndex] /\ groups = [c \in Convs |-> <<>>]
      BY DEF FeedInit
  <1>2. Outcome = [c \in Convs |-> [rows |-> RowsOf(c), groups |-> groups[c], next |-> index[c].next, live |-> index[c].live]]
      BY <1>1, NothingDue
  <1>3. ASSUME NEW c \in Convs
        PROVE  [rows |-> RowsOf(c), groups |-> groups[c], next |-> index[c].next, live |-> index[c].live]
                   = Store!EmptyConversation
    <2>1. index[c].ids = <<>> /\ index[c].next = Scale /\ index[c].live = "default" /\ groups[c] = <<>>
        BY <1>1 DEF EmptyIndex
    <2>2. RowsOf(c) = <<>>
      <3>1. PICK set : set = {r.id : r \in events}  OBVIOUS
      <3>2. Only(<<>>, set) = <<>>
        <4>1. <<>> \in Seq(Nat) /\ Range(<<>>) \subseteq set  BY DEF Range
        <4> QED  BY <4>1, OnlyAll
      <3>3. PICK found : found = Only(<<>>, set)  OBVIOUS
      <3>4. RowsOf(c) = [i \in DOMAIN found |-> CHOOSE r \in events : r.id = found[i]]
          BY <2>1, <3>1, <3>3 DEF RowsOf, Materialize
      <3>5. DOMAIN found = {}  BY <3>2, <3>3
      <3> QED  BY <3>4, <3>5
    <2>3. Store!EmptyConversation = [rows |-> <<>>, groups |-> <<>>, next |-> Scale, live |-> "default"]
        BY DEF Store!EmptyConversation, Store!Scale, Scale, Store!DefaultLive
    <2> QED  BY <2>1, <2>2, <2>3
  <1> QED  BY <1>2, <1>3 DEF Store!StoreInit

\* A read of the views changes nothing of the single store.
LEMMA OutcomeSame == ASSUME UNCHANGED <<events, index, groups, todo>> PROVE Outcome' = Outcome
  <1>1. \A r, k : Stays(r, k)' <=> Stays(r, k)  BY DEF Stays
  <1>2. RowsAfter' = RowsAfter  BY <1>1 DEF RowsAfter
  <1>3. \A K, c : Waits(K, c)' = Waits(K, c)  BY DEF Waits
  <1>4. \A K, c : (todo[CHOOSE k \in Waits(K, c) : \A l \in Waits(K, c) : l <= k])'
                     = todo[CHOOSE k \in Waits(K, c) : \A l \in Waits(K, c) : l <= k]
      BY <1>3
  <1>5. \A c : Latest({"index", "clear"}, c, index[c])' = Latest({"index", "clear"}, c, index[c])
      BY <1>3, <1>4, Zenon DEF Latest
  <1>6. \A c : Latest({"live", "clear"}, c, index[c])' = Latest({"live", "clear"}, c, index[c])
      BY <1>3, <1>4, Zenon DEF Latest
  <1>7. \A c : Latest({"groups"}, c, [groups |-> groups[c]])' = Latest({"groups"}, c, [groups |-> groups[c]])
      BY <1>3, <1>4, Zenon DEF Latest
  <1> QED  BY <1>2, <1>5, <1>6, <1>7 DEF Outcome

\* Each step of the pipeline is one of the single store, or none.
LEMMA StoreSteps == ASSUME FeedInv, [FeedNext]_feedVars PROVE [Store!StoreNext]_Outcome
  <1>1. CASE ReplaceConversation  BY <1>1, ReplaceSteps
  <1>2. CASE HydrateConversation  BY <1>2, HydrateSteps
  <1>3. CASE UpsertConversation  BY <1>3, UpsertSteps
  <1>4. CASE UpdateConversationEvent  BY <1>4, UpdateSteps
  <1>5. CASE SyncPendingApprovals  BY <1>5, SyncSteps
  <1>6. CASE ClearConversationPipeline  BY <1>6, ClearSteps
  <1>7. CASE ReserveSequence  BY <1>7, ReserveSteps
  <1>8. CASE UpdateLive  BY <1>8, LiveSteps
  <1>9. CASE NextSet  BY <1>9, SetsSame
  <1>10. CASE ReadViews  BY <1>10, OutcomeSame DEF ReadViews
  <1>11. CASE UNCHANGED feedVars  BY <1>11, OutcomeSame DEF feedVars
  <1> QED  BY <1>1, <1>2, <1>3, <1>4, <1>5, <1>6, <1>7, <1>8, <1>9, <1>10, <1>11 DEF FeedNext

\* The three stores with the pipeline are the one store that they replace: whatever
\* operations the pipeline makes, of any conversations and rows, what they leave when all
\* their sets are made is what one atomic operation of activityStore.ts leaves, and the sets
\* in between show nothing else.
THEOREM OneStoreRefines == FeedInit /\ [][FeedNext]_feedVars => OneStore
  <1>1. FeedInit => Store!StoreInit  BY StoreStarts
  <1>2. FeedInv /\ [FeedNext]_feedVars => [Store!StoreNext]_Outcome  BY StoreSteps
  <1> QED  BY <1>1, <1>2, FeedInvariance, PTL DEF OneStore, Store!StoreSpec

=============================================================================
