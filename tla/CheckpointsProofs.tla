-------------------------- MODULE CheckpointsProofs --------------------------
(***************************************************************************)
(* Proofs about Checkpoints, for any workspace, any number of requests and *)
(* of checkpoints, and any failures: a row that a user is offered has a    *)
(* ref that keeps its commit, and a restore that nobody disturbs brings    *)
(* the snapshot back and loses no file.                                    *)
(***************************************************************************)
EXTENDS Checkpoints, SequenceTheorems, TLAPS

Made == 1 .. Len(commits)
Contents == Content \cup {Absent}

Commit == [files : [Paths -> Contents], before : [Paths -> Contents],
           untracked : SUBSET Paths, folder : BOOLEAN, whole : BOOLEAN]

\* The states of a request, by the step it has yet to take
Capturing == [at : {"capture"}, untracked : SUBSET Paths, folder : BOOLEAN, alone : BOOLEAN]
Recording(made) == [at : {"record"}, of : made, alone : BOOLEAN]
Pruning == [at : {"prune"}, alone : BOOLEAN]
Deleting(made) == [at : {"delete", "unref"}, drop : Seq(made) \ {<<>>}, alone : BOOLEAN]
Listing(made) == [at : {"list"}, of : made, undo : BOOLEAN, alone : BOOLEAN]
Restoring(made) ==
    [at : {"checkout", "clean", "restored"}, of : made, undo : BOOLEAN, found : SUBSET Paths,
     hidden : SUBSET Paths, was : [Paths -> Contents], alone : BOOLEAN]
Working(made) ==
    Capturing \cup Recording(made) \cup Pruning \cup Deleting(made) \cup Listing(made) \cup Restoring(made)

TypeOK ==
    /\ disk \in [Paths -> Contents] /\ tracked \subseteq Paths /\ committed \subseteq Paths
    /\ commits \in Seq(Commit) /\ refs \subseteq Made /\ records \in Seq(Made)
    /\ user \in [Users -> {Idle} \cup Working(Made)]
    /\ edits \in Nat /\ faults \in Nat /\ undeleted \subseteq Made

-----------------------------------------------------------------------------
(* A checkpoint on offer is kept. *)

Recorded(c) == \E i \in DOMAIN records : records[i] = c

\* The checkpoint a request makes, restores or is about to delete
Drops(u, c) == user[u].at \in {"delete", "unref"} /\ \E i \in DOMAIN user[u].drop : user[u].drop[i] = c
Names(u, c) ==
    user[u].at \in {"record", "list", "checkout", "clean", "restored"} /\ user[u].of = c
Holds(u, c) == Drops(u, c) \/ Names(u, c)
Owes(u, c) == Drops(u, c) \/ (user[u].at = "record" /\ user[u].of = c)

OneRow == \A i, j \in DOMAIN records : records[i] = records[j] => i = j

\* A commit without a row belongs to the request that made it
Unrecorded ==
    \A u \in Users : user[u].at = "record" =>
        /\ user[u].of \in refs /\ ~Recorded(user[u].of)
        /\ \A v \in Users \ {u} : ~Holds(v, user[u].of)

\* A ref goes after its row
RowsFirst ==
    \A u \in Users : user[u].at = "unref" /\ Recorded(Head(user[u].drop)) => Head(user[u].drop) \in undeleted

PinnedInv == TypeOK /\ OneRow /\ Unrecorded /\ RowsFirst /\ CheckpointsPinned

-----------------------------------------------------------------------------
(* A restore brings the snapshot back, while nobody removes a file from    *)
(* the index by hand or changes the ignore rules.                          *)

\* git's view of files only grows, and what it ignores stays as it was at first
RulesKept ==
    /\ disk[IgnoreFile] # Absent
    /\ FirstTracked \subseteq tracked /\ FirstTracked \subseteq committed
    /\ tracked \cap Ignored(disk) \subseteq FirstTracked

\* What a commit keeps of the work tree
CommitsSound ==
    \A k \in Made :
        /\ commits[k].before[IgnoreFile] = disk[IgnoreFile]
        /\ IgnoreFile \in tracked \cup Ignored(disk) \cup commits[k].untracked
        /\ \A p \in Paths :
             /\ commits[k].files[p] # Absent => commits[k].before[p] = commits[k].files[p]
             /\ commits[k].files[p] = Absent /\ commits[k].before[p] # Absent =>
                    p \in Ignored(disk) \ FirstTracked
        /\ commits[k].whole =>
             /\ commits[k].untracked \subseteq Present(commits[k].before)
             /\ Present(commits[k].before) \subseteq tracked \cup Ignored(disk) \cup commits[k].untracked

\* What a snapshot in progress has listed
SnapshotSound(u) ==
    user[u].at = "capture" =>
        /\ IgnoreFile \in tracked \cup Ignored(disk) \cup user[u].untracked
        /\ user[u].alone => user[u].untracked = UntrackedFiles

\* What a restore has listed
ListSound(u) ==
    user[u].at \in {"checkout", "clean", "restored"} =>
        /\ user[u].hidden = Ignored(disk)
        /\ IgnoreFile \in user[u].found => IgnoreFile \in commits[user[u].of].untracked
        /\ user[u].alone => user[u].found = Present(user[u].was) \ (tracked \cup Ignored(disk))

\* The work tree of a restore that nobody has disturbed
Back(u) ==
    [p \in Paths |-> IF commits[user[u].of].files[p] # Absent THEN commits[user[u].of].files[p]
                     ELSE IF p \in tracked THEN Absent ELSE user[u].was[p]]
Cleaned(u) ==
    [p \in Paths |-> IF p \in Doomed(user[u].found, user[u].of) THEN Absent ELSE Back(u)[p]]

TreeSound(u) ==
    /\ user[u].at = "checkout" /\ user[u].alone => disk = user[u].was
    /\ user[u].at = "clean" /\ user[u].alone => disk = Back(u)
    /\ user[u].at = "restored" /\ user[u].alone => disk = Cleaned(u)

RequestSound(u) == SnapshotSound(u) /\ ListSound(u) /\ TreeSound(u)

RestoreInv == PinnedInv /\ RulesKept /\ CommitsSound /\ \A u \in Users : RequestSound(u)

-----------------------------------------------------------------------------
(* Types. *)

USE DEF Content, Contents, Absent

\* The step of a request tells its kind of state.
LEMMA StateKinds ==
    ASSUME NEW made, NEW s \in {Idle} \cup Working(made)
    PROVE  /\ s.at = "idle" <=> s = Idle
           /\ s.at = "capture" => s \in Capturing
           /\ s.at = "record" => s \in Recording(made)
           /\ s.at = "prune" => s \in Pruning
           /\ s.at \in {"delete", "unref"} => s \in Deleting(made)
           /\ s.at = "list" => s \in Listing(made)
           /\ s.at \in {"checkout", "clean", "restored"} => s \in Restoring(made)
           /\ s # Idle => s.alone \in BOOLEAN
  BY DEF Idle, Working, Capturing, Recording, Pruning, Deleting, Listing, Restoring

\* More commits allow no fewer states.
LEMMA WorkingGrows ==
    ASSUME NEW n \in Nat, NEW m \in Nat, n <= m
    PROVE  Working(1 .. n) \subseteq Working(1 .. m)
  <1>1. 1 .. n \subseteq 1 .. m  OBVIOUS
  <1>2. Seq(1 .. n) \subseteq Seq(1 .. m)  BY <1>1
  <1> QED  BY <1>1, <1>2 DEF Working, Capturing, Recording, Pruning, Deleting, Listing, Restoring

\* A request that is disturbed keeps its place.
LEMMA DisturbedStates ==
    ASSUME NEW made, user \in [Users -> {Idle} \cup Working(made)]
    PROVE  /\ Disturb(user) \in [Users -> {Idle} \cup Working(made)]
           /\ \A v \in Users : \/ user[v] = Idle /\ Disturb(user)[v] = Idle
                               \/ /\ user[v] # Idle /\ Disturb(user)[v] # Idle
                                  /\ Disturb(user)[v] = [user[v] EXCEPT !.alone = FALSE]
  <1> SUFFICES ASSUME NEW v \in Users
               PROVE  \/ user[v] = Idle /\ Disturb(user)[v] = Idle
                      \/ /\ user[v] # Idle /\ Disturb(user)[v] \in Working(made)
                         /\ Disturb(user)[v] # Idle
                         /\ Disturb(user)[v] = [user[v] EXCEPT !.alone = FALSE]
    BY DEF Disturb
  <1>1. CASE user[v] = Idle  BY <1>1 DEF Disturb, Idle
  <1>2. CASE user[v] # Idle
    <2>1. user[v] \in Working(made) /\ user[v].at # "idle"  BY <1>2, StateKinds
    <2>2. Disturb(user)[v] = [user[v] EXCEPT !.alone = FALSE]  BY <2>1 DEF Disturb
    <2> DEFINE d == [user[v] EXCEPT !.alone = FALSE]
    <2>3. d \in Working(made)
      <3>1. CASE user[v] \in Capturing  BY <3>1 DEF Capturing, Working
      <3>2. CASE user[v] \in Recording(made)  BY <3>2 DEF Recording, Working
      <3>3. CASE user[v] \in Pruning  BY <3>3 DEF Pruning, Working
      <3>4. CASE user[v] \in Deleting(made)  BY <3>4 DEF Deleting, Working
      <3>5. CASE user[v] \in Listing(made)  BY <3>5 DEF Listing, Working
      <3>6. CASE user[v] \in Restoring(made)  BY <3>6 DEF Restoring, Working
      <3> QED  BY <2>1, <3>1, <3>2, <3>3, <3>4, <3>5, <3>6 DEF Working
    <2>4. d # Idle
      <3>1. d.at # "idle"
          BY <2>1, <2>3 DEF Working, Capturing, Recording, Pruning, Deleting, Listing, Restoring
      <3> QED  BY <3>1 DEF Idle
    <2> QED  BY <1>2, <2>2, <2>3, <2>4
  <1> QED  BY <1>1, <1>2

LEMMA StepTyped ==
    ASSUME TypeOK, NEW u \in Users, NEW state \in {Idle} \cup Working(Made), Step(u, state)
    PROVE  /\ user' \in [Users -> {Idle} \cup Working(Made)]
           /\ user'[u] = state
           /\ \A v \in Users \ {u} : user'[v] = user[v]
  BY DEF TypeOK, Step

LEMMA ListsTyped ==
    ASSUME TypeOK
    PROVE  UntrackedFiles \in SUBSET Paths /\ FolderUntracked \in BOOLEAN /\ Ignored(disk) \in SUBSET Paths
  BY PathsAssumption DEF TypeOK, UntrackedFiles, FolderUntracked, Present, Ignored

LEMMA InitTyped == CpInit => TypeOK
  <1> SUFFICES ASSUME CpInit PROVE TypeOK  OBVIOUS
  <1>1. disk \in [Paths -> Contents] /\ tracked \subseteq Paths /\ committed \subseteq Paths
      BY PathsAssumption DEF CpInit
  <1>2. commits \in Seq(Commit) /\ refs \subseteq Made /\ records \in Seq(Made) /\ undeleted \subseteq Made
      BY DEF CpInit, Made
  <1> QED  BY <1>1, <1>2 DEF CpInit, TypeOK

LEMMA BeginCreateTyped == ASSUME TypeOK, NEW u \in Users, BeginCreate(u) PROVE TypeOK'
  <1> DEFINE state == [at |-> "capture", untracked |-> UntrackedFiles, folder |-> FolderUntracked, alone |-> TRUE]
  <1>1. state \in Working(Made)
    <2>1. state \in Capturing  BY ListsTyped DEF Capturing
    <2> QED  BY <2>1 DEF Working
  <1>2. user' \in [Users -> {Idle} \cup Working(Made)]
      BY <1>1, StepTyped DEF BeginCreate
  <1> QED  BY <1>2 DEF BeginCreate, treeVars, TypeOK, Made

\* A snapshot is committed, or it fails.
LEMMA CaptureCases ==
    ASSUME TypeOK, NEW u \in Users, Capture(u),
           NEW c, c = [files |-> Captured, before |-> disk, untracked |-> user[u].untracked,
                       folder |-> user[u].folder, whole |-> user[u].alone],
           NEW r, r = [at |-> "record", of |-> Len(commits) + 1, alone |-> TRUE]
    PROVE  /\ user[u] \in Capturing /\ c \in Commit
           /\ UNCHANGED <<disk, tracked, committed, records, undeleted, edits>>
           /\ \/ /\ commits' = Append(commits, c) /\ refs' = refs \cup {Len(commits) + 1}
                 /\ Made' = Made \cup {Len(commits) + 1} /\ Len(commits) + 1 \notin Made
                 /\ commits'[Len(commits) + 1] = c /\ \A k \in Made : commits'[k] = commits[k]
                 /\ Step(u, r) /\ r \in Working(Made') /\ UNCHANGED faults
              \/ /\ UNCHANGED <<commits, refs>> /\ Step(u, Idle) /\ Fails
  <1>1. user[u] \in Capturing  BY StateKinds DEF TypeOK, Capture
  <1>2. c \in Commit
    <2>1. Captured \in [Paths -> Contents]  BY DEF Captured, TypeOK
    <2> QED  BY <1>1, <2>1 DEF Commit, Capturing, TypeOK
  <1>3. ASSUME commits' = Append(commits, c)
        PROVE  /\ Made' = Made \cup {Len(commits) + 1} /\ Len(commits) + 1 \notin Made
               /\ commits'[Len(commits) + 1] = c /\ \A k \in Made : commits'[k] = commits[k]
               /\ r \in Working(Made')
    <2>1. commits \in Seq(Commit) /\ Len(commits) \in Nat  BY DEF TypeOK
    <2>2. /\ Len(commits') = Len(commits) + 1 /\ commits'[Len(commits) + 1] = c
          /\ \A k \in Made : commits'[k] = commits[k]
        BY <1>2, <1>3, <2>1, AppendProperties DEF Made
    <2>3. Made' = 1 .. Len(commits) + 1  BY <2>2 DEF Made
    <2>4. Made' = Made \cup {Len(commits) + 1} /\ Len(commits) + 1 \notin Made
        BY <2>1, <2>3 DEF Made
    <2>5. r \in Recording(Made')  BY <2>4 DEF Recording
    <2> QED  BY <2>2, <2>4, <2>5 DEF Working
  <1> QED  BY <1>1, <1>2, <1>3 DEF Capture, treeVars

LEMMA CaptureTyped == ASSUME TypeOK, NEW u \in Users, Capture(u) PROVE TypeOK'
  <1> DEFINE c == [files |-> Captured, before |-> disk, untracked |-> user[u].untracked,
                   folder |-> user[u].folder, whole |-> user[u].alone]
             r == [at |-> "record", of |-> Len(commits) + 1, alone |-> TRUE]
             made ==
                 /\ commits' = Append(commits, c) /\ refs' = refs \cup {Len(commits) + 1}
                 /\ Made' = Made \cup {Len(commits) + 1}
                 /\ Step(u, r) /\ r \in Working(Made') /\ UNCHANGED faults
             failed == UNCHANGED <<commits, refs>> /\ Step(u, Idle) /\ Fails
  <1>1. c \in Commit /\ UNCHANGED <<disk, tracked, committed, records, undeleted, edits>> /\ (made \/ failed)
      BY CaptureCases
  <1> HIDE DEF c, r
  <1>2. CASE made
    <2>1. commits' \in Seq(Commit)  BY <1>1, <1>2, AppendProperties DEF TypeOK
    <2>2. Working(Made) \subseteq Working(Made')
      <3>1. Len(commits) \in Nat /\ Len(commits') \in Nat /\ Len(commits) <= Len(commits')
          BY <1>1, <1>2, AppendProperties DEF TypeOK
      <3> QED  BY <3>1, WorkingGrows DEF Made
    <2>3. user' \in [Users -> {Idle} \cup Working(Made')]
        BY <1>2, <2>2 DEF Step, TypeOK
    <2>4. records' \in Seq(Made')
      <3>1. Made \subseteq Made'  BY <1>2
      <3> QED  BY <1>1, <3>1 DEF TypeOK
    <2> QED  BY <1>1, <1>2, <2>1, <2>3, <2>4 DEF TypeOK
  <1>3. CASE failed
    <2>1. user' \in [Users -> {Idle} \cup Working(Made)]  BY <1>3, StepTyped
    <2> QED  BY <1>1, <1>3, <2>1 DEF TypeOK, Made, Fails
  <1> QED  BY <1>1, <1>2, <1>3

LEMMA RecordTyped == ASSUME TypeOK, NEW u \in Users, Record(u) PROVE TypeOK'
  <1>1. user[u].of \in Made  BY StateKinds DEF TypeOK, Record, Recording
  <1> DEFINE p == [at |-> "prune", alone |-> TRUE]
             d == [at |-> "unref", drop |-> <<user[u].of>>, alone |-> TRUE]
  <1>2. p \in Working(Made)  BY DEF Pruning, Working
  <1>3. d \in Working(Made)
    <2>1. d \in Deleting(Made)  BY <1>1 DEF Deleting
    <2> QED  BY <2>1 DEF Working
  <1>4. user' \in [Users -> {Idle} \cup Working(Made)]
      BY <1>2, <1>3, StepTyped DEF Record
  <1>5. records' \in Seq(Made)
    <2>1. records \in Seq(Made)  BY DEF TypeOK
    <2>2. Append(records, user[u].of) \in Seq(Made)  BY <1>1, <2>1, AppendProperties
    <2> QED  BY <2>1, <2>2 DEF Record
  <1> QED  BY <1>4, <1>5 DEF Record, Fails, TypeOK, Made, treeVars

LEMMA PruneTyped == ASSUME TypeOK, NEW u \in Users, Prune(u) PROVE TypeOK'
  <1> DEFINE n == IF Len(records) > Keep THEN Len(records) - Keep ELSE 0
             stale == [i \in 1 .. n |-> records[Len(records) - Keep + 1 - i]]
             d == [at |-> "delete", drop |-> stale, alone |-> TRUE]
  <1>1. Keep \in Nat \ {0} /\ Len(records) \in Nat /\ n \in Nat  BY LimitsAssumption DEF TypeOK
  <1>2. stale \in Seq(Made)
    <2>1. \A i \in 1 .. n : Len(records) - Keep + 1 - i \in 1 .. Len(records)  BY <1>1
    <2>2. \A i \in 1 .. n : records[Len(records) - Keep + 1 - i] \in Made  BY <2>1 DEF TypeOK
    <2> HIDE DEF n
    <2>3. stale \in [1 .. n -> Made]  BY <2>2
    <2> QED  BY <1>1, <2>3, SeqDef
  <1>3. stale # <<>> => d \in Working(Made)
    <2>1. stale # <<>> => d \in Deleting(Made)  BY <1>2 DEF Deleting
    <2> QED  BY <2>1 DEF Working
  <1>4. Step(u, IF stale = <<>> THEN Idle ELSE d)  BY DEF Prune
  <1>5. user' \in [Users -> {Idle} \cup Working(Made)]  BY <1>3, <1>4, StepTyped
  <1> QED  BY <1>5 DEF Prune, TypeOK, Made, treeVars

\* The rows but that of one checkpoint: the others, in their order, if no checkpoint has two.
LEMMA OthersKept ==
    ASSUME NEW c, records \in Seq(Made), OneRow
    PROVE  /\ Others(c) \in Seq(Made)
           /\ \A i, j \in DOMAIN Others(c) : Others(c)[i] = Others(c)[j] => i = j
           /\ \A d : (\E i \in DOMAIN Others(c) : Others(c)[i] = d) <=> Recorded(d) /\ d # c
  <1>1. CASE ~Recorded(c)
    <2>1. Others(c) = records  BY <1>1 DEF Others, Recorded
    <2> QED  BY <1>1, <2>1 DEF Recorded, OneRow
  <1>2. CASE Recorded(c)
    <2> DEFINE row == CHOOSE i \in DOMAIN records : records[i] = c
               at(i) == IF i < row THEN i ELSE i + 1
               left == [i \in 1 .. (Len(records) - 1) |-> records[at(i)]]
    <2>1. row \in 1 .. Len(records) /\ records[row] = c  BY <1>2 DEF Recorded
    <2>2. Others(c) = left  BY <1>2 DEF Others, Recorded
    <2>3. Len(records) \in Nat /\ DOMAIN records = 1 .. Len(records)  OBVIOUS
    <2> HIDE DEF row
    <2>4. \A i \in 1 .. (Len(records) - 1) : at(i) \in 1 .. Len(records) /\ at(i) # row
        BY <2>1, <2>3
    <2>5. \A i, j \in 1 .. (Len(records) - 1) : at(i) = at(j) => i = j  BY <2>1, <2>3
    <2>6. \A k \in 1 .. Len(records) : k # row => \E i \in 1 .. (Len(records) - 1) : at(i) = k
      <3> SUFFICES ASSUME NEW k \in 1 .. Len(records), k # row
                   PROVE  \E i \in 1 .. (Len(records) - 1) : at(i) = k
          OBVIOUS
      <3>1. CASE k < row
        <4>1. k \in 1 .. (Len(records) - 1) /\ at(k) = k  BY <2>1, <2>3, <3>1
        <4> QED  BY <4>1
      <3>2. CASE k > row
        <4>1. k - 1 \in 1 .. (Len(records) - 1) /\ at(k - 1) = k  BY <2>1, <2>3, <3>2
        <4> QED  BY <4>1
      <3> QED  BY <2>1, <2>3, <3>1, <3>2
    <2>7. left \in Seq(Made) /\ DOMAIN left = 1 .. (Len(records) - 1)  BY <2>1, <2>3, <2>4
    <2>8. \A i, j \in DOMAIN left : left[i] = left[j] => i = j
        BY <2>3, <2>4, <2>5, <2>7 DEF OneRow
    <2>9. \A d : (\E i \in DOMAIN left : left[i] = d) <=> Recorded(d) /\ d # c
        BY <2>1, <2>3, <2>4, <2>6, <2>7 DEF OneRow, Recorded
    <2> HIDE DEF left
    <2> QED  BY <2>2, <2>7, <2>8, <2>9
  <1> QED  BY <1>1, <1>2

LEMMA DeleteRecordTyped == ASSUME TypeOK, OneRow, NEW u \in Users, DeleteRecord(u) PROVE TypeOK'
  <1>1. user[u] \in Deleting(Made)  BY StateKinds DEF TypeOK, DeleteRecord
  <1>2. Head(user[u].drop) \in Made  BY <1>1, HeadTailProperties DEF Deleting
  <1>3. [user[u] EXCEPT !.at = "unref"] \in Working(Made)
    <2>1. [user[u] EXCEPT !.at = "unref"] \in Deleting(Made)  BY <1>1 DEF Deleting
    <2> QED  BY <2>1 DEF Working
  <1>4. user' \in [Users -> {Idle} \cup Working(Made)]  BY <1>3, StepTyped DEF DeleteRecord
  <1>5. records' \in Seq(Made)  BY OthersKept DEF DeleteRecord, TypeOK
  <1> QED  BY <1>2, <1>4, <1>5 DEF DeleteRecord, Fails, TypeOK, Made, treeVars

LEMMA DeleteRefTyped == ASSUME TypeOK, NEW u \in Users, DeleteRef(u) PROVE TypeOK'
  <1> DEFINE left == Tail(user[u].drop)
             d == [at |-> "delete", drop |-> left, alone |-> TRUE]
  <1>1. user[u] \in Deleting(Made)  BY StateKinds DEF TypeOK, DeleteRef
  <1>2. left \in Seq(Made)  BY <1>1, HeadTailProperties DEF Deleting
  <1>3. left # <<>> => d \in Working(Made)
    <2>1. left # <<>> => d \in Deleting(Made)  BY <1>2 DEF Deleting
    <2> QED  BY <2>1 DEF Working
  <1>4. user' \in [Users -> {Idle} \cup Working(Made)]  BY <1>3, StepTyped DEF DeleteRef
  <1>5. refs' \subseteq Made  BY DEF DeleteRef, TypeOK
  <1>6. faults' \in Nat  BY DEF DeleteRef, Fails, TypeOK
  <1> QED  BY <1>4, <1>5, <1>6 DEF DeleteRef, TypeOK, Made, treeVars

LEMMA BeginRestoreTyped ==
    ASSUME TypeOK, NEW u \in Users, NEW c \in Made, NEW undo \in BOOLEAN, BeginRestore(u, c, undo)
    PROVE  TypeOK'
  <1> DEFINE l == [at |-> "list", of |-> c, undo |-> undo, alone |-> TRUE]
  <1>1. l \in Working(Made)
    <2>1. l \in Listing(Made)  BY DEF Listing
    <2> QED  BY <2>1 DEF Working
  <1>2. user' \in [Users -> {Idle} \cup Working(Made)]  BY <1>1, StepTyped DEF BeginRestore
  <1> QED  BY <1>2 DEF BeginRestore, TypeOK, Made, treeVars

LEMMA ListCurrentTyped == ASSUME TypeOK, NEW u \in Users, ListCurrent(u) PROVE TypeOK'
  <1> DEFINE l == [at |-> "checkout", of |-> user[u].of, undo |-> user[u].undo, found |-> UntrackedFiles,
                   hidden |-> Ignored(disk), was |-> disk, alone |-> TRUE]
  <1>1. user[u] \in Listing(Made)  BY StateKinds DEF TypeOK, ListCurrent
  <1>2. l \in Working(Made)
    <2>1. l \in Restoring(Made)  BY <1>1, ListsTyped DEF Listing, Restoring, TypeOK
    <2> QED  BY <2>1 DEF Working
  <1>3. user' \in [Users -> {Idle} \cup Working(Made)]  BY <1>2, StepTyped DEF ListCurrent
  <1> QED  BY <1>3 DEF ListCurrent, TypeOK, Made, treeVars

LEMMA RestoredTyped == ASSUME TypeOK, NEW u \in Users, Restored(u) PROVE TypeOK'
  <1> DEFINE d == [at |-> "delete", drop |-> <<user[u].of>>, alone |-> TRUE]
  <1>1. user[u] \in Restoring(Made)  BY StateKinds DEF TypeOK, Restored
  <1>2. d \in Working(Made)
    <2>1. d \in Deleting(Made)  BY <1>1 DEF Restoring, Deleting
    <2> QED  BY <2>1 DEF Working
  <1>3. user' \in [Users -> {Idle} \cup Working(Made)]  BY <1>2, StepTyped DEF Restored
  <1> QED  BY <1>3 DEF Restored, TypeOK, Made, treeVars

LEMMA CheckedOutTyped ==
    ASSUME TypeOK, NEW c \in Made
    PROVE  CheckedOut(c) \in [Paths -> Contents]
  <1>1. commits[c] \in Commit  BY ElementOfSeq DEF TypeOK, Made
  <1> QED  BY <1>1 DEF CheckedOut, Commit, TypeOK

\* A request writes the work tree, and disturbs the others.
LEMMA WritesTyped ==
    ASSUME TypeOK, NEW u \in Users, NEW state \in {Idle} \cup Working(Made),
           user' = [Disturb(user) EXCEPT ![u] = state]
    PROVE  /\ user' \in [Users -> {Idle} \cup Working(Made)]
           /\ user'[u] = state
           /\ \A v \in Users \ {u} : user'[v] = Disturb(user)[v]
  <1>1. Disturb(user) \in [Users -> {Idle} \cup Working(Made)]  BY DisturbedStates DEF TypeOK
  <1> QED  BY <1>1

LEMMA CheckoutTyped == ASSUME TypeOK, NEW u \in Users, Checkout(u) PROVE TypeOK'
  <1>1. user[u] \in Restoring(Made)  BY StateKinds DEF TypeOK, Checkout
  <1> DEFINE d == [user[u] EXCEPT !.at = "clean"]
  <1>2. d \in Working(Made)
    <2>1. d \in Restoring(Made)  BY <1>1 DEF Restoring
    <2> QED  BY <2>1 DEF Working
  <1>3. user' \in [Users -> {Idle} \cup Working(Made)]
      BY <1>2, WritesTyped, StepTyped DEF Checkout
  <1>4. disk' \in [Paths -> Contents]
    <2>1. user[u].of \in Made  BY <1>1 DEF Restoring
    <2> QED  BY <2>1, CheckedOutTyped DEF Checkout, TypeOK
  <1> QED  BY <1>3, <1>4 DEF Checkout, Fails, TypeOK, Made

LEMMA CleanUpTyped == ASSUME TypeOK, NEW u \in Users, CleanUp(u) PROVE TypeOK'
  <1>1. user[u] \in Restoring(Made)  BY StateKinds DEF TypeOK, CleanUp
  <1> DEFINE d == [user[u] EXCEPT !.at = "restored"]
  <1>2. d \in Working(Made)
    <2>1. d \in Restoring(Made)  BY <1>1 DEF Restoring
    <2> QED  BY <2>1 DEF Working
  <1>3. user' \in [Users -> {Idle} \cup Working(Made)]
      BY <1>2, WritesTyped DEF CleanUp
  <1>4. disk' \in [Paths -> Contents]  BY DEF CleanUp, TypeOK
  <1> QED  BY <1>3, <1>4 DEF CleanUp, Fails, TypeOK, Made

LEMMA ChangesTyped == ASSUME TypeOK, Changes PROVE user' \in [Users -> {Idle} \cup Working(Made)] /\ edits' \in Nat
  BY DisturbedStates DEF Changes, TypeOK

LEMMA EnvironmentTyped ==
    ASSUME TypeOK,
           \/ \E p \in Paths : GitAdd(p) \/ GitRemoveCached(p) \/ \E c \in Content \cup {Absent} : Write(p, c)
           \/ GitCommit \/ Crash
    PROVE  TypeOK'
  <1>1. ASSUME NEW p \in Paths, NEW c \in Content \cup {Absent}, Write(p, c) PROVE TypeOK'
    <2>1. disk' \in [Paths -> Contents]  BY <1>1 DEF Write, TypeOK
    <2> QED  BY <1>1, <2>1, ChangesTyped DEF Write, TypeOK, Made
  <1>2. ASSUME NEW p \in Paths, GitAdd(p) PROVE TypeOK'
      BY <1>2, ChangesTyped DEF GitAdd, TypeOK, Made
  <1>3. ASSUME NEW p \in Paths, GitRemoveCached(p) PROVE TypeOK'
      BY <1>3, ChangesTyped DEF GitRemoveCached, TypeOK, Made
  <1>4. CASE GitCommit  BY <1>4, ChangesTyped DEF GitCommit, TypeOK, Made
  <1>5. CASE Crash  BY <1>5 DEF Crash, Fails, TypeOK, Made, treeVars
  <1> QED  BY <1>1, <1>2, <1>3, <1>4, <1>5

-----------------------------------------------------------------------------
(* A checkpoint on offer is kept. *)

USE DEF Recorded, Drops, Names, Holds, Owes

LEMMA InitPinned == CpInit => PinnedInv
  BY InitTyped DEF CpInit, PinnedInv, OneRow, Unrecorded, RowsFirst, CheckpointsPinned, Idle

\* A step that leaves rows and refs alone, and in which no request comes by a checkpoint
\* that had no row, or loses one that it has to record or to delete, unless it fails.
LEMMA PlacesKept ==
    ASSUME PinnedInv, TypeOK', UNCHANGED <<refs, records, undeleted>>, faults' = 0 => faults = 0,
           \A v \in Users :
             /\ user'[v].at = "record" => user[v].at = "record" /\ user'[v].of = user[v].of
             /\ user'[v].at = "unref" => user[v].at = "unref" /\ user'[v].drop = user[v].drop
             /\ \A c : Holds(v, c)' => Holds(v, c) \/ Recorded(c)
             /\ \A c : faults' = 0 /\ Owes(v, c) => Owes(v, c)'
    PROVE  PinnedInv'
  <1>1. OneRow'  BY DEF PinnedInv, OneRow
  <1>2. Unrecorded'
    <2> SUFFICES ASSUME NEW v \in Users, (user[v].at = "record")'
                 PROVE  (/\ user[v].of \in refs /\ ~Recorded(user[v].of)
                         /\ \A w \in Users \ {v} : ~Holds(w, user[v].of))'
        BY DEF Unrecorded
    <2>1. user[v].at = "record" /\ user'[v].of = user[v].of  OBVIOUS
    <2>2. /\ user[v].of \in refs /\ ~Recorded(user[v].of)
          /\ \A w \in Users \ {v} : ~Holds(w, user[v].of)
        BY <2>1 DEF PinnedInv, Unrecorded
    <2> HIDE DEF Holds
    <2>3. \A w \in Users : Holds(w, user[v].of)' => Holds(w, user'[v].of) \/ Recorded(user'[v].of)
        OBVIOUS
    <2> QED  BY <2>1, <2>2, <2>3
  <1>3. RowsFirst'  BY DEF PinnedInv, RowsFirst
  <1>4. CheckpointsPinned'  BY DEF PinnedInv, CheckpointsPinned, InHand
  <1> QED  BY <1>1, <1>2, <1>3, <1>4 DEF PinnedInv

LEMMA BeginCreatePinned == ASSUME PinnedInv, NEW u \in Users, BeginCreate(u) PROVE PinnedInv'
  <1>1. TypeOK /\ TypeOK'  BY BeginCreateTyped DEF PinnedInv
  <1>2. user'[u].at = "capture" /\ \A v \in Users \ {u} : user'[v] = user[v]
      BY <1>1 DEF BeginCreate, Step, TypeOK
  <1> QED  BY <1>1, <1>2, PlacesKept DEF BeginCreate, Idle

LEMMA PrunePinned == ASSUME PinnedInv, NEW u \in Users, Prune(u) PROVE PinnedInv'
  <1> DEFINE n == IF Len(records) > Keep THEN Len(records) - Keep ELSE 0
             stale == [i \in 1 .. n |-> records[Len(records) - Keep + 1 - i]]
             d == [at |-> "delete", drop |-> stale, alone |-> TRUE]
  <1>1. TypeOK /\ TypeOK'  BY PruneTyped DEF PinnedInv
  <1>2. Keep \in Nat \ {0} /\ Len(records) \in Nat /\ n \in Nat  BY <1>1, LimitsAssumption DEF TypeOK
  <1>3. \A i \in DOMAIN stale : Recorded(stale[i])
    <2>1. \A i \in 1 .. n : Len(records) - Keep + 1 - i \in 1 .. Len(records)  BY <1>2
    <2> QED  BY <1>1, <2>1 DEF TypeOK
  <1>4. /\ user[u].at = "prune" /\ \A v \in Users \ {u} : user'[v] = user[v]
        /\ user'[u] = IF stale = <<>> THEN Idle ELSE d
      BY <1>1 DEF Prune, Step, TypeOK
  <1> HIDE DEF stale
  <1>5. user'[u].at \in {"idle", "delete"} /\ \A c : Holds(u, c)' => Recorded(c)
      BY <1>3, <1>4 DEF Idle
  <1> QED  BY <1>1, <1>4, <1>5, PlacesKept DEF Prune

LEMMA BeginRestorePinned ==
    ASSUME PinnedInv, NEW u \in Users, NEW c \in Made, NEW undo \in BOOLEAN, BeginRestore(u, c, undo)
    PROVE  PinnedInv'
  <1>1. TypeOK /\ TypeOK'  BY BeginRestoreTyped DEF PinnedInv
  <1>2. user'[u].at = "list" /\ user'[u].of = c /\ \A v \in Users \ {u} : user'[v] = user[v]
      BY <1>1 DEF BeginRestore, Step, TypeOK
  <1>3. Recorded(c)  BY <1>1 DEF BeginRestore, TypeOK
  <1> QED  BY <1>1, <1>2, <1>3, PlacesKept DEF BeginRestore, Idle

LEMMA ListCurrentPinned == ASSUME PinnedInv, NEW u \in Users, ListCurrent(u) PROVE PinnedInv'
  <1>1. TypeOK /\ TypeOK'  BY ListCurrentTyped DEF PinnedInv
  <1>2. /\ user[u].at = "list" /\ user'[u].at = "checkout" /\ user'[u].of = user[u].of
        /\ \A v \in Users \ {u} : user'[v] = user[v]
      BY <1>1 DEF ListCurrent, Step, TypeOK
  <1> QED  BY <1>1, <1>2, PlacesKept DEF ListCurrent

LEMMA RestoredPinned == ASSUME PinnedInv, NEW u \in Users, Restored(u) PROVE PinnedInv'
  <1>1. TypeOK /\ TypeOK'  BY RestoredTyped DEF PinnedInv
  <1>2. /\ user[u].at = "restored"
        /\ \/ user'[u].at = "delete" /\ user'[u].drop = <<user[u].of>>
           \/ user'[u].at = "idle"
        /\ \A v \in Users \ {u} : user'[v] = user[v]
      BY <1>1 DEF Restored, Step, TypeOK, Idle
  <1> QED  BY <1>1, <1>2, PlacesKept DEF Restored

\* The steps that change the work tree or the index
LEMMA DisturbedPlaces ==
    ASSUME TypeOK, NEW v \in Users, user'[v] = Disturb(user)[v]
    PROVE  /\ user'[v].at = user[v].at
           /\ user[v].at \in {"record", "list", "checkout", "clean", "restored"} => user'[v].of = user[v].of
           /\ user[v].at \in {"delete", "unref"} => user'[v].drop = user[v].drop
  <1>1. user[v] \in {Idle} \cup Working(Made)  BY DEF TypeOK
  <1>2. CASE user[v] = Idle  BY <1>2, DisturbedStates DEF TypeOK
  <1>3. CASE user'[v] = [user[v] EXCEPT !.alone = FALSE]
      BY <1>1, <1>3, StateKinds DEF Working, Capturing, Recording, Pruning, Deleting, Listing, Restoring
  <1> QED  BY <1>2, <1>3, DisturbedStates DEF TypeOK

LEMMA CheckoutPinned == ASSUME PinnedInv, NEW u \in Users, Checkout(u) PROVE PinnedInv'
  <1>1. TypeOK /\ TypeOK' /\ UNCHANGED <<refs, records, undeleted>>
      BY CheckoutTyped DEF PinnedInv, Checkout
  <1>2. user[u] \in Restoring(Made) /\ user[u].at = "checkout"  BY <1>1, StateKinds DEF TypeOK, Checkout
  <1>3. CASE user' = [Disturb(user) EXCEPT ![u] = [user[u] EXCEPT !.at = "clean"]] /\ UNCHANGED faults
    <2>1. user'[u].at = "clean" /\ user'[u].of = user[u].of
      <3>1. Disturb(user) \in [Users -> {Idle} \cup Working(Made)]  BY <1>1, DisturbedStates DEF TypeOK
      <3> QED  BY <1>2, <1>3, <3>1 DEF Restoring
    <2>2. \A v \in Users \ {u} : user'[v] = Disturb(user)[v]
      <3>1. Disturb(user) \in [Users -> {Idle} \cup Working(Made)]  BY <1>1, DisturbedStates DEF TypeOK
      <3> QED  BY <1>3, <3>1
    <2>3. \A v \in Users \ {u} :
            /\ user'[v].at = user[v].at
            /\ user[v].at \in {"record", "list", "checkout", "clean", "restored"} => user'[v].of = user[v].of
            /\ user[v].at \in {"delete", "unref"} => user'[v].drop = user[v].drop
        BY <1>1, <2>2, DisturbedPlaces
    <2> QED  BY <1>1, <1>2, <1>3, <2>1, <2>3, PlacesKept
  <1>4. CASE Fails /\ Step(u, Idle)
    <2>1. faults' # 0  BY <1>1, <1>4 DEF Fails, TypeOK
    <2>2. user'[u] = Idle /\ \A v \in Users \ {u} : user'[v] = user[v]
        BY <1>1, <1>4 DEF Step, TypeOK
    <2> QED  BY <1>1, <2>1, <2>2, PlacesKept DEF Idle
  <1> QED  BY <1>3, <1>4 DEF Checkout

LEMMA CleanUpPinned == ASSUME PinnedInv, NEW u \in Users, CleanUp(u) PROVE PinnedInv'
  <1>1. TypeOK /\ TypeOK' /\ UNCHANGED <<refs, records, undeleted>>
      BY CleanUpTyped DEF PinnedInv, CleanUp
  <1>2. user[u] \in Restoring(Made) /\ user[u].at = "clean"  BY <1>1, StateKinds DEF TypeOK, CleanUp
  <1>3. Disturb(user) \in [Users -> {Idle} \cup Working(Made)]  BY <1>1, DisturbedStates DEF TypeOK
  <1>4. CASE user' = [Disturb(user) EXCEPT ![u] = [user[u] EXCEPT !.at = "restored"]] /\ UNCHANGED faults
    <2>1. user'[u].at = "restored" /\ user'[u].of = user[u].of
        BY <1>2, <1>3, <1>4 DEF Restoring
    <2>2. \A v \in Users \ {u} : user'[v] = Disturb(user)[v]  BY <1>3, <1>4
    <2>3. \A v \in Users \ {u} :
            /\ user'[v].at = user[v].at
            /\ user[v].at \in {"record", "list", "checkout", "clean", "restored"} => user'[v].of = user[v].of
            /\ user[v].at \in {"delete", "unref"} => user'[v].drop = user[v].drop
        BY <1>1, <2>2, DisturbedPlaces
    <2> QED  BY <1>1, <1>2, <1>4, <2>1, <2>3, PlacesKept
  <1>5. CASE Fails /\ user' = [Disturb(user) EXCEPT ![u] = Idle]
    <2>1. faults' # 0  BY <1>1, <1>5 DEF Fails, TypeOK
    <2>2. user'[u] = Idle /\ \A v \in Users \ {u} : user'[v] = Disturb(user)[v]  BY <1>3, <1>5
    <2> QED  BY <1>1, <2>1, <2>2, DisturbedPlaces, PlacesKept DEF Idle
  <1> QED  BY <1>4, <1>5 DEF CleanUp

LEMMA EnvironmentPinned ==
    ASSUME PinnedInv,
           \/ \E p \in Paths : GitAdd(p) \/ GitRemoveCached(p) \/ \E c \in Content \cup {Absent} : Write(p, c)
           \/ GitCommit \/ Crash
    PROVE  PinnedInv'
  <1>1. TypeOK /\ TypeOK'  BY EnvironmentTyped DEF PinnedInv
  <1>2. CASE Changes /\ UNCHANGED <<refs, records, undeleted, faults>>
    <2>1. \A v \in Users :
            /\ user'[v].at = user[v].at
            /\ user[v].at \in {"record", "list", "checkout", "clean", "restored"} => user'[v].of = user[v].of
            /\ user[v].at \in {"delete", "unref"} => user'[v].drop = user[v].drop
        BY <1>1, <1>2, DisturbedPlaces DEF Changes
    <2> QED  BY <1>1, <1>2, <2>1, PlacesKept
  <1>3. CASE Crash
    <2>1. faults' # 0 /\ UNCHANGED <<refs, records, undeleted>>  BY <1>1, <1>3 DEF Crash, Fails, TypeOK
    <2>2. \A v \in Users : user'[v].at = "idle"  BY <1>3 DEF Crash, Idle
    <2> QED  BY <1>1, <2>1, <2>2, PlacesKept
  <1> QED  BY <1>2, <1>3 DEF Write, GitAdd, GitRemoveCached, GitCommit

LEMMA CapturePinned == ASSUME PinnedInv, NEW u \in Users, Capture(u) PROVE PinnedInv'
  <1> DEFINE r == [at |-> "record", of |-> Len(commits) + 1, alone |-> TRUE]
  <1>1. TypeOK /\ TypeOK'  BY CaptureTyped DEF PinnedInv
  <1>2. /\ UNCHANGED <<records, undeleted>> /\ user[u].at = "capture"
        /\ \/ /\ refs' = refs \cup {Len(commits) + 1} /\ Step(u, r) /\ UNCHANGED faults
              /\ Len(commits) + 1 \notin Made
           \/ UNCHANGED refs /\ Step(u, Idle) /\ Fails
      BY <1>1, CaptureCases DEF Capture
  <1>3. CASE UNCHANGED refs /\ Step(u, Idle) /\ Fails
    <2>1. faults' # 0  BY <1>1, <1>3 DEF Fails, TypeOK
    <2>2. user'[u] = Idle /\ \A v \in Users \ {u} : user'[v] = user[v]
        BY <1>1, <1>3 DEF Step, TypeOK
    <2> QED  BY <1>1, <1>2, <2>1, <2>2, <1>3, PlacesKept DEF Idle
  <1>4. CASE /\ refs' = refs \cup {Len(commits) + 1} /\ Step(u, r) /\ UNCHANGED faults
             /\ Len(commits) + 1 \notin Made
    <2>1. user'[u] = r /\ \A v \in Users \ {u} : user'[v] = user[v]
        BY <1>1, <1>4 DEF Step, TypeOK
    <2>2. ~Recorded(Len(commits) + 1)
        BY <1>1, <1>4, ElementOfSeq DEF TypeOK
    <2>3. \A v \in Users : ~Holds(v, Len(commits) + 1)
      <3> SUFFICES ASSUME NEW v \in Users PROVE ~Holds(v, Len(commits) + 1)  OBVIOUS
      <3>1. user[v] \in {Idle} \cup Working(Made)  BY <1>1 DEF TypeOK
      <3>2. user[v].at \in {"record", "list", "checkout", "clean", "restored"} => user[v].of \in Made
          BY <3>1, StateKinds DEF Recording, Listing, Restoring
      <3>3. user[v].at \in {"delete", "unref"} => user[v].drop \in Seq(Made)
          BY <3>1, StateKinds DEF Deleting
      <3> QED  BY <1>4, <3>2, <3>3
    <2>4. OneRow'  BY <1>2 DEF PinnedInv, OneRow
    <2>5. Unrecorded'
      <3>1. user'[u].at = "record" /\ user'[u].of = Len(commits) + 1  BY <2>1
      <3> QED  BY <1>2, <1>4, <2>1, <2>2, <2>3, <3>1 DEF PinnedInv, Unrecorded
    <2>6. RowsFirst'  BY <1>2, <2>1 DEF PinnedInv, RowsFirst
    <2>7. CheckpointsPinned'
      <3>1. user'[u].at = "record" /\ user'[u].of = Len(commits) + 1  BY <2>1
      <3> QED  BY <1>2, <1>4, <2>1, <3>1 DEF PinnedInv, CheckpointsPinned, InHand
    <2> QED  BY <1>1, <2>4, <2>5, <2>6, <2>7 DEF PinnedInv
  <1> QED  BY <1>2, <1>3, <1>4

LEMMA RecordPinned == ASSUME PinnedInv, NEW u \in Users, Record(u) PROVE PinnedInv'
  <1>1. TypeOK /\ TypeOK' /\ UNCHANGED <<refs, undeleted>> /\ user[u].at = "record"
      BY RecordTyped DEF PinnedInv, Record
  <1>2. /\ user[u].of \in refs /\ ~Recorded(user[u].of) /\ user[u].of \in Made
        /\ \A v \in Users \ {u} : ~Holds(v, user[u].of)
      BY <1>1 DEF PinnedInv, Unrecorded, TypeOK
  <1>3. CASE /\ records' = Append(records, user[u].of)
             /\ Step(u, [at |-> "prune", alone |-> TRUE]) /\ UNCHANGED faults
    <2>1. user'[u].at = "prune" /\ \A v \in Users \ {u} : user'[v] = user[v]
        BY <1>1, <1>3 DEF Step, TypeOK
    <2>2. /\ DOMAIN records' = 1 .. (Len(records) + 1) /\ records'[Len(records) + 1] = user[u].of
          /\ DOMAIN records = 1 .. Len(records) /\ Len(records) \in Nat
          /\ \A i \in DOMAIN records : records'[i] = records[i]
      <3>1. records \in Seq(Made) /\ records' \in Seq(Made)  BY <1>1 DEF TypeOK, Record, Made
      <3>2. Len(records') = Len(records) + 1  BY <1>2, <1>3, <3>1, AppendProperties
      <3> QED  BY <1>2, <1>3, <3>1, <3>2, AppendProperties, LenProperties
    <2>3. \A c : Recorded(c)' <=> Recorded(c) \/ c = user[u].of
      <3>1. ASSUME NEW c, Recorded(c) PROVE Recorded(c)'  BY <2>2, <3>1
      <3>2. \E i \in DOMAIN records' : records'[i] = user[u].of
        <4>1. Len(records) + 1 \in DOMAIN records'  BY <2>2
        <4> QED  BY <2>2, <4>1
      <3>3. ASSUME NEW c, Recorded(c)' PROVE Recorded(c) \/ c = user[u].of  BY <2>2, <3>3
      <3> QED  BY <3>1, <3>2, <3>3
    <2>4. OneRow'  BY <1>2, <2>2 DEF PinnedInv, OneRow
    <2>5. Unrecorded'
      <3> SUFFICES ASSUME NEW v \in Users, user'[v].at = "record"
                   PROVE  (/\ user[v].of \in refs /\ ~Recorded(user[v].of)
                           /\ \A w \in Users \ {v} : ~Holds(w, user[v].of))'
          BY <1>1 DEF Unrecorded
      <3>1. v # u /\ user'[v] = user[v]  BY <2>1
      <3>2. /\ user[v].of \in refs /\ ~Recorded(user[v].of)
            /\ \A w \in Users \ {v} : ~Holds(w, user[v].of)
          BY <3>1 DEF PinnedInv, Unrecorded
      <3>3. user[v].of # user[u].of  BY <1>1, <3>1, <3>2
      <3>4. \A w \in Users \ {v} : ~Holds(w, user[v].of)'
        <4> SUFFICES ASSUME NEW w \in Users \ {v} PROVE ~Holds(w, user[v].of)'  OBVIOUS
        <4>1. CASE w = u  BY <2>1, <4>1
        <4>2. CASE w # u  BY <2>1, <3>1, <3>2, <4>2
        <4> QED  BY <4>1, <4>2
      <3> QED  BY <1>1, <2>3, <3>1, <3>2, <3>3, <3>4
    <2>6. RowsFirst'
      <3> SUFFICES ASSUME NEW v \in Users, (user[v].at = "unref" /\ Recorded(Head(user[v].drop)))'
                   PROVE  Head(user'[v].drop) \in undeleted
          BY <1>1 DEF RowsFirst
      <3>1. v # u /\ user'[v] = user[v]  BY <2>1
      <3>2. Head(user[v].drop) # user[u].of
        <4>1. user[v] \in Deleting(Made)  BY <1>1, <3>1, StateKinds DEF TypeOK
        <4>2. 1 \in DOMAIN user[v].drop /\ Head(user[v].drop) = user[v].drop[1]
            BY <4>1, HeadTailProperties, EmptySeq DEF Deleting
        <4> QED  BY <1>2, <3>1, <4>2
      <3> QED  BY <2>3, <3>1, <3>2 DEF PinnedInv, RowsFirst
    <2>7. CheckpointsPinned'
      <3>1. \A i \in DOMAIN records' : records'[i] \in refs' \cup undeleted'
          BY <1>1, <1>2, <2>2 DEF PinnedInv, CheckpointsPinned
      <3>2. ASSUME faults' = 0, NEW c \in refs' PROVE InHand(c)' \/ Recorded(c)'
        <4>1. InHand(c) \/ Recorded(c)  BY <1>1, <1>3, <3>2 DEF PinnedInv, CheckpointsPinned
        <4>2. CASE c = user[u].of  BY <2>3, <4>2
        <4>3. CASE c # user[u].of  BY <1>1, <2>1, <2>3, <4>1, <4>3 DEF InHand
        <4> QED  BY <4>2, <4>3
      <3> QED  BY <3>1, <3>2 DEF CheckpointsPinned
    <2> QED  BY <1>1, <2>4, <2>5, <2>6, <2>7 DEF PinnedInv
  <1>4. CASE Fails /\ Step(u, [at |-> "unref", drop |-> <<user[u].of>>, alone |-> TRUE]) /\ UNCHANGED records
    <2>1. /\ user'[u].at = "unref" /\ user'[u].drop = <<user[u].of>>
          /\ \A v \in Users \ {u} : user'[v] = user[v]
        BY <1>1, <1>4 DEF Step, TypeOK
    <2>2. faults' # 0  BY <1>1, <1>4 DEF Fails, TypeOK
    <2>3. OneRow'  BY <1>4 DEF PinnedInv, OneRow
    <2>4. Unrecorded'
      <3> SUFFICES ASSUME NEW v \in Users, user'[v].at = "record"
                   PROVE  (/\ user[v].of \in refs /\ ~Recorded(user[v].of)
                           /\ \A w \in Users \ {v} : ~Holds(w, user[v].of))'
          BY <1>1, <1>4 DEF Unrecorded
      <3>1. v # u /\ user'[v] = user[v]  BY <2>1
      <3>2. /\ user[v].of \in refs /\ ~Recorded(user[v].of)
            /\ \A w \in Users \ {v} : ~Holds(w, user[v].of)
          BY <3>1 DEF PinnedInv, Unrecorded
      <3>3. user[v].of # user[u].of  BY <1>1, <3>1, <3>2
      <3>4. \A w \in Users \ {v} : ~Holds(w, user[v].of)'
        <4> SUFFICES ASSUME NEW w \in Users \ {v} PROVE ~Holds(w, user[v].of)'  OBVIOUS
        <4>1. CASE w = u
          <5>1. \A i \in DOMAIN user'[u].drop : user'[u].drop[i] = user[u].of  BY <2>1
          <5> QED  BY <2>1, <3>1, <3>3, <4>1, <5>1
        <4>2. CASE w # u  BY <2>1, <3>1, <3>2, <4>2
        <4> QED  BY <4>1, <4>2
      <3> QED  BY <1>1, <1>4, <3>1, <3>2, <3>4
    <2>5. RowsFirst'
      <3>1. Head(user'[u].drop) = user[u].of  BY <2>1
      <3> QED  BY <1>1, <1>2, <1>4, <2>1, <3>1 DEF PinnedInv, RowsFirst
    <2>6. CheckpointsPinned'  BY <1>1, <1>4, <2>2 DEF PinnedInv, CheckpointsPinned
    <2> QED  BY <1>1, <2>3, <2>4, <2>5, <2>6 DEF PinnedInv
  <1> QED  BY <1>3, <1>4 DEF Record

LEMMA DeleteRecordPinned == ASSUME PinnedInv, NEW u \in Users, DeleteRecord(u) PROVE PinnedInv'
  <1> DEFINE c == Head(user[u].drop)
  <1>1. /\ TypeOK /\ TypeOK' /\ UNCHANGED <<refs, commits>> /\ user[u].at = "delete"
        /\ user[u] \in Deleting(Made)
      BY DeleteRecordTyped, StateKinds DEF PinnedInv, DeleteRecord, TypeOK
  <1>2. /\ user'[u].at = "unref" /\ user'[u].drop = user[u].drop
        /\ \A v \in Users \ {u} : user'[v] = user[v]
    <2>1. user'[u] = [user[u] EXCEPT !.at = "unref"] /\ \A v \in Users \ {u} : user'[v] = user[v]
        BY <1>1 DEF DeleteRecord, Step, TypeOK
    <2> QED  BY <1>1, <2>1 DEF Deleting
  <1>3. \A v \in Users : \A d : (Holds(v, d)' <=> Holds(v, d)) /\ (Owes(v, d)' <=> Owes(v, d))
      BY <1>1, <1>2
  <1>4. \A v \in Users : user'[v].at = "record" => user[v].at = "record" /\ user'[v] = user[v]
      BY <1>2
  <1>5. CASE records' = Others(c) /\ UNCHANGED <<faults, undeleted>>
    <2>1. OneRow'  BY <1>1, <1>5, OthersKept DEF PinnedInv, OneRow, TypeOK
    <2>2. \A d : Recorded(d)' <=> Recorded(d) /\ d # c
      <3>1. \A d : (\E i \in DOMAIN Others(c) : Others(c)[i] = d) <=> Recorded(d) /\ d # c
        <4> HIDE DEF c
        <4> QED  BY <1>1, OthersKept DEF PinnedInv, TypeOK
      <3> HIDE DEF c
      <3> QED  BY <1>5, <3>1
    <2>3. Unrecorded'
      <3> SUFFICES ASSUME NEW v \in Users, (user[v].at = "record")'
                   PROVE  (/\ user[v].of \in refs /\ ~Recorded(user[v].of)
                           /\ \A w \in Users \ {v} : ~Holds(w, user[v].of))'
          BY DEF Unrecorded
      <3>1. user[v].at = "record" /\ user'[v] = user[v]  BY <1>4
      <3>2. /\ user[v].of \in refs /\ ~Recorded(user[v].of)
            /\ \A w \in Users \ {v} : ~Holds(w, user[v].of)
          BY <3>1 DEF PinnedInv, Unrecorded
      <3>3. \A w \in Users \ {v} : ~Holds(w, user[v].of)'
        <4> HIDE DEF Holds
        <4> DEFINE k == user[v].of
        <4>1. \A w \in Users \ {v} : ~Holds(w, k)  BY <3>2
        <4>2. user'[v].of = k  BY <3>1
        <4> HIDE DEF k
        <4> QED  BY <1>3, <4>1, <4>2 DEF Holds, Drops, Names
      <3> QED  BY <1>1, <2>2, <3>1, <3>2, <3>3
    <2>4. RowsFirst'
      <3> SUFFICES ASSUME NEW v \in Users, (user[v].at = "unref" /\ Recorded(Head(user[v].drop)))'
                   PROVE  Head(user'[v].drop) \in undeleted
          BY <1>5 DEF RowsFirst
      <3>1. v # u  BY <1>2, <2>2
      <3> QED  BY <1>2, <2>2, <3>1 DEF PinnedInv, RowsFirst
    <2>5. \A d : (\E i \in DOMAIN records' : records'[i] = d) <=> Recorded(d) /\ d # c  BY <2>2
    <2>6. CheckpointsPinned'
      <3>1. \A i \in DOMAIN records' : records'[i] \in refs' \cup undeleted'
        <4> SUFFICES ASSUME NEW i \in DOMAIN records' PROVE records'[i] \in refs' \cup undeleted'  OBVIOUS
        <4>1. Recorded(records'[i])  BY <2>5
        <4> QED  BY <1>1, <1>5, <4>1 DEF PinnedInv, CheckpointsPinned
      <3>2. ASSUME faults' = 0, NEW d \in refs' PROVE InHand(d)' \/ Recorded(d)'
        <4>1. InHand(d) \/ Recorded(d)  BY <1>1, <1>5, <3>2 DEF PinnedInv, CheckpointsPinned
        <4>2. CASE InHand(d)
          <5>1. PICK v \in Users : Owes(v, d)  BY <4>2 DEF InHand
          <5>2. Owes(v, d)'
            <6> HIDE DEF Owes
            <6> QED  BY <1>3, <5>1
          <5> QED  BY <5>2 DEF InHand
        <4>3. CASE d = c
          <5>1. 1 \in DOMAIN user[u].drop /\ user[u].drop[1] = c
              BY <1>1, HeadTailProperties, EmptySeq DEF Deleting
          <5>2. Drops(u, d)'  BY <1>2, <4>3, <5>1
          <5> QED  BY <5>2 DEF InHand
        <4>4. CASE Recorded(d) /\ d # c  BY <2>2, <4>4
        <4> QED  BY <4>1, <4>2, <4>3, <4>4
      <3> QED  BY <3>1, <3>2 DEF CheckpointsPinned
    <2> QED  BY <1>1, <2>1, <2>3, <2>4, <2>6 DEF PinnedInv
  <1>6. CASE Fails /\ undeleted' = undeleted \cup {c} /\ UNCHANGED records
    <2>1. faults' # 0  BY <1>1, <1>6 DEF Fails, TypeOK
    <2>2. OneRow' /\ CheckpointsPinned'
        BY <1>1, <1>6, <2>1 DEF PinnedInv, OneRow, CheckpointsPinned
    <2>3. Unrecorded'
      <3> SUFFICES ASSUME NEW v \in Users, (user[v].at = "record")'
                   PROVE  (/\ user[v].of \in refs /\ ~Recorded(user[v].of)
                           /\ \A w \in Users \ {v} : ~Holds(w, user[v].of))'
          BY DEF Unrecorded
      <3>1. user[v].at = "record" /\ user'[v] = user[v]  BY <1>4
      <3>2. /\ user[v].of \in refs /\ ~Recorded(user[v].of)
            /\ \A w \in Users \ {v} : ~Holds(w, user[v].of)
          BY <3>1 DEF PinnedInv, Unrecorded
      <3>3. \A w \in Users \ {v} : ~Holds(w, user[v].of)'
        <4> HIDE DEF Holds
        <4> DEFINE k == user[v].of
        <4>1. \A w \in Users \ {v} : ~Holds(w, k)  BY <3>2
        <4>2. user'[v].of = k  BY <3>1
        <4> HIDE DEF k
        <4> QED  BY <1>3, <4>1, <4>2 DEF Holds, Drops, Names
      <3> QED  BY <1>1, <1>6, <3>1, <3>2, <3>3
    <2>4. RowsFirst'
      <3> SUFFICES ASSUME NEW v \in Users, (user[v].at = "unref" /\ Recorded(Head(user[v].drop)))'
                   PROVE  Head(user'[v].drop) \in undeleted'
          BY DEF RowsFirst
      <3>1. CASE v = u  BY <1>2, <1>6, <3>1
      <3>2. CASE v # u  BY <1>2, <1>6, <3>2 DEF PinnedInv, RowsFirst
      <3> QED  BY <3>1, <3>2
    <2> QED  BY <1>1, <2>2, <2>3, <2>4 DEF PinnedInv
  <1> QED  BY <1>5, <1>6 DEF DeleteRecord

LEMMA DeleteRefPinned == ASSUME PinnedInv, NEW u \in Users, DeleteRef(u) PROVE PinnedInv'
  <1> DEFINE c == Head(user[u].drop)
             left == Tail(user[u].drop)
             d == [at |-> "delete", drop |-> left, alone |-> TRUE]
  <1>1. /\ TypeOK /\ TypeOK' /\ UNCHANGED <<records, commits, undeleted>> /\ user[u].at = "unref"
        /\ user[u] \in Deleting(Made)
      BY DeleteRefTyped, StateKinds DEF PinnedInv, DeleteRef, TypeOK
  <1>2. /\ user'[u] = IF left = <<>> THEN Idle ELSE d
        /\ \A v \in Users \ {u} : user'[v] = user[v]
      BY <1>1 DEF DeleteRef, Step, TypeOK
  <1>3. /\ left \in Seq(Made) /\ 1 \in DOMAIN user[u].drop /\ user[u].drop[1] = c
        /\ \A i \in DOMAIN left : i + 1 \in DOMAIN user[u].drop /\ left[i] = user[u].drop[i + 1]
        /\ \A i \in DOMAIN user[u].drop : i = 1 \/ (i - 1 \in DOMAIN left /\ left[i - 1] = user[u].drop[i])
    <2>1. user[u].drop \in Seq(Made) /\ user[u].drop # <<>>  BY <1>1 DEF Deleting
    <2> QED  BY <2>1, HeadTailProperties, EmptySeq, LenProperties
  <1> HIDE DEF left
  <1>4. \A k : Holds(u, k)' => Holds(u, k)
    <2> SUFFICES ASSUME NEW k, Holds(u, k)' PROVE Holds(u, k)  OBVIOUS
    <2>1. left # <<>> /\ user'[u].at = "delete" /\ user'[u].drop = left
        BY <1>2 DEF Idle
    <2>2. PICK i \in DOMAIN left : left[i] = k  BY <2>1
    <2> QED  BY <1>1, <1>3, <2>2
  <1>5. \A k : Holds(u, k) /\ k # c => Drops(u, k)'
    <2> SUFFICES ASSUME NEW k, Holds(u, k), k # c PROVE Drops(u, k)'  OBVIOUS
    <2>1. PICK i \in DOMAIN user[u].drop : user[u].drop[i] = k  BY <1>1
    <2>2. i - 1 \in DOMAIN left /\ left[i - 1] = k  BY <1>3, <2>1
    <2>3. left # <<>>  BY <2>2
    <2> QED  BY <1>2, <2>2, <2>3
  <1>6. Holds(u, c)  BY <1>1, <1>3
  <1>7. user'[u].at \in {"idle", "delete"}  BY <1>2 DEF Idle
  <1>8. OneRow'  BY <1>1 DEF PinnedInv, OneRow
  <1>9. Unrecorded'
    <2> SUFFICES ASSUME NEW v \in Users, (user[v].at = "record")'
                 PROVE  (/\ user[v].of \in refs /\ ~Recorded(user[v].of)
                         /\ \A w \in Users \ {v} : ~Holds(w, user[v].of))'
        BY DEF Unrecorded
    <2>1. v # u /\ user'[v] = user[v]  BY <1>2, <1>7
    <2>2. /\ user[v].of \in refs /\ ~Recorded(user[v].of)
          /\ \A w \in Users \ {v} : ~Holds(w, user[v].of)
        BY <2>1 DEF PinnedInv, Unrecorded
    <2>3. user[v].of # c  BY <1>6, <2>1, <2>2
    <2>4. user[v].of \in refs'  BY <2>2, <2>3 DEF DeleteRef
    <2>5. \A w \in Users \ {v} : ~Holds(w, user[v].of)'
      <3>0. PICK k : k = user[v].of  OBVIOUS
      <3>1. \A w \in Users \ {v} : ~Holds(w, k)  BY <2>2, <3>0
      <3>2. user'[v].of = k  BY <2>1, <3>0
      <3> SUFFICES ASSUME NEW w \in Users \ {v} PROVE ~Holds(w, user[v].of)'  OBVIOUS
      <3>3. CASE w = u
        <4>1. ~Holds(u, k)'
          <5> HIDE DEF Holds
          <5> QED  BY <1>4, <3>1, <3>3
        <4> QED  BY <3>2, <3>3, <4>1
      <3>4. CASE w # u  BY <1>2, <3>1, <3>2, <3>4
      <3> QED  BY <3>3, <3>4
    <2> QED  BY <1>1, <2>1, <2>2, <2>4, <2>5
  <1>10. RowsFirst'
    <2> SUFFICES ASSUME NEW v \in Users, (user[v].at = "unref" /\ Recorded(Head(user[v].drop)))'
                 PROVE  Head(user'[v].drop) \in undeleted
        BY <1>1 DEF RowsFirst
    <2>1. v # u  BY <1>7
    <2> QED  BY <1>1, <1>2, <2>1 DEF PinnedInv, RowsFirst
  <1>11. CheckpointsPinned'
    <2>1. \A i \in DOMAIN records' : records'[i] \in refs' \cup undeleted'
      <3>1. Recorded(c) => c \in undeleted  BY <1>1 DEF PinnedInv, RowsFirst
      <3> QED  BY <1>1, <3>1 DEF PinnedInv, CheckpointsPinned, DeleteRef
    <2>2. ASSUME faults' = 0, NEW k \in refs' PROVE InHand(k)' \/ Recorded(k)'
      <3>1. refs' = refs \ {c} /\ UNCHANGED faults  BY <1>1, <2>2 DEF DeleteRef, Fails, TypeOK
      <3>2. InHand(k) \/ Recorded(k)  BY <2>2, <3>1 DEF PinnedInv, CheckpointsPinned
      <3>3. CASE InHand(k)
        <4>1. PICK v \in Users : Owes(v, k)  BY <3>3 DEF InHand
        <4>2. CASE v = u
          <5>1. Drops(u, k)'
            <6>1. Holds(u, k)  BY <4>1, <4>2
            <6> HIDE DEF Holds, Drops
            <6> QED  BY <1>5, <2>2, <3>1, <6>1
          <5> QED  BY <5>1 DEF InHand
        <4>3. CASE v # u
          <5>1. Owes(v, k)'  BY <1>2, <4>1, <4>3
          <5> QED  BY <5>1 DEF InHand
        <4> QED  BY <4>2, <4>3
      <3> QED  BY <1>1, <3>2, <3>3
    <2> QED  BY <2>1, <2>2 DEF CheckpointsPinned
  <1> QED  BY <1>1, <1>8, <1>9, <1>10, <1>11 DEF PinnedInv

LEMMA NextPinned == PinnedInv /\ [CpNext]_cpVars => PinnedInv'
  <1> SUFFICES ASSUME PinnedInv, [CpNext]_cpVars PROVE PinnedInv'  OBVIOUS
  <1>1. ASSUME NEW u \in Users, UserStep(u) PROVE PinnedInv'
    <2>1. ASSUME NEW c \in 1 .. Len(commits), NEW undo \in BOOLEAN, BeginRestore(u, c, undo) PROVE PinnedInv'
        BY <2>1, BeginRestorePinned DEF Made
    <2> QED  BY <1>1, <2>1, BeginCreatePinned, CapturePinned, RecordPinned, PrunePinned,
                DeleteRecordPinned, DeleteRefPinned, ListCurrentPinned, CheckoutPinned,
                CleanUpPinned, RestoredPinned DEF UserStep
  <1>2. CASE UNCHANGED cpVars
    <2>1. TypeOK'  BY <1>2 DEF PinnedInv, TypeOK, Made, cpVars
    <2> QED  BY <1>2, <2>1, PlacesKept DEF cpVars
  <1> QED  BY <1>1, <1>2, EnvironmentPinned DEF CpNext

\* Types hold in every state.
THEOREM TypesKept == CpSpec => []TypeOK
  <1>1. PinnedInv => TypeOK  BY DEF PinnedInv
  <1> QED  BY <1>1, InitPinned, NextPinned, PTL DEF CpSpec

\* A checkpoint that a user is offered has a ref that keeps its commit, whatever fails in
\* creating, pruning, restoring and undoing, at whatever step the server crashes, and however
\* the requests of several users interleave; without a failure no ref outlives its row.
THEOREM OffersKept == CpSpec => []CheckpointsPinned
  <1>1. PinnedInv => CheckpointsPinned  BY DEF PinnedInv
  <1> QED  BY <1>1, InitPinned, NextPinned, PTL DEF CpSpec

-----------------------------------------------------------------------------
(* A restore brings the snapshot back. *)

USE DEF SnapshotSound, ListSound, TreeSound

LEMMA IgnoredKept ==
    ASSUME disk'[IgnoreFile] = disk[IgnoreFile]
    PROVE  Ignored(disk') = Ignored(disk)
  BY DEF Ignored

LEMMA InitRestores == CpInit => RestoreInv
  <1> SUFFICES ASSUME CpInit PROVE RestoreInv  OBVIOUS
  <1>1. PinnedInv  BY InitPinned
  <1>2. RulesKept
    <2>1. disk[IgnoreFile] \in Content  BY PathsAssumption DEF CpInit
    <2> QED  BY <2>1 DEF CpInit, RulesKept
  <1>3. CommitsSound  BY DEF CpInit, CommitsSound, Made
  <1>4. \A u \in Users : RequestSound(u)  BY DEF CpInit, RequestSound, Idle
  <1> QED  BY <1>1, <1>2, <1>3, <1>4 DEF RestoreInv

\* A step that changes no file
LEMMA StillFiles ==
    ASSUME RestoreInv, PinnedInv', UNCHANGED <<disk, tracked, committed, commits>>,
           NEW u \in Users, \A v \in Users \ {u} : user'[v] = user[v], RequestSound(u)'
    PROVE  RestoreInv'
  <1>1. RulesKept'  BY DEF RestoreInv, RulesKept, Ignored
  <1>2. CommitsSound'  BY DEF RestoreInv, CommitsSound, Made, Ignored, Present
  <1>3. ASSUME NEW v \in Users \ {u} PROVE RequestSound(v)'
    <2>1. RequestSound(v) /\ user'[v] = user[v]  BY DEF RestoreInv
    <2> QED  BY <2>1 DEF RequestSound, UntrackedFiles, Ignored, Present, Back, Cleaned, Doomed
  <1> QED  BY <1>1, <1>2, <1>3 DEF RestoreInv

\* A step that changes files, and disturbs the requests
LEMMA ChangedFiles ==
    ASSUME RestoreInv, TypeOK', UNCHANGED commits, disk'[IgnoreFile] = disk[IgnoreFile],
           tracked \subseteq tracked'
    PROVE  /\ CommitsSound'
           /\ \A v \in Users : user'[v] = Disturb(user)[v] => RequestSound(v)'
  <1>1. Ignored(disk') = Ignored(disk)  BY IgnoredKept
  <1>2. CommitsSound'
    <2> SUFFICES ASSUME NEW k \in Made
                 PROVE  (/\ commits[k].before[IgnoreFile] = disk[IgnoreFile]
                         /\ IgnoreFile \in tracked \cup Ignored(disk) \cup commits[k].untracked
                         /\ \A p \in Paths :
                              /\ commits[k].files[p] # Absent => commits[k].before[p] = commits[k].files[p]
                              /\ commits[k].files[p] = Absent /\ commits[k].before[p] # Absent =>
                                     p \in Ignored(disk) \ FirstTracked
                         /\ commits[k].whole =>
                              /\ commits[k].untracked \subseteq Present(commits[k].before)
                              /\ Present(commits[k].before)
                                    \subseteq tracked \cup Ignored(disk) \cup commits[k].untracked)'
        BY DEF CommitsSound, Made
    <2> QED  BY <1>1 DEF RestoreInv, CommitsSound, Present
  <1>3. ASSUME NEW v \in Users, user'[v] = Disturb(user)[v] PROVE RequestSound(v)'
    <2>1. user[v] \in {Idle} \cup Working(Made) /\ RequestSound(v) /\ TypeOK
        BY DEF RestoreInv, PinnedInv, TypeOK
    <2>2. CASE user'[v] = Idle  BY <2>2 DEF RequestSound, Idle
    <2>3. CASE user[v] # Idle /\ user'[v] = [user[v] EXCEPT !.alone = FALSE]
      <3>1. /\ user'[v].at = user[v].at /\ user'[v].alone = FALSE
            /\ user[v].at = "capture" => user'[v].untracked = user[v].untracked
            /\ user[v].at \in {"checkout", "clean", "restored"} =>
                 /\ user'[v].hidden = user[v].hidden /\ user'[v].found = user[v].found
                 /\ user'[v].of = user[v].of
          BY <2>1, <2>3, StateKinds DEF Working, Capturing, Recording, Pruning, Deleting, Listing, Restoring
      <3> QED  BY <1>1, <2>1, <3>1 DEF RequestSound
    <2> QED  BY <1>3, <2>1, <2>2, <2>3, DisturbedStates DEF TypeOK
  <1> QED  BY <1>2, <1>3

\* A request that is neither listing nor restoring has nothing to get wrong.
LEMMA RestsSound ==
    ASSUME NEW u \in Users, user'[u].at \notin {"capture", "checkout", "clean", "restored"}
    PROVE  RequestSound(u)'
  BY DEF RequestSound

LEMMA BeginCreateRestores == ASSUME RestoreInv, NEW u \in Users, BeginCreate(u) PROVE RestoreInv'
  <1>1. PinnedInv /\ PinnedInv' /\ TypeOK  BY BeginCreatePinned DEF RestoreInv, PinnedInv
  <1>2. /\ user'[u].at = "capture" /\ user'[u].untracked = UntrackedFiles
        /\ \A v \in Users \ {u} : user'[v] = user[v]
        /\ UNCHANGED <<disk, tracked, committed, commits>>
      BY <1>1 DEF BeginCreate, Step, TypeOK, treeVars
  <1>3. UNCHANGED UntrackedFiles /\ Ignored(disk') = Ignored(disk)
      BY <1>2 DEF UntrackedFiles, Ignored, Present
  <1>4. RequestSound(u)'
    <2>1. IgnoreFile \in tracked \cup Ignored(disk) \cup UntrackedFiles
        BY PathsAssumption DEF RestoreInv, RulesKept, UntrackedFiles, Present
    <2> QED  BY <1>2, <1>3, <2>1 DEF RequestSound
  <1> QED  BY <1>1, <1>2, <1>4, StillFiles

LEMMA CaptureRestores == ASSUME RestoreInv, NEW u \in Users, Capture(u) PROVE RestoreInv'
  <1> DEFINE c == [files |-> Captured, before |-> disk, untracked |-> user[u].untracked,
                   folder |-> user[u].folder, whole |-> user[u].alone]
             r == [at |-> "record", of |-> Len(commits) + 1, alone |-> TRUE]
             n == Len(commits) + 1
             made ==
                 /\ Made' = Made \cup {n} /\ n \notin Made
                 /\ commits'[n] = c /\ \A k \in Made : commits'[k] = commits[k]
                 /\ Step(u, r)
             failed == UNCHANGED <<commits, refs>> /\ Step(u, Idle) /\ Fails
  <1>1. PinnedInv /\ PinnedInv' /\ TypeOK /\ TypeOK'  BY CapturePinned DEF RestoreInv, PinnedInv
  <1>2. user[u] \in Capturing /\ UNCHANGED <<disk, tracked, committed>> /\ (made \/ failed)
      BY <1>1, CaptureCases
  <1>3. CASE failed
    <2>1. user'[u] = Idle /\ \A v \in Users \ {u} : user'[v] = user[v]
        BY <1>1, <1>3 DEF Step, TypeOK
    <2>2. user'[u].at = "idle"  BY <2>1 DEF Idle
    <2> QED  BY <1>1, <1>2, <1>3, <2>1, <2>2, RestsSound, StillFiles
  <1>4. CASE made
    <2>1. user'[u] = r /\ \A v \in Users \ {u} : user'[v] = user[v]
        BY <1>1, <1>4 DEF Step, TypeOK
    <2>2. Ignored(disk') = Ignored(disk)  BY <1>2
    <2>3. RulesKept'  BY <1>2, <2>2 DEF RestoreInv, RulesKept
    <2>4. /\ c.before[IgnoreFile] = disk[IgnoreFile]
          /\ IgnoreFile \in tracked \cup Ignored(disk) \cup c.untracked
          /\ \A p \in Paths :
               /\ c.files[p] # Absent => c.before[p] = c.files[p]
               /\ c.files[p] = Absent /\ c.before[p] # Absent => p \in Ignored(disk) \ FirstTracked
          /\ c.whole =>
               /\ c.untracked \subseteq Present(c.before)
               /\ Present(c.before) \subseteq tracked \cup Ignored(disk) \cup c.untracked
      <3>1. /\ SnapshotSound(u) /\ user[u].at = "capture" /\ FirstTracked \subseteq committed
            /\ user[u].alone \in BOOLEAN
          BY <1>2 DEF RestoreInv, RequestSound, Capturing, RulesKept
      <3>2. \A p \in Paths : Captured[p] = IF p \in committed \/ p \notin Ignored(disk) THEN disk[p] ELSE Absent
          BY DEF Captured
      <3>3. user[u].alone => user[u].untracked = Present(disk) \ (tracked \cup Ignored(disk))
          BY <3>1 DEF UntrackedFiles
      <3> QED  BY <3>1, <3>2, <3>3
    <2> HIDE DEF c
    <2>5. CommitsSound'
      <3> SUFFICES ASSUME NEW k \in Made'
                   PROVE  (/\ commits[k].before[IgnoreFile] = disk[IgnoreFile]
                           /\ IgnoreFile \in tracked \cup Ignored(disk) \cup commits[k].untracked
                           /\ \A p \in Paths :
                                /\ commits[k].files[p] # Absent => commits[k].before[p] = commits[k].files[p]
                                /\ commits[k].files[p] = Absent /\ commits[k].before[p] # Absent =>
                                       p \in Ignored(disk) \ FirstTracked
                           /\ commits[k].whole =>
                                /\ commits[k].untracked \subseteq Present(commits[k].before)
                                /\ Present(commits[k].before)
                                      \subseteq tracked \cup Ignored(disk) \cup commits[k].untracked)'
          BY DEF CommitsSound
      <3>1. CASE k \in Made  BY <1>2, <1>4, <2>2, <3>1 DEF RestoreInv, CommitsSound, Present
      <3>2. CASE k = n  BY <1>2, <1>4, <2>2, <2>4, <3>2 DEF Present
      <3> QED  BY <1>4, <3>1, <3>2
    <2>6. ASSUME NEW v \in Users \ {u} PROVE RequestSound(v)'
      <3>1. RequestSound(v) /\ user'[v] = user[v] /\ user[v] \in {Idle} \cup Working(Made)
          BY <1>1, <2>1 DEF RestoreInv, TypeOK
      <3>2. user[v].at \in {"checkout", "clean", "restored"} => user[v].of \in Made
          BY <3>1, StateKinds DEF Restoring
      <3> QED  BY <1>2, <1>4, <2>2, <3>1, <3>2 DEF RequestSound, UntrackedFiles, Present, Back, Cleaned, Doomed
    <2>7. RequestSound(u)'  BY <2>1, RestsSound
    <2> QED  BY <1>1, <2>3, <2>5, <2>6, <2>7 DEF RestoreInv
  <1> QED  BY <1>2, <1>3, <1>4

\* A step of a request to a place where it has no listing
LEMMA RowsRestore ==
    ASSUME RestoreInv, NEW u \in Users,
           \/ Record(u) \/ Prune(u) \/ DeleteRecord(u) \/ DeleteRef(u) \/ Restored(u)
           \/ \E c \in 1 .. Len(commits), undo \in BOOLEAN : BeginRestore(u, c, undo)
    PROVE  RestoreInv'
  <1>1. PinnedInv /\ TypeOK  BY DEF RestoreInv, PinnedInv
  <1>2. PinnedInv'
    <2>1. ASSUME NEW c \in 1 .. Len(commits), NEW undo \in BOOLEAN, BeginRestore(u, c, undo) PROVE PinnedInv'
        BY <1>1, <2>1, BeginRestorePinned DEF Made
    <2> QED  BY <1>1, <2>1, RecordPinned, PrunePinned, DeleteRecordPinned, DeleteRefPinned, RestoredPinned
  <1>3. UNCHANGED <<disk, tracked, committed, commits>>
      BY DEF Record, Prune, DeleteRecord, DeleteRef, Restored, BeginRestore, treeVars
  <1>4. /\ user'[u].at \notin {"capture", "checkout", "clean", "restored"}
        /\ \A v \in Users \ {u} : user'[v] = user[v]
    <2>1. CASE Record(u)  BY <1>1, <2>1 DEF Record, Step, TypeOK
    <2>2. CASE Prune(u)
      <3>1. user'[u].at \in {"idle", "delete"} /\ \A v \in Users \ {u} : user'[v] = user[v]
          BY <1>1, <2>2 DEF Prune, Step, TypeOK, Idle
      <3> QED  BY <3>1
    <2>3. CASE DeleteRecord(u)
      <3>1. user[u] \in Deleting(Made)  BY <1>1, <2>3, StateKinds DEF DeleteRecord, TypeOK
      <3>2. user'[u] = [user[u] EXCEPT !.at = "unref"] /\ \A v \in Users \ {u} : user'[v] = user[v]
          BY <1>1, <2>3 DEF DeleteRecord, Step, TypeOK
      <3> QED  BY <3>1, <3>2 DEF Deleting
    <2>4. CASE DeleteRef(u)
      <3>1. user'[u].at \in {"idle", "delete"} /\ \A v \in Users \ {u} : user'[v] = user[v]
          BY <1>1, <2>4 DEF DeleteRef, Step, TypeOK, Idle
      <3> QED  BY <3>1
    <2>5. CASE Restored(u)
      <3>1. user'[u].at \in {"idle", "delete"} /\ \A v \in Users \ {u} : user'[v] = user[v]
          BY <1>1, <2>5 DEF Restored, Step, TypeOK, Idle
      <3> QED  BY <3>1
    <2>6. ASSUME NEW c \in 1 .. Len(commits), NEW undo \in BOOLEAN, BeginRestore(u, c, undo)
          PROVE  user'[u].at = "list" /\ \A v \in Users \ {u} : user'[v] = user[v]
        BY <1>1, <2>6 DEF BeginRestore, Step, TypeOK
    <2> QED  BY <2>1, <2>2, <2>3, <2>4, <2>5, <2>6
  <1> QED  BY <1>2, <1>3, <1>4, RestsSound, StillFiles

LEMMA ListCurrentRestores == ASSUME RestoreInv, NEW u \in Users, ListCurrent(u) PROVE RestoreInv'
  <1>1. PinnedInv /\ PinnedInv' /\ TypeOK  BY ListCurrentPinned DEF RestoreInv, PinnedInv
  <1>2. /\ user'[u].at = "checkout" /\ user'[u].of = user[u].of /\ user'[u].found = UntrackedFiles
        /\ user'[u].hidden = Ignored(disk) /\ user'[u].was = disk
        /\ \A v \in Users \ {u} : user'[v] = user[v]
        /\ UNCHANGED <<disk, tracked, committed, commits>>
      BY <1>1 DEF ListCurrent, Step, TypeOK, treeVars
  <1>3. user[u].of \in Made
    <2>1. user[u] \in Listing(Made)  BY <1>1, StateKinds DEF ListCurrent, TypeOK
    <2> QED  BY <2>1 DEF Listing
  <1>4. Ignored(disk') = Ignored(disk)  BY <1>2
  <1>5. RequestSound(u)'
    <2>1. IgnoreFile \in UntrackedFiles => IgnoreFile \in commits[user[u].of].untracked
        BY <1>3 DEF RestoreInv, CommitsSound, UntrackedFiles
    <2> QED  BY <1>2, <1>4, <2>1 DEF RequestSound, UntrackedFiles, Present
  <1> QED  BY <1>1, <1>2, <1>5, StillFiles

\* No restore touches the file with the ignore rules: it is as it was at first.
LEMMA RulesStay ==
    ASSUME RestoreInv, NEW c \in Made
    PROVE  CheckedOut(c)[IgnoreFile] = disk[IgnoreFile]
  <1>1. IgnoreFile \in Paths  BY PathsAssumption
  <1>2. /\ commits[c].before[IgnoreFile] = disk[IgnoreFile]
        /\ commits[c].files[IgnoreFile] # Absent => commits[c].files[IgnoreFile] = disk[IgnoreFile]
        /\ commits[c].files[IgnoreFile] = Absent => IgnoreFile \in Ignored(disk) \ FirstTracked
      BY <1>1 DEF RestoreInv, CommitsSound, RulesKept
  <1>3. IgnoreFile \in Ignored(disk) \ FirstTracked => IgnoreFile \notin tracked
      BY DEF RestoreInv, RulesKept
  <1> QED  BY <1>1, <1>2, <1>3 DEF CheckedOut

LEMMA CheckoutRestores == ASSUME RestoreInv, NEW u \in Users, Checkout(u) PROVE RestoreInv'
  <1>1. PinnedInv /\ PinnedInv' /\ TypeOK /\ TypeOK'  BY CheckoutPinned DEF RestoreInv, PinnedInv
  <1>2. /\ user[u] \in Restoring(Made) /\ user[u].at = "checkout"
        /\ UNCHANGED <<tracked, committed, commits>>
      BY <1>1, StateKinds DEF TypeOK, Checkout
  <1>3. CASE disk' = CheckedOut(user[u].of) /\ user' = [Disturb(user) EXCEPT ![u] = [user[u] EXCEPT !.at = "clean"]]
    <2>1. Disturb(user) \in [Users -> {Idle} \cup Working(Made)]  BY <1>1, DisturbedStates DEF TypeOK
    <2>2. /\ user'[u] = [user[u] EXCEPT !.at = "clean"]
          /\ \A v \in Users \ {u} : user'[v] = Disturb(user)[v]
        BY <1>3, <2>1
    <2>3. /\ user'[u].at = "clean" /\ user'[u].of = user[u].of /\ user'[u].found = user[u].found
          /\ user'[u].hidden = user[u].hidden /\ user'[u].was = user[u].was
          /\ user'[u].alone = user[u].alone /\ user[u].of \in Made
        BY <1>2, <2>2 DEF Restoring
    <2>4. disk'[IgnoreFile] = disk[IgnoreFile]  BY <1>3, <2>3, RulesStay
    <2>5. Ignored(disk') = Ignored(disk)  BY <2>4, IgnoredKept
    <2>6. RulesKept'  BY <1>2, <2>4, <2>5 DEF RestoreInv, RulesKept
    <2>7. CommitsSound' /\ \A v \in Users \ {u} : RequestSound(v)'
        BY <1>1, <1>2, <2>2, <2>4, ChangedFiles
    <2>8. RequestSound(u)'
      <3>1. RequestSound(u)  BY DEF RestoreInv
      <3>2. user[u].alone => disk' = Back(u)'
          BY <1>2, <1>3, <2>3, <3>1 DEF RequestSound, CheckedOut, Back
      <3> QED  BY <1>2, <2>3, <2>5, <3>1, <3>2 DEF RequestSound, Present
    <2> QED  BY <1>1, <2>6, <2>7, <2>8 DEF RestoreInv
  <1>4. CASE Step(u, Idle) /\ UNCHANGED disk
    <2>1. user'[u].at = "idle" /\ \A v \in Users \ {u} : user'[v] = user[v]
        BY <1>1, <1>4 DEF Step, TypeOK, Idle
    <2> QED  BY <1>1, <1>2, <1>4, <2>1, RestsSound, StillFiles
  <1> QED  BY <1>3, <1>4 DEF Checkout

LEMMA CleanUpRestores == ASSUME RestoreInv, NEW u \in Users, CleanUp(u) PROVE RestoreInv'
  <1> DEFINE doomed == Doomed(user[u].found, user[u].of)
             without(gone) == [p \in Paths |-> IF p \in gone THEN Absent ELSE disk[p]]
  <1>1. PinnedInv /\ PinnedInv' /\ TypeOK /\ TypeOK'  BY CleanUpPinned DEF RestoreInv, PinnedInv
  <1>2. /\ user[u] \in Restoring(Made) /\ user[u].at = "clean" /\ RequestSound(u)
        /\ UNCHANGED <<tracked, committed, commits>>
      BY <1>1, StateKinds DEF TypeOK, CleanUp, RestoreInv
  <1>3. PICK gone \in SUBSET doomed :
            /\ disk' = without(gone)
            /\ \/ gone = doomed /\ user' = [Disturb(user) EXCEPT ![u] = [user[u] EXCEPT !.at = "restored"]]
               \/ user' = [Disturb(user) EXCEPT ![u] = Idle]
      BY DEF CleanUp
  <1>4. Disturb(user) \in [Users -> {Idle} \cup Working(Made)]  BY <1>1, DisturbedStates DEF TypeOK
  <1>5. \A v \in Users \ {u} : user'[v] = Disturb(user)[v]  BY <1>3, <1>4
  <1>6. disk'[IgnoreFile] = disk[IgnoreFile]
    <2>1. IgnoreFile \notin doomed  BY <1>2 DEF RequestSound, Doomed
    <2> QED  BY <1>3, <2>1, PathsAssumption
  <1>7. Ignored(disk') = Ignored(disk)  BY <1>6, IgnoredKept
  <1>8. RulesKept'  BY <1>2, <1>6, <1>7 DEF RestoreInv, RulesKept
  <1>9. CommitsSound' /\ \A v \in Users \ {u} : RequestSound(v)'
      BY <1>1, <1>2, <1>5, <1>6, ChangedFiles
  <1>10. RequestSound(u)'
    <2>1. CASE gone = doomed /\ user' = [Disturb(user) EXCEPT ![u] = [user[u] EXCEPT !.at = "restored"]]
      <3>1. user'[u] = [user[u] EXCEPT !.at = "restored"]  BY <1>4, <2>1
      <3>2. /\ user'[u].at = "restored" /\ user'[u].of = user[u].of /\ user'[u].found = user[u].found
            /\ user'[u].hidden = user[u].hidden /\ user'[u].was = user[u].was
            /\ user'[u].alone = user[u].alone
          BY <1>2, <3>1 DEF Restoring
      <3>3. Back(u)' = Back(u)  BY <1>2, <3>2 DEF Back
      <3>4. Doomed(user[u].found, user[u].of)' = doomed  BY <1>2, <3>2 DEF Doomed
      <3>5. user[u].alone => disk' = Cleaned(u)'
        <4>1. user[u].alone => disk = Back(u)  BY <1>2 DEF RequestSound
        <4> HIDE DEF doomed
        <4> QED  BY <1>3, <2>1, <3>3, <3>4, <4>1 DEF Cleaned
      <3> QED  BY <1>2, <1>7, <3>2, <3>5 DEF RequestSound, Present
    <2>2. CASE user' = [Disturb(user) EXCEPT ![u] = Idle]
      <3>1. user'[u].at = "idle"  BY <1>4, <2>2 DEF Idle
      <3> QED  BY <3>1, RestsSound
    <2> QED  BY <1>3, <2>1, <2>2
  <1> QED  BY <1>1, <1>8, <1>9, <1>10 DEF RestoreInv

\* Editors and git may do what they do, but for Risky.
LEMMA EnvironmentRestores ==
    ASSUME RestoreInv, Risky = {},
           \/ \E p \in Paths : GitAdd(p) \/ GitRemoveCached(p) \/ \E c \in Content \cup {Absent} : Write(p, c)
           \/ GitCommit \/ Crash
    PROVE  RestoreInv'
  <1>1. PinnedInv' /\ TypeOK /\ TypeOK'
    <2>1. PinnedInv  BY DEF RestoreInv
    <2>2. PinnedInv'  BY <2>1, EnvironmentPinned
    <2> QED  BY <2>1, <2>2 DEF PinnedInv
  <1>2. ASSUME Changes, UNCHANGED commits, disk'[IgnoreFile] = disk[IgnoreFile], tracked \subseteq tracked', RulesKept'
        PROVE  RestoreInv'
    <2>1. \A v \in Users : user'[v] = Disturb(user)[v]  BY <1>2 DEF Changes
    <2> QED  BY <1>1, <1>2, <2>1, ChangedFiles DEF RestoreInv
  <1>3. ASSUME NEW p \in Paths, NEW c \in Content \cup {Absent}, Write(p, c) PROVE RestoreInv'
    <2>1. p # IgnoreFile /\ disk' = [disk EXCEPT ![p] = c]  BY <1>3 DEF Write
    <2>2. disk'[IgnoreFile] = disk[IgnoreFile]  BY <1>1, <2>1 DEF TypeOK
    <2>3. Ignored(disk') = Ignored(disk)  BY <2>2, IgnoredKept
    <2>4. RulesKept'  BY <1>3, <2>2, <2>3 DEF RestoreInv, RulesKept, Write
    <2> QED  BY <1>2, <1>3, <2>2, <2>4 DEF Write
  <1>4. ASSUME NEW p \in Paths, GitAdd(p) PROVE RestoreInv'
    <2>1. RulesKept'  BY <1>4 DEF RestoreInv, RulesKept, GitAdd, UntrackedFiles, Ignored
    <2> QED  BY <1>2, <1>4, <2>1 DEF GitAdd
  <1>5. ASSUME NEW p \in Paths, GitRemoveCached(p) PROVE FALSE  BY <1>5 DEF GitRemoveCached
  <1>6. CASE GitCommit
    <2>1. RulesKept'  BY <1>6 DEF RestoreInv, RulesKept, GitCommit, Ignored
    <2> QED  BY <1>2, <1>6, <2>1 DEF GitCommit
  <1>7. CASE Crash
    <2>1. RulesKept'  BY <1>7 DEF RestoreInv, RulesKept, Crash, Ignored, treeVars
    <2>2. CommitsSound'  BY <1>7 DEF RestoreInv, CommitsSound, Made, Crash, Ignored, Present, treeVars
    <2>3. \A u \in Users : RequestSound(u)'
      <3>1. \A u \in Users : user'[u].at = "idle"  BY <1>7 DEF Crash, Idle
      <3> QED  BY <3>1, RestsSound
    <2> QED  BY <1>1, <2>1, <2>2, <2>3 DEF RestoreInv
  <1> QED  BY <1>3, <1>4, <1>5, <1>6, <1>7

LEMMA NextRestores == ASSUME Risky = {} PROVE RestoreInv /\ [CpNext]_cpVars => RestoreInv'
  <1> SUFFICES ASSUME RestoreInv, [CpNext]_cpVars PROVE RestoreInv'  OBVIOUS
  <1>1. ASSUME NEW u \in Users, UserStep(u) PROVE RestoreInv'
      BY <1>1, BeginCreateRestores, CaptureRestores, RowsRestore, ListCurrentRestores,
         CheckoutRestores, CleanUpRestores DEF UserStep
  <1>2. CASE UNCHANGED cpVars
    <2>1. PinnedInv'
      <3>1. PinnedInv  BY DEF RestoreInv
      <3> QED  BY <1>2, <3>1, NextPinned
    <2>2. RulesKept'  BY <1>2 DEF RestoreInv, RulesKept, cpVars, Ignored
    <2>3. CommitsSound'  BY <1>2 DEF RestoreInv, CommitsSound, Made, cpVars, Ignored, Present
    <2>4. ASSUME NEW v \in Users PROVE RequestSound(v)'
        BY <1>2 DEF RestoreInv, RequestSound, cpVars, UntrackedFiles, Ignored, Present, Back, Cleaned, Doomed
    <2> QED  BY <2>1, <2>2, <2>3, <2>4 DEF RestoreInv
  <1> QED  BY <1>1, <1>2, EnvironmentRestores DEF CpNext

\* What the listings and the snapshot say of each path
LEMMA FaithfulNow == RestoreInv => RestoreIsFaithful
  <1> SUFFICES ASSUME RestoreInv, NEW u \in Users,
                      user[u].at = "restored", user[u].alone, commits[user[u].of].whole, NEW p \in Paths
               PROVE  LET c == commits[user[u].of]
                      IN  /\ c.files[p] # Absent => disk[p] = c.files[p]
                          /\ c.before[p] # Absent /\ user[u].was[p] # Absent => disk[p] # Absent
                          /\ disk[p] # Absent /\ c.before[p] = Absent =>
                                p \in user[u].hidden \/ (c.folder /\ p \in Folder)
      BY DEF RestoreIsFaithful
  <1> DEFINE c == commits[user[u].of]
             hidden == Ignored(disk)
  <1>1. user[u] \in Restoring(Made)
    <2>1. TypeOK  BY DEF RestoreInv, PinnedInv
    <2> QED  BY <2>1, StateKinds DEF TypeOK
  <1>2. user[u].of \in Made  BY <1>1 DEF Restoring
  <1>3. /\ c.files[p] # Absent => c.before[p] = c.files[p]
        /\ c.files[p] = Absent /\ c.before[p] # Absent => p \in hidden /\ p \notin tracked
        /\ p \in c.untracked => c.before[p] # Absent
        /\ c.before[p] # Absent => p \in tracked \cup hidden \cup c.untracked
      BY <1>2 DEF RestoreInv, CommitsSound, RulesKept, Present
  <1>4. /\ user[u].hidden = hidden
        /\ p \in user[u].found <=> user[u].was[p] # Absent /\ p \notin tracked \cup hidden
      BY DEF RestoreInv, RequestSound, Present
  <1>5. disk[p] = IF p \in Doomed(user[u].found, user[u].of) THEN Absent
                  ELSE IF c.files[p] # Absent THEN c.files[p]
                  ELSE IF p \in tracked THEN Absent ELSE user[u].was[p]
    <2>1. disk = Cleaned(u)  BY DEF RestoreInv, RequestSound
    <2>2. Cleaned(u)[p] = IF p \in Doomed(user[u].found, user[u].of) THEN Absent ELSE Back(u)[p]
        BY DEF Cleaned
    <2>3. Back(u)[p] = IF c.files[p] # Absent THEN c.files[p]
                       ELSE IF p \in tracked THEN Absent ELSE user[u].was[p]
        BY DEF Back
    <2> QED  BY <2>1, <2>2, <2>3
  <1>6. p \in Doomed(user[u].found, user[u].of) <=>
          p \in user[u].found /\ p \notin c.untracked /\ ~(c.folder /\ p \in Folder)
      BY DEF Doomed
  <1> HIDE DEF c, hidden
  <1>7. c.files[p] # Absent => disk[p] = c.files[p]  BY <1>3, <1>4, <1>5, <1>6
  <1>8. c.before[p] # Absent /\ user[u].was[p] # Absent => disk[p] # Absent
      BY <1>3, <1>4, <1>5, <1>6, <1>7
  <1>9. disk[p] # Absent /\ c.before[p] = Absent => p \in user[u].hidden \/ (c.folder /\ p \in Folder)
      BY <1>3, <1>4, <1>5, <1>6
  <1> QED  BY <1>7, <1>8, <1>9 DEF c

\* While users do not take files out of the index by hand or change the ignore rules, a
\* restore that nobody disturbs brings every file of the snapshot back, deletes no file that
\* was there when the snapshot was made, and leaves no other, whoever else edits, adds,
\* commits, snapshots and restores before it.
THEOREM RestoresKept == ASSUME Risky = {} PROVE CpSpec => []RestoreIsFaithful
  <1>1. RestoreInv /\ [CpNext]_cpVars => RestoreInv'  BY NextRestores
  <1> QED  BY <1>1, InitRestores, FaithfulNow, PTL DEF CpSpec
=============================================================================
