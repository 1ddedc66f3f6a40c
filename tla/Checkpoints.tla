----------------------------- MODULE Checkpoints -----------------------------
(***************************************************************************)
(* Checkpoints of a workspace (loop/checkpoints, loop/gitcheckpoints): a   *)
(* commit of the work tree made through an index of its own, a git ref     *)
(* that keeps it, and a record in the database.  Requests and turns create,*)
(* prune, restore and undo them while agents and users edit the files, use *)
(* git, and the server crashes.                                            *)
(*                                                                         *)
(* A git command is one action, the two listings of untracked paths        *)
(* together.  Files have a path and a content; the ignore file hides the   *)
(* paths of Hidden while it has its first content, and the paths of Folder *)
(* are one directory.  Empty directories are left out.                     *)
(***************************************************************************)
EXTENDS Naturals, Sequences, FiniteSets

CONSTANTS
    Paths,          \* the paths of the workspace
    IgnoreFile,     \* the path of .gitignore
    Hidden,         \* the paths it hides
    Folder,         \* the paths of one directory
    FirstTracked,   \* the paths of the first commit
    FirstUntracked, \* other paths that exist at first
    Users,          \* requests and turns in progress at the same time
    Keep,           \* checkpointRetentionLimit (60 in the code)
    MaxCheckpoints, \* bound: checkpoints made
    MaxEdits,       \* bound: changes of files and of the index
    MaxFaults,      \* bound: store and git operations that fail, and crashes
    Risky           \* what users do to git between a checkpoint and its restore

ASSUME PathsAssumption ==
    /\ IgnoreFile \in Paths /\ Hidden \subseteq Paths /\ Folder \subseteq Paths
    /\ FirstTracked \subseteq Paths /\ FirstUntracked \subseteq Paths \ FirstTracked
ASSUME LimitsAssumption ==
    /\ Keep \in Nat \ {0} /\ MaxCheckpoints \in Nat /\ MaxEdits \in Nat /\ MaxFaults \in Nat
    /\ Risky \subseteq {"untracks", "ignores"}

VARIABLES
    disk,       \* the content of each path, Absent if there is no file
    tracked,    \* the paths in the repository's index
    committed,  \* the paths of HEAD
    commits,    \* the checkpoint commits, with the untracked paths listed before each
    refs,       \* the refs of checkpoints, by the number of their commit
    records,    \* the rows of the table checkpoints, oldest first
    user,       \* what each request does: its step, its checkpoint, and what it has read
    edits,      \* changes so far
    faults,     \* failures so far
    undeleted   \* history: records whose deletion failed

cpVars == <<disk, tracked, committed, commits, refs, records, user, edits, faults, undeleted>>
treeVars == <<disk, tracked, committed>>

Absent == 0
Content == {1, 2}
Present(d) == {p \in Paths : d[p] # Absent}
Ignored(d) == IF d[IgnoreFile] = 1 THEN Hidden ELSE {}

\* A request between two others
Idle == [at |-> "idle"]
Step(u, state) == user' = [user EXCEPT ![u] = state]

\* Requests in the middle of a restore or a snapshot when the files change under them
Disturb(states) == [v \in Users |-> IF states[v].at = "idle" THEN Idle ELSE [states[v] EXCEPT !.alone = FALSE]]

MayFail == faults < MaxFaults
Fails == MayFail /\ faults' = faults + 1

-----------------------------------------------------------------------------
(* loop/gitcheckpoints. *)

\* ls-files --others --exclude-standard, and the directories none of whose files is tracked
UntrackedFiles == Present(disk) \ (tracked \cup Ignored(disk))
FolderUntracked == Folder \cap tracked = {} /\ Folder \cap Present(disk) # {}

\* read-tree HEAD and add --all: what HEAD has, and all that is not ignored, as it is on disk
Captured == [p \in Paths |-> IF p \in committed \/ p \notin Ignored(disk) THEN disk[p] ELSE Absent]

\* git restore --worktree: the snapshot's files, and no other file of the index
CheckedOut(c) ==
    [p \in Paths |-> IF commits[c].files[p] # Absent THEN commits[c].files[p]
                     ELSE IF p \in tracked THEN Absent ELSE disk[p]]

\* Mutant: the files untracked at the snapshot are forgotten
DoomedAll(found, c) == found
\* cleanupNewUntracked: files untracked before the restore, which were not when the
\* snapshot was made and are in no directory that was
Doomed(found, c) ==
    found \ (commits[c].untracked \cup (IF commits[c].folder THEN Folder ELSE {}))

\* Create: the listings, and then the commit with its ref
BeginCreate(u) ==
    /\ user[u] = Idle
    /\ Step(u, [at |-> "capture", untracked |-> UntrackedFiles, folder |-> FolderUntracked, alone |-> TRUE])
    /\ UNCHANGED <<treeVars, commits, refs, records, edits, faults, undeleted>>

Capture(u) ==
    /\ user[u].at = "capture"
    /\ \/ /\ Len(commits) < MaxCheckpoints
          /\ commits' = Append(commits, [files |-> Captured, before |-> disk, untracked |-> user[u].untracked,
                                         folder |-> user[u].folder, whole |-> user[u].alone])
          /\ refs' = refs \cup {Len(commits) + 1}
          /\ Step(u, [at |-> "record", of |-> Len(commits) + 1, alone |-> TRUE])
          /\ UNCHANGED faults
       \/ Fails /\ Step(u, Idle) /\ UNCHANGED <<commits, refs>>
    /\ UNCHANGED <<treeVars, records, edits, undeleted>>

-----------------------------------------------------------------------------
(* loop/checkpoints: Create and Prune. *)

Record(u) ==
    /\ user[u].at = "record"
    /\ \/ /\ records' = Append(records, user[u].of)
          /\ Step(u, [at |-> "prune", alone |-> TRUE])
          /\ UNCHANGED faults
       \/ /\ Fails
          /\ Step(u, [at |-> "unref", drop |-> <<user[u].of>>, alone |-> TRUE])
          /\ UNCHANGED records
    /\ UNCHANGED <<treeVars, commits, refs, edits, undeleted>>

\* The checkpoints but the newest Keep are stale, as listed newest first
Prune(u) ==
    LET stale == [i \in 1 .. (IF Len(records) > Keep THEN Len(records) - Keep ELSE 0) |->
                    records[Len(records) - Keep + 1 - i]]
    IN  /\ user[u].at = "prune"
        /\ Step(u, IF stale = <<>> THEN Idle ELSE [at |-> "delete", drop |-> stale, alone |-> TRUE])
        /\ UNCHANGED <<treeVars, commits, refs, records, edits, faults, undeleted>>

\* The rows without that of one checkpoint, if it has one
Others(c) ==
    LET row == CHOOSE i \in DOMAIN records : records[i] = c
    IN  IF \E i \in DOMAIN records : records[i] = c
        THEN [i \in 1 .. (Len(records) - 1) |-> records[IF i < row THEN i ELSE i + 1]]
        ELSE records

\* Mutant: the row is left and its ref deleted
KeepRecord(u) ==
    /\ user[u].at = "delete"
    /\ Step(u, [user[u] EXCEPT !.at = "unref"])
    /\ UNCHANGED <<treeVars, commits, refs, records, edits, faults, undeleted>>

\* A row that cannot be deleted is logged, and its ref is deleted all the same
DeleteRecord(u) ==
    /\ user[u].at = "delete"
    /\ \/ records' = Others(Head(user[u].drop)) /\ UNCHANGED <<faults, undeleted>>
       \/ Fails /\ undeleted' = undeleted \cup {Head(user[u].drop)} /\ UNCHANGED records
    /\ Step(u, [user[u] EXCEPT !.at = "unref"])
    /\ UNCHANGED <<treeVars, commits, refs, edits>>

\* The refs of the rows left to delete, one after the other
DeleteRef(u) ==
    LET left == Tail(user[u].drop)
    IN  /\ user[u].at = "unref"
        /\ \/ refs' = refs \ {Head(user[u].drop)} /\ UNCHANGED faults
           \/ Fails /\ UNCHANGED refs
        /\ Step(u, IF left = <<>> THEN Idle ELSE [at |-> "delete", drop |-> left, alone |-> TRUE])
        /\ UNCHANGED <<treeVars, commits, records, edits, undeleted>>

-----------------------------------------------------------------------------
(* Restore and UndoLatest. *)

\* The row is read: of a checkpoint the user names, or the newest
BeginRestore(u, c, undo) ==
    /\ user[u] = Idle
    /\ \E i \in 1 .. Len(records) : records[i] = c /\ (undo => i = Len(records))
    /\ Step(u, [at |-> "list", of |-> c, undo |-> undo, alone |-> TRUE])
    /\ UNCHANGED <<treeVars, commits, refs, records, edits, faults, undeleted>>

ListCurrent(u) ==
    /\ user[u].at = "list"
    /\ Step(u, [at |-> "checkout", of |-> user[u].of, undo |-> user[u].undo, found |-> UntrackedFiles,
                hidden |-> Ignored(disk), was |-> disk, alone |-> TRUE])
    /\ UNCHANGED <<treeVars, commits, refs, records, edits, faults, undeleted>>

Checkout(u) ==
    /\ user[u].at = "checkout"
    /\ \/ /\ disk' = CheckedOut(user[u].of)
          /\ user' = [Disturb(user) EXCEPT ![u] = [user[u] EXCEPT !.at = "clean"]]
          /\ UNCHANGED faults
       \/ Fails /\ Step(u, Idle) /\ UNCHANGED disk
    /\ UNCHANGED <<tracked, committed, commits, refs, records, edits, undeleted>>

\* A file that cannot be removed ends the restore with an error, others before it are gone
CleanUp(u) ==
    LET doomed == Doomed(user[u].found, user[u].of)
        without(gone) == [p \in Paths |-> IF p \in gone THEN Absent ELSE disk[p]]
    IN  /\ user[u].at = "clean"
        /\ \/ /\ disk' = without(doomed)
              /\ user' = [Disturb(user) EXCEPT ![u] = [user[u] EXCEPT !.at = "restored"]]
              /\ UNCHANGED faults
           \/ /\ Fails /\ doomed # {}
              /\ \E some \in SUBSET doomed : some # doomed /\ disk' = without(some)
              /\ user' = [Disturb(user) EXCEPT ![u] = Idle]
        /\ UNCHANGED <<tracked, committed, commits, refs, records, edits, undeleted>>

\* An undo goes on to delete the row and the ref of the checkpoint it has restored
Restored(u) ==
    /\ user[u].at = "restored"
    /\ Step(u, IF user[u].undo THEN [at |-> "delete", drop |-> <<user[u].of>>, alone |-> TRUE] ELSE Idle)
    /\ UNCHANGED <<treeVars, commits, refs, records, edits, faults, undeleted>>

-----------------------------------------------------------------------------
(* The environment: editors, git, and crashes. *)

Changes == edits < MaxEdits /\ edits' = edits + 1 /\ user' = Disturb(user)

Write(p, c) ==
    /\ disk[p] # c
    /\ p = IgnoreFile => "ignores" \in Risky
    /\ disk' = [disk EXCEPT ![p] = c]
    /\ Changes
    /\ UNCHANGED <<tracked, committed, commits, refs, records, faults, undeleted>>

GitAdd(p) ==
    /\ p \in UntrackedFiles
    /\ tracked' = tracked \cup {p}
    /\ Changes
    /\ UNCHANGED <<disk, committed, commits, refs, records, faults, undeleted>>

GitRemoveCached(p) ==
    /\ "untracks" \in Risky /\ p \in tracked
    /\ tracked' = tracked \ {p}
    /\ Changes
    /\ UNCHANGED <<disk, committed, commits, refs, records, faults, undeleted>>

GitCommit ==
    /\ committed # tracked
    /\ committed' = tracked
    /\ Changes
    /\ UNCHANGED <<disk, tracked, commits, refs, records, faults, undeleted>>

Crash ==
    /\ Fails
    /\ user' = [u \in Users |-> Idle]
    /\ UNCHANGED <<treeVars, commits, refs, records, edits, undeleted>>

CpInit ==
    /\ \E rules \in Content :
         disk = [p \in Paths |-> IF p = IgnoreFile THEN rules
                                 ELSE IF p \in FirstTracked \cup FirstUntracked THEN 1 ELSE Absent]
    /\ tracked = FirstTracked /\ committed = FirstTracked
    /\ commits = <<>> /\ refs = {} /\ records = <<>> /\ undeleted = {}
    /\ user = [u \in Users |-> Idle]
    /\ edits = 0 /\ faults = 0

UserStep(u) ==
    \/ BeginCreate(u) \/ Capture(u) \/ Record(u) \/ Prune(u) \/ DeleteRecord(u) \/ DeleteRef(u)
    \/ \E c \in 1 .. Len(commits), undo \in BOOLEAN : BeginRestore(u, c, undo)
    \/ ListCurrent(u) \/ Checkout(u) \/ CleanUp(u) \/ Restored(u)

CpNext ==
    \/ \E u \in Users : UserStep(u)
    \/ \E p \in Paths : GitAdd(p) \/ GitRemoveCached(p) \/ \E c \in Content \cup {Absent} : Write(p, c)
    \/ GitCommit \/ Crash

CpSpec == CpInit /\ [][CpNext]_cpVars

-----------------------------------------------------------------------------
(* Properties. *)

\* A restore that nobody disturbed brings every file of the snapshot back, loses no file
\* that was there when it was made, even one git ignores, and leaves no other file but
\* those of ignored paths and of a directory that git did not track.
RestoreIsFaithful ==
    \A u \in Users : user[u].at = "restored" /\ user[u].alone /\ commits[user[u].of].whole =>
        LET c == commits[user[u].of]
        IN  \A p \in Paths :
              /\ c.files[p] # Absent => disk[p] = c.files[p]
              /\ c.before[p] # Absent /\ user[u].was[p] # Absent => disk[p] # Absent
              /\ disk[p] # Absent /\ c.before[p] = Absent =>
                    p \in user[u].hidden \/ (c.folder /\ p \in Folder)

\* The checkpoint whose ref or row a request has yet to make or delete
InHand(c) ==
    \E u \in Users : \/ user[u].at = "record" /\ user[u].of = c
                     \/ user[u].at \in {"delete", "unref"} /\ \E i \in DOMAIN user[u].drop : user[u].drop[i] = c

\* A checkpoint on offer can be restored: its commit is kept by a ref, wherever a request
\* failed or the server crashed between the steps of creating, pruning and undoing, unless
\* its row could not be deleted.  Without a failure no ref outlives its row.
CheckpointsPinned ==
    /\ \A i \in DOMAIN records : records[i] \in refs \cup undeleted
    /\ faults = 0 => \A c \in refs : InHand(c) \/ \E i \in DOMAIN records : records[i] = c
=============================================================================
