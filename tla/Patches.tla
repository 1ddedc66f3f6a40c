------------------------------- MODULE Patches -------------------------------
(***************************************************************************)
(* The combined diff of a turn (loop-desktop/src/utils/patches.ts): the    *)
(* patches an assistant applied one after the other are parsed, replayed   *)
(* on a virtual copy of each file and shown as one change per file, which  *)
(* the user can undo.  The agent's edits of the workspace are the          *)
(* environment: each writes the patch of what it does to the disk.         *)
(* Lines of text are members of a small set; positions count from 1.       *)
(***************************************************************************)
EXTENDS Integers, Sequences, SequencesExt, FiniteSetsExt

CONSTANTS Paths,        \* file paths
          Original,     \* [path -> the lines at the start of the turn, or NoFile]
          NewText,      \* the lines the agent may write
          NoFile,       \* a path with no file
          Blank,        \* the text of a line the virtual file has not seen
          HeaderNumbers,\* whether hunk headers carry line numbers: a subset of BOOLEAN
          MaxPatches,   \* bound: patches of the turn
          MaxLines      \* bound: lines of a file

VARIABLES disk,         \* [path -> its lines or NoFile]
          patches       \* the patch texts of the turn, as sequences of tokens

patchVars == <<disk, patches>>

NoPath == "none"
NoLine == 0

-----------------------------------------------------------------------------
(* parsePatchData: one token per line of the patch text *)

EmptyParse == [files |-> <<>>, open |-> FALSE, fallback |-> [old |-> 1, new |-> 1],
               next |-> [old |-> 1, new |-> 1], ended |-> FALSE]

\* beginHunk: the hunk belongs to the last file; numbering restarts
BeginHunk(s, start) ==
    [s EXCEPT !.files[Len(s.files)].hunks = Append(@, <<>>),
              !.open = TRUE, !.fallback = start, !.next = start]

BeginFile(s, t) ==
    [s EXCEPT !.files = Append(@, [action |-> t.action, path |-> t.path, previousPath |-> NoPath,
                                   added |-> 0, removed |-> 0, hunks |-> <<>>]),
              !.open = FALSE, !.fallback = [old |-> 1, new |-> 1]]

MoveTo(s, t) ==
    LET f == Last(s.files)
    IN [s EXCEPT !.files[Len(s.files)] = [f EXCEPT !.previousPath = f.path, !.path = t.path]]

\* ensureHunkForContent: content before any hunk header opens one
EnsureHunk(s) ==
    IF s.open THEN s
    ELSE BeginHunk(s, IF Last(s.files).action = "Add" THEN [old |-> 0, new |-> 1] ELSE s.fallback)

\* A content line is numbered and its counter moves on
ContentLine(s0, t) ==
    LET s    == EnsureHunk(s0)
        f    == Len(s.files)
        line == [type |-> t.type, text |-> t.text,
                 oldLn |-> IF t.type = "add" THEN NoLine ELSE s.next.old,
                 newLn |-> IF t.type = "remove" THEN NoLine ELSE s.next.new]
        next == [old |-> s.next.old + IF t.type = "add" THEN 0 ELSE 1,
                 new |-> s.next.new + IF t.type = "remove" THEN 0 ELSE 1]
    IN [s EXCEPT !.files[f].hunks[Len(s.files[f].hunks)] = Append(@, line),
                 !.files[f].added   = @ + IF t.type = "add" THEN 1 ELSE 0,
                 !.files[f].removed = @ + IF t.type = "remove" THEN 1 ELSE 0,
                 !.next = next, !.fallback = next]

ParseLine(s, t) ==
    IF s.ended \/ (s.files = <<>> /\ t.tag # "file" /\ t.tag # "end") THEN s
    ELSE CASE t.tag = "file" -> BeginFile(s, t)
           [] t.tag = "move" -> MoveTo(s, t)
           [] t.tag = "end"  -> [s EXCEPT !.ended = TRUE]
           [] t.tag = "hunk" -> BeginHunk(s, IF t.numbered THEN t.start ELSE s.fallback)
           [] t.tag = "line" -> ContentLine(s, t)

ParsePatchData(text) == FoldLeft(ParseLine, EmptyParse, text).files

-----------------------------------------------------------------------------
(* The virtual file: lines with the state context, add or remove *)

Unseen == [text |-> Blank, state |-> "context", initialized |-> FALSE]
Padding(n) == [i \in 1..Max({0, n}) |-> Unseen]
Live(v) == SelectSeq([i \in 1..Len(v) |-> i], LAMBDA i : v[i].state # "remove")

\* Mutant: removed lines are counted too
LineIndexOfAll(v, n) == [lines |-> v \o Padding(n - Len(v)), at |-> n]

\* getLineIndex: the entry of the n-th line that is not removed, padding when short
LineIndex(v, n) ==
    LET live == Live(v)
    IN IF n > 0 /\ Len(live) >= n
       THEN [lines |-> v, at |-> live[n]]
       ELSE LET padded == v \o Padding(n - Len(live))
            IN [lines |-> padded, at |-> Len(padded)]

\* Skip removed entries from at on, and pad up to the entry reached
SkipRemoved(c) ==
    LET live == {i \in c.at..Len(c.lines) : c.lines[i].state # "remove"}
        at   == IF live # {} THEN Min(live) ELSE Max({c.at, Len(c.lines) + 1})
    IN [lines |-> c.lines \o Padding(at - Len(c.lines)), at |-> at]

ApplyContext(c0, line) ==
    LET c == SkipRemoved(c0)
    IN [lines |-> IF c.lines[c.at].state = "context"
                  THEN [c.lines EXCEPT ![c.at].text = line.text, ![c.at].initialized = TRUE]
                  ELSE c.lines,
        at    |-> c.at + 1]

ApplyRemove(c0, line) ==
    LET c == SkipRemoved(c0)
    IN IF c.lines[c.at].state = "add"
       THEN [c EXCEPT !.lines = RemoveAt(c.lines, c.at)]
       ELSE [lines |-> [c.lines EXCEPT ![c.at] = [text |-> line.text, state |-> "remove", initialized |-> TRUE]],
             at    |-> c.at + 1]

ApplyAdd(c, line) ==
    [lines |-> InsertAt(c.lines, c.at, [text |-> line.text, state |-> "add", initialized |-> TRUE]),
     at    |-> c.at + 1]

ApplyLine(c, line) ==
    CASE line.type = "context" -> ApplyContext(c, line)
      [] line.type = "remove"  -> ApplyRemove(c, line)
      [] line.type = "add"     -> ApplyAdd(c, line)

\* Where a hunk starts: at its first old line, else at the new line it begins with
HunkStart(v, hunk) ==
    LET first == SelectInSeq(hunk, LAMBDA l : l.oldLn # NoLine)
    IN CASE first # 0 -> LineIndex(v, hunk[first].oldLn)
         [] first = 0 /\ hunk # <<>> -> LineIndex(v, hunk[1].newLn)
         [] OTHER -> [lines |-> v, at |-> Len(v) + 1]

ApplyHunk(v, hunk) == FoldLeft(ApplyLine, HunkStart(v, hunk), hunk).lines

\* applyPatchToVirtualFile
ApplyPatchToVirtualFile(v, file) == FoldLeft(ApplyHunk, v, file.hunks)

-----------------------------------------------------------------------------
(* buildCombinedPatch: one accumulator per file, in the order of the map *)

KeyOf(states, path) == SelectInSeq(states, LAMBDA a : a.key = path)

NewAccumulator(file) ==
    [key |-> file.path, currentPath |-> file.path, previousPath |-> file.previousPath,
     firstAction |-> file.action, lastAction |-> file.action,
     sawMove |-> file.previousPath \notin {NoPath, file.path}, lines |-> <<>>]

\* states.set: an existing key keeps its place
SetKey(states, a) ==
    LET k == KeyOf(states, a.key)
    IN IF k = 0 THEN Append(states, a) ELSE [states EXCEPT ![k] = a]

\* resolveAccumulator: the accumulator of the prior path or of the path, moved to
\* the new path; a file seen for the first time gets a new one
ResolveAccumulator(states, file) ==
    LET prior == KeyOf(states, file.previousPath)
        found == IF file.previousPath # NoPath /\ prior # 0 THEN prior ELSE KeyOf(states, file.path)
        moved == file.previousPath \notin {NoPath, file.path}
    IN IF found = 0 THEN SetKey(states, NewAccumulator(file))
       ELSE LET a    == [states[found] EXCEPT !.lastAction = file.action]
                rest == SelectSeq(states, LAMBDA b : b.key # file.previousPath)
            IN IF moved
               THEN SetKey(rest, [a EXCEPT !.key = file.path, !.currentPath = file.path, !.sawMove = TRUE,
                                           !.previousPath = IF @ = NoPath THEN file.previousPath ELSE @])
               ELSE [states EXCEPT ![found] = a]

\* One file of one patch: a deletion without hunks empties the virtual file
ReplayFile(states, file) ==
    LET resolved == ResolveAccumulator(states, file)
        k        == KeyOf(resolved, file.path)
    IN [resolved EXCEPT ![k].lines = IF file.action = "Delete" /\ file.hunks = <<>> THEN <<>>
                                     ELSE ApplyPatchToVirtualFile(@, file)]

ReplayPatch(states, text) == FoldLeft(ReplayFile, states, ParsePatchData(text))

CountState(v, st) == Len(SelectSeq(v, LAMBDA l : l.state = st))

\* computeDisplayedAction: "none" is a file the combined diff leaves out
DisplayedAction(a) ==
    LET changed == CountState(a.lines, "add") + CountState(a.lines, "remove") > 0
    IN IF ~a.sawMove /\ ~changed /\ a.firstAction = "Add" /\ a.lastAction = "Delete" THEN "none"
       ELSE IF a.lastAction = "Delete" THEN "Delete"
       ELSE IF a.firstAction = "Add" THEN "Add"
       ELSE IF a.sawMove THEN "Move"
       ELSE IF ~changed THEN "none" ELSE "Update"

\* The rows of a virtual file with their numbers before and after the turn
Numbered(v) ==
    [i \in 1..Len(v) |->
        LET before == SubSeq(v, 1, i)
        IN [type |-> v[i].state, text |-> v[i].text, initialized |-> v[i].initialized,
            oldLn |-> IF v[i].state = "add" THEN NoLine ELSE i - CountState(before, "add"),
            newLn |-> IF v[i].state = "remove" THEN NoLine ELSE i - CountState(before, "remove")]]

\* The ranges of rows shown: three rows around each change, joined when they meet,
\* less the unseen rows at either end
ShownRows(v) ==
    LET changed == {i \in 1..Len(v) : v[i].state # "context"}
        near    == {i \in 1..Len(v) : \E c \in changed : i \in (c - 3)..(c + 3)}
        seen    == {i \in near : v[i].initialized}
    IN {i \in near : (\E j \in seen : j <= i /\ j..i \subseteq near)
                  /\ (\E j \in seen : i <= j /\ i..j \subseteq near)}

\* The files of the combined diff
BuildCombinedPatch(texts) ==
    LET shown(a) == [action |-> DisplayedAction(a), path |-> a.currentPath,
                     previousPath |-> IF a.sawMove THEN a.previousPath ELSE NoPath,
                     added |-> CountState(a.lines, "add"), removed |-> CountState(a.lines, "remove"),
                     rows |-> {Numbered(a.lines)[i] : i \in ShownRows(a.lines)}]
    IN {f \in {shown(a) : a \in ToSet(FoldLeft(ReplayPatch, <<>>, texts))} : f.action # "none"}

-----------------------------------------------------------------------------
(* The agent's edits: what the patch says is what happens on disk *)

FileToken(action, p) == [tag |-> "file", action |-> action, path |-> p]
LineToken(type, text) == [tag |-> "line", type |-> type, text |-> text]
LineTokens(type, texts) == [i \in 1..Len(texts) |-> LineToken(type, texts[i])]

\* Replace the lines from..to (none when to < from) by texts, with a line of context
\* on either side: one hunk with the line numbers of the file
HunkTokens(lines, from, to, texts, numbered) ==
    LET lead  == SubSeq(lines, Max({1, from - 1}), from - 1)
        trail == SubSeq(lines, to + 1, Min({Len(lines), to + 1}))
        start == Max({1, from - 1})
    IN <<[tag |-> "hunk", numbered |-> numbered, start |-> [old |-> start, new |-> start]]>>
       \o LineTokens("context", lead) \o LineTokens("remove", SubSeq(lines, from, to))
       \o LineTokens("add", texts) \o LineTokens("context", trail)

Replaced(lines, from, to, texts) == SubSeq(lines, 1, from - 1) \o texts \o SubSeq(lines, to + 1, Len(lines))

Edits(lines) ==
    {e \in [from : 1..(Len(lines) + 1), to : 0..Len(lines), texts : {<<>>} \cup {<<t>> : t \in NewText}] :
        /\ e.to \in {e.from - 1, e.from}
        /\ e.to >= e.from \/ e.texts # <<>>
        /\ Len(lines) + Len(e.texts) <= MaxLines}

UpdateFile(p) ==
    /\ Len(patches) < MaxPatches
    /\ disk[p] # NoFile
    /\ \E e \in Edits(disk[p]), q \in Paths, numbered \in HeaderNumbers :
         /\ q # p => disk[q] = NoFile
         /\ disk' = [disk EXCEPT ![p] = NoFile, ![q] = Replaced(disk[p], e.from, e.to, e.texts)]
         /\ patches' = Append(patches,
                <<FileToken("Update", p)>>
                \o (IF q = p THEN <<>> ELSE <<[tag |-> "move", path |-> q]>>)
                \o HunkTokens(disk[p], e.from, e.to, e.texts, numbered) \o <<[tag |-> "end"]>>)

AddFile(p) ==
    /\ Len(patches) < MaxPatches
    /\ disk[p] = NoFile
    /\ \E t \in NewText :
         /\ disk' = [disk EXCEPT ![p] = <<t, t>>]
         /\ patches' = Append(patches, <<FileToken("Add", p)>> \o LineTokens("add", <<t, t>>) \o <<[tag |-> "end"]>>)

DeleteFile(p) ==
    /\ Len(patches) < MaxPatches
    /\ disk[p] # NoFile
    /\ disk' = [disk EXCEPT ![p] = NoFile]
    /\ patches' = Append(patches, <<FileToken("Delete", p), [tag |-> "end"]>>)

PatchInit ==
    /\ disk = Original
    /\ patches = <<>>

PatchNext == \E p \in Paths : UpdateFile(p) \/ AddFile(p) \/ DeleteFile(p)

-----------------------------------------------------------------------------
\* Replaying the patches of a turn gives rows that agree with the workspace: a row
\* with a number in the new file has the text of that line on disk, a row with a
\* number in the old file the text the line had before the turn, and the counts of
\* added and removed lines make up the change of length (CombinedPatchViewer shows
\* these rows and undoes them).  Files without a deletion in their history: the
\* deletion drops what the virtual file knew.
CombinedPatchAgrees ==
    LET deleted  == {t.path : t \in {u \in UNION {ToSet(patches[i]) : i \in DOMAIN patches} :
                                      u.tag = "file" /\ u.action = "Delete"}}
    IN \A f \in BuildCombinedPatch(patches) :
         LET old == IF f.action = "Add" THEN <<>> ELSE Original[IF f.previousPath = NoPath THEN f.path ELSE f.previousPath]
         IN f.path \notin deleted /\ f.previousPath \notin deleted =>
            /\ disk[f.path] # NoFile
            /\ \A r \in f.rows : r.initialized =>
                 /\ r.newLn # NoLine => disk[f.path][r.newLn] = r.text
                 /\ r.oldLn # NoLine => old[r.oldLn] = r.text
            /\ f.added - f.removed = Len(disk[f.path]) - Len(old)
=============================================================================
