----------------------------- MODULE FeedStores -----------------------------
(***************************************************************************)
(* The event, conversation and group stores of the feed and the pipeline   *)
(* that keeps them together (loop-desktop/src/stores/eventStore.ts,        *)
(* conversationStore.ts, groupStore.ts, activityPipeline.ts).  A pipeline  *)
(* operation sets one store after the other; each set runs the selectors   *)
(* of the views, which may read the cached ids of any conversation.        *)
(***************************************************************************)
EXTENDS Timeline

CONSTANTS
    Convs,       \* conversations
    FeedRows,    \* rows a history, a stream or a view may store: id, conversation, sequence
                 \* number in thousandths, kind, and body, a text that may change
    MaxVersion   \* bound: structure versions of all conversations

\* Rows are numbered and belong to a conversation
ASSUME FeedRowsAssumption == \A r \in FeedRows : r.id \in Nat /\ r.seq \in Nat /\ r.conv \in Convs

VARIABLES
    events,     \* eventStore: the rows of every conversation
    index,      \* conversationStore: ordered ids, next number, structure version, live state
    groups,     \* groupStore: the groups of a conversation
    caches,     \* visible ids and render groups read, by structure version
    timelines,  \* timeline ids read: a sequence of one entry, or none
    todo        \* sets the pipeline operation under way has still to make

feedVars == <<events, index, groups, caches, timelines, todo>>

EmptyIndex == [ids |-> <<>>, next |-> Scale, version |-> 0, live |-> "default"]

\* materializeConversationEvents
Materialize(ids, rows) ==
    LET found == Only(ids, {r.id : r \in rows})
    IN [i \in DOMAIN found |-> CHOOSE r \in rows : r.id = found[i]]
RowsOf(c) == Materialize(index[c].ids, events)
Without(rows, id) == Only(rows, {r \in ToSet(rows) : r.id # id})
IdSeq(rows) == [i \in DOMAIN rows |-> rows[i].id]

\* Mutant: a row that moves to another conversation stays in the old one
AffectsOrder(current, next) == current.seq # next.seq \/ current.kind # next.kind

\* eventAffectsConversationStructure
EventAffectsStructure(current, next) ==
    current.conv # next.conv \/ current.seq # next.seq \/ current.kind # next.kind

-----------------------------------------------------------------------------
(* Sets of one store *)

EventSet(gone, new) == [set |-> "events", gone |-> gone, new |-> new]
IndexSet(c, rows) == [set |-> "index", conv |-> c, ids |-> IdSeq(rows), next |-> NextSequenceNo(rows)]
GroupSet(c, gs) == [set |-> "groups", conv |-> c, groups |-> gs]
LiveSet(c, live) == [set |-> "live", conv |-> c, live |-> live]
ClearIndex(c) == [set |-> "clear", conv |-> c, ids |-> EmptyIndex.ids, next |-> EmptyIndex.next, live |-> EmptyIndex.live]

\* Mutant: the caches stay
SetGroupsOnly(s) == groups' = [groups EXCEPT ![s.conv] = s.groups] /\ UNCHANGED <<caches, timelines>>

\* The caches of a conversation go with every set of its groups
SetGroups(s) ==
    /\ groups' = [groups EXCEPT ![s.conv] = s.groups]
    /\ caches' = [caches EXCEPT ![s.conv] = {}]
    /\ timelines' = [timelines EXCEPT ![s.conv] = <<>>]

Touched(s) == s.gone \cup {n.id : n \in s.new}
SetEvents(held, s) == {r \in held : r.id \notin Touched(s)} \cup s.new

SetIndex(held, s) ==
    CASE s.set = "index" -> [held EXCEPT ![s.conv].ids = s.ids, ![s.conv].next = s.next, ![s.conv].version = @ + 1]
      [] s.set = "live" -> [held EXCEPT ![s.conv].live = s.live]
      [] s.set = "clear" -> [held EXCEPT ![s.conv] = EmptyIndex]

NextSet ==
    /\ todo # <<>>
    /\ todo' = Tail(todo)
    /\ LET s == Head(todo) IN
         \/ s.set = "events" /\ events' = SetEvents(events, s) /\ UNCHANGED <<index, groups, caches, timelines>>
         \/ s.set = "groups" /\ SetGroups(s) /\ UNCHANGED <<events, index>>
         \/ /\ s.set \in {"index", "live", "clear"} /\ index' = SetIndex(index, s)
            /\ UNCHANGED <<events, groups, caches, timelines>>

-----------------------------------------------------------------------------
(* The pipeline's operations *)

Begins(sets) ==
    /\ todo = <<>> /\ todo' = sets
    /\ MapThenSumSet(LAMBDA c : index[c].version, Convs) < MaxVersion
    /\ UNCHANGED <<events, index, groups, caches, timelines>>

\* replaceConversationEvents of the pipeline, of rows in any order
ReplaceSets(c, rows) ==
    <<EventSet(Range(index[c].ids), ToSet(rows)), IndexSet(c, SortRows(rows)), GroupSet(c, BuildActivityGroups(rows))>>

\* Rows a history or a local change may give a conversation: a prompt, and what follows it
Batches(c) == {<<>>} \cup {<<p, r>> : p \in {q \in FeedRows : q.conv = c /\ q.kind = "user"},
                                      r \in {q \in FeedRows : q.conv = c /\ q.kind # "user"}}
Foreign(c) == UNION {Range(index[d].ids) : d \in Convs \ {c}}

ReplaceConversation ==
    \E c \in Convs : \E rows \in Batches(c) :
        /\ IsInjective(IdSeq(rows)) /\ Range(IdSeq(rows)) \cap Foreign(c) = {}
        /\ Begins(ReplaceSets(c, rows))

HydrateConversation ==
    \E c \in Convs : \E rows \in Batches(c) :
        /\ IsInjective(IdSeq(rows)) /\ Range(IdSeq(rows)) \cap Foreign(c) = {}
        /\ Begins(Append(ReplaceSets(c, rows), LiveSet(c, "default")))

UpsertConversation ==
    \E r \in FeedRows :
        /\ r.id \notin Foreign(r.conv)
        /\ Begins(ReplaceSets(r.conv, Append(Without(RowsOf(r.conv), r.id), r)))

\* A change of what a row says sets the event store alone; one that moves the row replaces
\* the rows of its conversation, or of the old one and the new one
UpdateConversationEvent ==
    \E current \in events, next \in FeedRows :
        /\ next.id = current.id /\ next # current
        /\ LET moved == Append(Without(RowsOf(next.conv), next.id), next) IN
           Begins(IF ~EventAffectsStructure(current, next) THEN <<EventSet({}, {next})>>
                  ELSE IF next.conv = current.conv THEN ReplaceSets(next.conv, moved)
                  ELSE ReplaceSets(current.conv, Without(RowsOf(current.conv), next.id)) \o ReplaceSets(next.conv, moved))

\* syncConversationPendingApprovals: rows that change say so in the event store alone, each
\* of them once
SyncPendingApprovals ==
    \E c \in Convs : \E waiting \in (SUBSET FeedRows) \ {{}} :
        /\ \A w \in waiting : \E r \in ToSet(RowsOf(c)) : w.id = r.id /\ w # r /\ ~EventAffectsStructure(r, w)
        /\ \A w, v \in waiting : w.id = v.id => w = v
        /\ Begins(<<EventSet({}, waiting)>>)

ClearConversationPipeline ==
    \E c \in Convs : Begins(<<EventSet(Range(index[c].ids), {}), ClearIndex(c), GroupSet(c, <<>>)>>)

ReserveSequence ==
    /\ todo = <<>>
    /\ \E c \in Convs, requested \in {0} \cup {r.seq : r \in FeedRows} :
         /\ index[c].next = Scale
         /\ index' = [index EXCEPT ![c].next = IF requested = 0 THEN @ + Scale
                                               ELSE Max({@, (requested \div Scale + 1) * Scale})]
    /\ UNCHANGED <<events, groups, caches, timelines, todo>>

UpdateLive ==
    /\ todo = <<>>
    /\ \E c \in Convs, live \in {"default", "draft"} :
         /\ \A d \in Convs \ {c} : index[d].live = "default"
         /\ index' = [index EXCEPT ![c].live = live]
    /\ UNCHANGED <<events, groups, caches, timelines, todo>>

-----------------------------------------------------------------------------
(* Cached reads, also between two sets of an operation *)

Computed(c, hide) ==
    LET visible == [g \in DOMAIN groups[c] |-> VisibleIds(groups[c][g], events, hide)]
    IN [version |-> index[c].version, hide |-> hide, visible |-> FlattenSeq(visible),
        render |-> BuildRenderGroups(groups[c], events, hide, FALSE)]

\* getVisibleEventIds, getRenderGroups and getTimelineEventIds, which a view reads together
ReadViews ==
    /\ \E c \in Convs : LET hide == TRUE IN
         /\ caches' = [caches EXCEPT ![c] =
                IF \E e \in @ : e.version = index[c].version /\ e.hide = hide THEN @
                ELSE @ \cup {Computed(c, hide)}]
         /\ timelines' = [timelines EXCEPT ![c] = IF @ = <<>> THEN <<FlattenSeq(groups[c])>> ELSE @]
    /\ UNCHANGED <<events, index, groups, todo>>

FeedInit ==
    /\ events = {}
    /\ index = [c \in Convs |-> EmptyIndex]
    /\ groups = [c \in Convs |-> <<>>]
    /\ caches = [c \in Convs |-> {}]
    /\ timelines = [c \in Convs |-> <<>>]
    /\ todo = <<>>

FeedNext ==
    \/ ReplaceConversation \/ HydrateConversation \/ UpsertConversation \/ UpdateConversationEvent
    \/ SyncPendingApprovals \/ ClearConversationPipeline \/ ReserveSequence \/ UpdateLive
    \/ NextSet \/ ReadViews

-----------------------------------------------------------------------------
\* When no operation is under way, what is cached for a conversation is what would be
\* computed from the stores now, whenever it was read: between two sets of an operation a
\* view may have cached the old groups under the new structure version, or rows that are
\* gone.
CachesFresh ==
    todo = <<>> =>
        \A c \in Convs :
            /\ \A e \in caches[c] : e.version = index[c].version => e = Computed(c, e.hide)
            /\ timelines[c] # <<>> => timelines[c][1] = FlattenSeq(groups[c])

\* What the sets an operation has still to make leave: the rows no later set removes or
\* replaces, and what the last set of a kind gives a conversation, or what it has now
Stays(r, k) == \A l \in DOMAIN todo : l > k /\ todo[l].set = "events" => r.id \notin Touched(todo[l])
RowsAfter ==
    {r \in events : Stays(r, 0)}
    \cup UNION {{r \in todo[k].new : Stays(r, k)} : k \in {l \in DOMAIN todo : todo[l].set = "events"}}
Waits(kinds, c) == {k \in DOMAIN todo : todo[k].set \in kinds /\ todo[k].conv = c}
Latest(kinds, c, now) ==
    IF Waits(kinds, c) = {} THEN now ELSE todo[CHOOSE k \in Waits(kinds, c) : \A l \in Waits(kinds, c) : l <= k]

Outcome ==
    [c \in Convs |-> LET placed == Latest({"index", "clear"}, c, index[c]) IN
        [rows   |-> Materialize(placed.ids, RowsAfter),
         groups |-> Latest({"groups"}, c, [groups |-> groups[c]]).groups,
         next   |-> placed.next,
         live   |-> Latest({"live", "clear"}, c, index[c]).live]]

\* The three stores together are the one store of activityStore.ts: every operation of the
\* pipeline, for all its sets, has the outcome of one atomic operation there, in rows,
\* groups, numbers and live state of every conversation.
Store == INSTANCE SingleStore WITH view <- Outcome
OneStore == Store!StoreSpec

=============================================================================
