----------------------------- MODULE SingleStore -----------------------------
(***************************************************************************)
(* The feed's store as one store whose operations are atomic:              *)
(* loop-desktop/src/stores/activityStore.ts.  The event, conversation and  *)
(* group stores of module FeedStores together replace it.                  *)
(***************************************************************************)
EXTENDS Timeline

CONSTANTS
    Convs,     \* conversations
    FeedRows   \* rows that may be stored

VARIABLE view  \* rows, groups, next sequence number and live state of each conversation

DefaultLive == "default"

EmptyConversation == [rows |-> <<>>, groups |-> <<>>, next |-> Scale, live |-> DefaultLive]

\* getNextSequenceNo, in thousandths
NextAfter(rows) == NextSequenceNo(rows)

\* withConversationEvents
WithEvents(v, c, rows) ==
    [v EXCEPT ![c].rows = SortRows(rows), ![c].groups = BuildActivityGroups(rows), ![c].next = NextAfter(rows)]

Without(rows, id) == Only(rows, {r \in ToSet(rows) : r.id # id})

\* eventAffectsConversationStructure
AffectsStructure(current, next) ==
    \/ current.id # next.id
    \/ current.conv # next.conv
    \/ current.seq # next.seq
    \/ current.kind # next.kind

IdsOf(rows) == {rows[i].id : i \in DOMAIN rows}

-----------------------------------------------------------------------------
\* Every operation relates the store before, v, and after, w.  Rows that name no row of
\* another conversation
ReplaceConversationEvents(v, w, c, rows) ==
    /\ \A i \in DOMAIN rows : rows[i] \in FeedRows /\ rows[i].conv = c
    /\ \A d \in Convs \ {c} : IdsOf(rows) \cap IdsOf(v[d].rows) = {}
    /\ w = WithEvents(v, c, rows)

\* replaceConversationEvents and resetLiveState
Hydrate(v, w, c, rows) ==
    /\ \A i \in DOMAIN rows : rows[i] \in FeedRows /\ rows[i].conv = c
    /\ w = [WithEvents(v, c, rows) EXCEPT ![c].live = DefaultLive]

UpsertConversationEvent(v, w, r) == w = WithEvents(v, r.conv, Append(Without(v[r.conv].rows, r.id), r))

UpdateEvent(v, w, c, i, r) ==
    LET current == v[c].rows[i]
        removed == WithEvents(v, c, Without(v[c].rows, r.id))
    IN /\ r.id = current.id
       /\ w = IF ~AffectsStructure(current, r) THEN [v EXCEPT ![c].rows[i] = r]
              ELSE WithEvents(IF r.conv = c THEN v ELSE removed, r.conv,
                              Append(Without(v[r.conv].rows, r.id), r))

\* upsertEvents of rows that stay in their places
UpsertEvents(v, w, c, rows) ==
    /\ Len(rows) = Len(v[c].rows)
    /\ \A i \in DOMAIN rows : rows[i] \in FeedRows /\ ~AffectsStructure(v[c].rows[i], rows[i])
    /\ w = [v EXCEPT ![c].rows = rows]

ClearConversation(v, w, c) == w = [v EXCEPT ![c] = EmptyConversation]

\* reserveSequenceNo: of the next number, or of a given one, which the next number passes
ReserveSequenceNo(v, w, c) == w = [v EXCEPT ![c].next = @ + Scale]
ReserveRequestedNo(v, w, c, above) == w = [v EXCEPT ![c].next = Max({@, above})]

\* updateLiveState, resetLiveState
UpdateLiveState(v, w, c, live) == w = [v EXCEPT ![c].live = live]

StoreInit == view = [c \in Convs |-> EmptyConversation]

\* The arguments are read off the outcome: the rows a conversation has afterwards, in their
\* order, stand for any sequence of them that was given
StoreNext ==
    \E v \in {view}, w \in {view'} : \E c \in Convs :
        \/ ReplaceConversationEvents(v, w, c, w[c].rows)
        \/ Hydrate(v, w, c, w[c].rows)
        \/ UpsertEvents(v, w, c, w[c].rows)
        \/ \E r \in ToSet(w[c].rows) :
             \/ UpsertConversationEvent(v, w, r)
             \/ \E d \in Convs : \E i \in DOMAIN v[d].rows : UpdateEvent(v, w, d, i, r)
        \/ ClearConversation(v, w, c)
        \/ ReserveSequenceNo(v, w, c) \/ ReserveRequestedNo(v, w, c, w[c].next)
        \/ UpdateLiveState(v, w, c, w[c].live)

StoreSpec == StoreInit /\ [][StoreNext]_view

=============================================================================
