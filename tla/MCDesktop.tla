------------------------------ MODULE MCDesktop ------------------------------
(***************************************************************************)
(* The instances of the desktop's components that TLC checks.  They share  *)
(* no variable: each behaviour runs one of them, its part, and leaves the  *)
(* others at their first state.                                            *)
(***************************************************************************)
EXTENDS Patches, LiveTurn, DesktopStream, ConversationList, PatchUndo, FeedStores,
        Connection, ApprovalSheet, Navigation, Environment

CONSTANTS o1, o2, o3,   \* lines of a file before the turn
          MaxListCalls  \* bound: requests that change neither a list nor the server

VARIABLES part,         \* the component that runs
          listCalls     \* such requests made

MCOriginal == [p \in Paths |-> IF p = "a" THEN <<o1, o2, o3>> ELSE NoFile]

FeedRow(id, c, seq, kind, body) == [id |-> id, conv |-> c, seq |-> seq, kind |-> kind, body |-> body]
MCFeedRows ==
    {FeedRow(1, 1, 1000, "user", "a"), FeedRow(2, 1, 1000, "lifecycle", "a"),
     FeedRow(2, 1, 500, "assistant", "a"), FeedRow(2, 1, 500, "assistant", "b"),
     FeedRow(2, 2, 500, "assistant", "a"), FeedRow(3, 2, 1000, "user", "a")}

\* Conversations 1 and 2 in the first workspace, 3 in the second, and a thread of 1
MCHome == <<1, 1, 2>>
MCRootOf == [c \in {4} |-> 1]
MCNamed == [q \in {"", "q"} |-> IF q = "" THEN {1, 2} ELSE {}]
MCHits == [q \in {"", "q"} |-> IF q = "" THEN <<3>> ELSE <<4, 2>>]
MCRepos == <<"ready", "none">>

\* The variables of LiveTurn but the timeline
liveOnly == <<view, selected, active, sending, chan, loads, transient, phase, request, cursor, watched, intact>>
stillList == <<listVars, listCalls>>
feedParts == <<patchVars, undoVars, feedVars>>
shellParts == <<connVars, sheetVars, navVars, envVars>>

Init ==
    /\ PatchInit /\ LiveInit /\ DeskInit /\ ListInit /\ UndoInit /\ FeedInit
    /\ ConnInit /\ SheetInit /\ NavInit /\ EnvInit
    /\ listCalls = 0
    /\ part \in {"patches", "timeline", "watched", "switched", "stream", "lists", "undo", "stores",
                "connection", "sheet", "navigation", "environment"}
    /\ selected = (part # "timeline")
    /\ part # "lists" => server.wss = {}

\* A conversation that stays on screen, and one the user leaves and opens again
Watched == part = "watched" /\ LiveNext /\ loads' = <<>> /\ selected'
Switched == part = "switched" /\ LiveNext /\ transient' = 0 /\ cursor' <= 2

CountedListNext ==
    /\ ~failed /\ ListNext
    /\ listCalls' = IF Len(calls') > Len(calls) /\ UNCHANGED <<lists, server, known>> THEN listCalls + 1 ELSE listCalls
    /\ listCalls' <= MaxListCalls

Next ==
    /\ UNCHANGED part
    /\ \/ /\ part = "patches" /\ PatchNext
          /\ UNCHANGED <<liveVars, deskVars, stillList, undoVars, feedVars, shellParts>>
       \/ /\ part = "timeline" /\ TimelineNext /\ Len(items') <= 3
          /\ UNCHANGED <<liveOnly, deskVars, stillList, feedParts, shellParts>>
       \/ /\ Watched \/ Switched
          /\ UNCHANGED <<deskVars, stillList, feedParts, shellParts>>
       \/ /\ part = "stream" /\ DeskNext
          /\ UNCHANGED <<liveVars, stillList, feedParts, shellParts>>
       \/ /\ part = "lists" /\ CountedListNext
          /\ UNCHANGED <<liveVars, deskVars, feedParts, shellParts>>
       \/ /\ part = "undo" /\ UndoNext
          /\ UNCHANGED <<patchVars, liveVars, deskVars, stillList, feedVars, shellParts>>
       \/ /\ part = "stores" /\ FeedNext
          /\ UNCHANGED <<patchVars, liveVars, deskVars, stillList, undoVars, shellParts>>
       \/ /\ part = "connection" /\ ConnNext
          /\ UNCHANGED <<liveVars, deskVars, stillList, feedParts, sheetVars, navVars, envVars>>
       \/ /\ part = "sheet" /\ SheetNext
          /\ UNCHANGED <<liveVars, deskVars, stillList, feedParts, connVars, navVars, envVars>>
       \/ /\ part = "navigation" /\ NavNext
          /\ UNCHANGED <<liveVars, deskVars, stillList, feedParts, connVars, sheetVars, envVars>>
       \/ /\ part = "environment" /\ EnvNext
          /\ UNCHANGED <<liveVars, deskVars, stillList, feedParts, connVars, sheetVars, navVars>>

Spec == Init /\ [][Next]_<<part, liveVars, deskVars, stillList, feedParts, shellParts>>
=============================================================================
