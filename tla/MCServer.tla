------------------------------ MODULE MCServer ------------------------------
(***************************************************************************)
(* The instances of the server's stores and tables that TLC checks: a      *)
(* conversation in the database, the checkpoints of a workspace and the    *)
(* process table.  They share no variable: each behaviour runs one of      *)
(* them, its part, and leaves the others at their first state.  The        *)
(* checkpoints have two parts: edits of the files, and requests that work  *)
(* at the same time and fail.                                              *)
(***************************************************************************)
EXTENDS Conversation, Checkpoints, Processes, TLC

CONSTANT OnlyUser   \* the user of the part with edits

VARIABLE part       \* the component that runs

\* The requests differ in nothing but their names.
RequestSymmetry == Permutations(Requests)

TreeNext ==
    /\ CpNext
    /\ Len(commits') <= 1 /\ faults' = 0
    /\ \A u \in Users \ {OnlyUser} : user'[u] = Idle
RecordsNext == CpNext /\ edits' = 0

ServerInit ==
    /\ Init /\ CpInit /\ ProcInit
    /\ part \in {"conversation", "tree", "records", "processes"}
    /\ part # "tree" => disk[IgnoreFile] = 1

ServerNext ==
    /\ UNCHANGED part
    /\ \/ part = "conversation" /\ Next /\ UNCHANGED <<cpVars, procVars>>
       \/ part = "tree" /\ TreeNext /\ UNCHANGED <<vars, procVars>>
       \/ part = "records" /\ RecordsNext /\ UNCHANGED <<vars, procVars>>
       \/ part = "processes" /\ ProcNext /\ UNCHANGED <<vars, cpVars>>

ServerSpec == ServerInit /\ [][ServerNext]_<<part, vars, cpVars, procVars>>
=============================================================================
