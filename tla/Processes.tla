------------------------------ MODULE Processes ------------------------------
(***************************************************************************)
(* Commands that outlive the tool call that started them                   *)
(* (loop/agent/tools/process_manager.go).  exec_command and shell start a  *)
(* process and wait for it as long as they are told to; write_stdin finds  *)
(* a process that is still in the table, passes it input, and waits again. *)
(* Each takes the output so far, and reports whether the process has       *)
(* exited.  The table is the server's, so turns of all conversations and   *)
(* child threads work on it at the same time.                              *)
(*                                                                         *)
(* The wait has a timer, which may fire at any time.  Output is counted in *)
(* pieces: a process writes them, a goroutine of exec.Cmd copies them into *)
(* the buffer, and Wait returns when the process has exited and its output *)
(* is copied.  exitCode is read and written without a lock: a read sees it *)
(* set or not.                                                             *)
(***************************************************************************)
EXTENDS Naturals, Sequences, FiniteSets

CONSTANTS
    Callers,        \* tool calls in progress at the same time
    MaxProcesses,   \* bound: processes started
    MaxOutput,      \* bound: pieces of output of a process
    MaxPolls        \* bound: calls of write_stdin

ASSUME ProcessesAssumption == MaxProcesses \in Nat /\ MaxOutput \in Nat /\ MaxPolls \in Nat

VARIABLES
    procs,      \* the processes, by session id
    table,      \* the ids in the map "processes"
    caller,     \* what each tool call does
    polls,      \* calls of write_stdin so far
    heard,      \* the pieces of output in replies
    told,       \* history: what replies have said of each process
    killed,     \* history: processes killed through the manager
    unsaid      \* history: processes removed by a call that had read no exit code

procVars == <<procs, table, caller, polls, heard, told, killed, unsaid>>

Free == [at |-> "free", p |-> 0, exec |-> FALSE, finished |-> FALSE, output |-> {}, exited |-> FALSE]
SetCaller(c, state) == caller' = [caller EXCEPT ![c] = state]
GoesTo(c, at) == SetCaller(c, [caller[c] EXCEPT !.at = at])
Ids == 1 .. Len(procs)

Fresh(input) == [alive |-> TRUE, input |-> input, written |-> 0, copied |-> 0, taken |-> 0,
                 exitCode |-> FALSE, done |-> FALSE]

-----------------------------------------------------------------------------
(* The process and the goroutines that watch it. *)

\* It writes, as long as it runs
WriteOutput(p) ==
    /\ procs[p].alive /\ procs[p].written < MaxOutput
    /\ procs' = [procs EXCEPT ![p].written = @ + 1]
    /\ UNCHANGED <<table, caller, polls, heard, told, killed, unsaid>>

Exit(p) ==
    /\ procs[p].alive
    /\ procs' = [procs EXCEPT ![p].alive = FALSE]
    /\ UNCHANGED <<table, caller, polls, heard, told, killed, unsaid>>

CopyOutput(p) ==
    /\ procs[p].copied < procs[p].written
    /\ procs' = [procs EXCEPT ![p].copied = @ + 1]
    /\ UNCHANGED <<table, caller, polls, heard, told, killed, unsaid>>

\* Mutant: the exit code is set without waiting for the output
ExitedBeforeOutput(p) ==
    /\ ~procs[p].alive /\ ~procs[p].exitCode
    /\ procs' = [procs EXCEPT ![p].exitCode = TRUE]
    /\ UNCHANGED <<table, caller, polls, heard, told, killed, unsaid>>

\* cmd.Wait returns, and the code is set before the deferred close of done
Waited(p) ==
    /\ ~procs[p].alive /\ procs[p].copied = procs[p].written /\ ~procs[p].exitCode
    /\ procs' = [procs EXCEPT ![p].exitCode = TRUE]
    /\ UNCHANGED <<table, caller, polls, heard, told, killed, unsaid>>

CloseDone(p) ==
    /\ procs[p].exitCode /\ ~procs[p].done
    /\ procs' = [procs EXCEPT ![p].done = TRUE]
    /\ UNCHANGED <<table, caller, polls, heard, told, killed, unsaid>>

-----------------------------------------------------------------------------
(* ExecCommand, for exec_command and shell. *)

\* A command that cannot be started leaves nothing but a used number
Start(c, input) ==
    /\ caller[c] = Free /\ Len(procs) < MaxProcesses
    /\ procs' = Append(procs, Fresh(input))
    /\ heard' = Append(heard, {})
    /\ told' = Append(told, {})
    /\ SetCaller(c, [Free EXCEPT !.at = "register", !.p = Len(procs) + 1, !.exec = TRUE])
    /\ UNCHANGED <<table, polls, killed, unsaid>>

RegisterProcess(c) ==
    /\ caller[c].at = "register"
    /\ table' = table \cup {caller[c].p}
    /\ GoesTo(c, "wait")
    /\ UNCHANGED <<procs, polls, heard, told, killed, unsaid>>

(* WriteStdin: an id the table does not have is an error. *)

Poll(c, p, input) ==
    /\ caller[c] = Free /\ polls < MaxPolls
    /\ polls' = polls + 1
    /\ p \in table
    /\ SetCaller(c, [Free EXCEPT !.at = IF input THEN "input" ELSE "wait", !.p = p])
    /\ UNCHANGED <<procs, table, heard, told, killed, unsaid>>

\* Input that cannot be passed on ends the call with an error.  A process that reads none
\* of it may let the call wait, without a timer.
PassInput(c) ==
    LET q == procs[caller[c].p]
    IN  /\ caller[c].at = "input"
        /\ \/ q.input /\ q.alive /\ GoesTo(c, "wait")
           \/ (~q.input \/ ~q.alive) /\ SetCaller(c, Free)
        /\ UNCHANGED <<procs, table, polls, heard, told, killed, unsaid>>

(* Both wait, read the output, and then the exit code, twice. *)

\* The process has finished, or the timer fires
WaitEnds(c, finished) ==
    /\ caller[c].at = "wait"
    /\ finished => procs[caller[c].p].done
    /\ SetCaller(c, [caller[c] EXCEPT !.at = "take", !.finished = finished])
    /\ UNCHANGED <<procs, table, polls, heard, told, killed, unsaid>>

\* ReadAndReset
TakeOutput(c) ==
    LET p == caller[c].p
    IN  /\ caller[c].at = "take"
        /\ procs' = [procs EXCEPT ![p].taken = procs[p].copied]
        /\ SetCaller(c, [caller[c] EXCEPT !.at = "read", !.output = procs[p].taken + 1 .. procs[p].copied])
        /\ UNCHANGED <<table, polls, heard, told, killed, unsaid>>

\* The exit code of the reply
ReadExitCode(c) ==
    /\ caller[c].at = "read"
    /\ SetCaller(c, [caller[c] EXCEPT !.at = "reply", !.exited = procs[caller[c].p].exitCode])
    /\ UNCHANGED <<procs, table, polls, heard, told, killed, unsaid>>

\* What the reply says: the exit code, or that the session goes on.  A new process whose
\* exit code is set by now has no session id in the reply.
Said(c) ==
    IF caller[c].exited THEN {"exited"} \cup (IF caller[c].finished THEN {"finished"} ELSE {})
    ELSE IF caller[c].exec /\ procs[caller[c].p].exitCode THEN {}
    ELSE {"running"}

\* Mutant: the entry of a process that runs on is removed
RemoveAlways(c) == TRUE
\* The exit code is read once more for the entry of the table
Finished(c) == procs[caller[c].p].exitCode

Reply(c) ==
    LET p == caller[c].p
    IN  /\ caller[c].at = "reply"
        /\ table' = IF Finished(c) THEN table \ {p} ELSE table
        /\ unsaid' = IF Finished(c) /\ ~caller[c].exited THEN unsaid \cup {p} ELSE unsaid
        /\ heard' = [heard EXCEPT ![p] = @ \cup caller[c].output]
        /\ told' = [told EXCEPT ![p] = @ \cup Said(c)]
        /\ SetCaller(c, Free)
        /\ UNCHANGED <<procs, polls, killed>>

\* Kill, of one process, and Cleanup, of all
Kill(some) ==
    /\ some # {} /\ some \subseteq table
    /\ table' = table \ some
    /\ killed' = killed \cup some
    /\ UNCHANGED <<procs, caller, polls, heard, told, unsaid>>

ProcInit ==
    /\ procs = <<>> /\ heard = <<>> /\ told = <<>>
    /\ table = {} /\ killed = {} /\ unsaid = {}
    /\ caller = [c \in Callers |-> Free]
    /\ polls = 0

CallStep(c) ==
    \/ RegisterProcess(c) \/ PassInput(c) \/ TakeOutput(c) \/ ReadExitCode(c) \/ Reply(c)
    \/ \E finished \in BOOLEAN : WaitEnds(c, finished)

ProcNext ==
    \/ \E p \in Ids : WriteOutput(p) \/ Exit(p) \/ CopyOutput(p) \/ Waited(p) \/ CloseDone(p)
    \/ \E c \in Callers : CallStep(c) \/ \E input \in BOOLEAN : Start(c, input) \/ \E p \in Ids : Poll(c, p, input)
    \/ \E p \in Ids : Kill({p})
    \/ Kill(table)

ProcSpec == ProcInit /\ [][ProcNext]_procVars

-----------------------------------------------------------------------------
(* Properties. *)

\* Whose call is under way, and will say that the process has exited
WillTell(p) == \E c \in Callers : caller[c].at = "reply" /\ caller[c].p = p /\ caller[c].exited

\* A process that runs can be reached: it is in the table, wherever other calls and its
\* exit come between, unless it is just being started or was killed.
ReachableWhileAlive ==
    \A p \in Ids : procs[p].alive =>
        p \in table \cup killed \/ \E c \in Callers : caller[c].at = "register" /\ caller[c].p = p

\* A session the model was told of is found by write_stdin until a reply has said that the
\* process has exited, unless the exit came between the two readings of its exit code.
SessionsFound ==
    \A p \in Ids : "running" \in told[p] /\ "exited" \notin told[p] =>
        p \in table \cup killed \cup unsaid \/ WillTell(p)

\* The pieces of output that a call has taken and not replied with yet
Carried(p) == UNION {caller[c].output : c \in {d \in Callers : caller[d].at \in {"read", "reply"} /\ caller[d].p = p}}

\* Replies carry each piece once, and when a call that waited for the end has said so, no
\* piece is missing.
OutputWhole ==
    \A p \in Ids :
        /\ heard[p] \cup Carried(p) = 1 .. procs[p].taken
        /\ heard[p] \cap Carried(p) = {}
        /\ "finished" \in told[p] => procs[p].taken = procs[p].written

\* The table, the replies and the output agree, whatever calls and exits interleave.
SessionsSound == ReachableWhileAlive /\ SessionsFound /\ OutputWhole
=============================================================================
