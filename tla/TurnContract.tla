---------------------------- MODULE TurnContract ----------------------------
(***************************************************************************)
(* What one turn promises about its conversation, whatever the model, the  *)
(* tools, the store and the cancellation do.  The log holds the messages   *)
(* from the user's prompt on; the outcome is what the readers of the event *)
(* channel are told.  Turn implements this specification.                  *)
(***************************************************************************)
EXTENDS Naturals, SequencesExt

VARIABLES log, outcome

contractVars == <<log, outcome>>

(* The model has to speak next. *)
Settled == Last(log).by \in {"user", "tool"}
(* The last message asks for function calls. *)
AsksTools == Last(log).by = "agent" /\ Last(log).calls > 0
(* The last message is a final answer. *)
IsFinal == Last(log).by = "agent" /\ Last(log).calls = 0

Grows(by) ==
    /\ outcome = "running"
    /\ Len(log') = Len(log) + 1
    /\ log' = Append(log, Last(log'))
    /\ Last(log').by = by
    /\ UNCHANGED outcome

(* The model answers only when every call has been answered. *)
Answer == Settled /\ Grows("agent")

(* The results of all the calls of the last message, in one message. *)
Results ==
    /\ AsksTools
    /\ Grows("tool")
    /\ Last(log').calls = Last(log).calls
    /\ Last(log').iter = Last(log).iter

(* The canceled text of a message that will not be completed: nothing follows it. *)
KeepPartial == Settled /\ Grows("partial")

Ends(o) == outcome = "running" /\ outcome' = o /\ UNCHANGED log

(* Only a final answer completes a turn, and a turn with one completes. *)
Complete == IsFinal /\ Ends("completed")
(* An aborted turn leaves no function call without a response. *)
AbortTurn == (Settled \/ Last(log).by = "partial") /\ Ends("aborted")
(* A failed turn may leave one. *)
FailTurn == (Settled \/ AsksTools) /\ Ends("failed")

Init == /\ Len(log) = 1
        /\ Settled
        /\ outcome = "running"

Next == Answer \/ Results \/ KeepPartial \/ Complete \/ AbortTurn \/ FailTurn

Spec == Init /\ [][Next]_contractVars
=============================================================================
