----------------------------- MODULE Transcript -----------------------------
(***************************************************************************)
(* What a conversation promises to whoever replays it: the transcript is   *)
(* only ever continued at its end, or cut back to one of its own user      *)
(* messages, whose text may then be replaced.  Nothing that was cut off    *)
(* returns.  Conversation implements this specification.                   *)
(***************************************************************************)
EXTENDS Naturals

VARIABLE transcript     \* the messages in force: a set of records [id, by, text]

After(m, n) == m.id > n.id

(* One message more, after all the others. *)
Continue ==
    \E m \in transcript' \ transcript :
        /\ transcript' = transcript \cup {m}
        /\ \A n \in transcript : After(m, n)

(* What comes after a user message is given up; the message may get another text. *)
CutBack ==
    \E t \in transcript, u \in transcript' :
        /\ t.by = "user"
        /\ u.id = t.id /\ u.by = t.by
        /\ transcript' = {m \in transcript : After(t, m)} \cup {u}

Init == transcript = {}

Next == Continue \/ CutBack

Spec == Init /\ [][Next]_transcript
=============================================================================
