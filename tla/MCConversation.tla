--------------------------- MODULE MCConversation ---------------------------
(* The instances of Conversation that TLC checks; the .cfg files choose their constants. *)
EXTENDS Conversation, TLC

\* The requests differ in nothing but their names.
RequestSymmetry == Permutations(Requests)
=============================================================================
