---------------------------- MODULE MCConversation ----------------------------
(* A small instance of Conversation for TLC. *)
EXTENDS Conversation, TLC

Symmetry == Permutations(Worker)
=============================================================================
