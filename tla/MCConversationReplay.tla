------------------------- MODULE MCConversationReplay -------------------------
(***************************************************************************)
(* ConversationReplay for TLC: the demands are interchangeable.            *)
(***************************************************************************)
EXTENDS ConversationReplay, TLC

Symmetric == Permutations(Callers)
=============================================================================
