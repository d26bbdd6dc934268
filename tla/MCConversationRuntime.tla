------------------------ MODULE MCConversationRuntime ------------------------
(* Small instances of ConversationRuntime for TLC. *)
EXTENDS ConversationRuntime, TLC

CONSTANTS t1, t2

TwoTurns == {t1, t2}

\* Turns are interchangeable: no action or invariant names one of them.
TurnSymmetry == Permutations(Turns)
=============================================================================
