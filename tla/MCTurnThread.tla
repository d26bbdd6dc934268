---------------------------- MODULE MCTurnThread ----------------------------
(* Small instances of TurnThread for TLC. *)
EXTENDS TurnThread, TLC

CONSTANTS c1, c2, c3, r1, r2

OneConversation == {c1}
TwoConversations == {c1, c2}
ThreeConversations == {c1, c2, c3}
NoConversation == {}
OneRow == {r1}
TwoRows == {r1, r2}
NoRow == {}

\* Accounts that never write a row of each other, share one, or write none.
OwnRows == c1 :> {r1} @@ c2 :> {r2} @@ c3 :> {}
SharedRow == c1 :> {r1} @@ c2 :> {r1}
NoRows == c1 :> {} @@ c2 :> {}
=============================================================================
