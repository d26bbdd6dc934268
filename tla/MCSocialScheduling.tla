------------------------- MODULE MCSocialScheduling -------------------------
(* Small instances of SocialScheduling for TLC. *)
EXTENDS SocialScheduling, TLC

CONSTANTS a1, a2, a3, f1, f2, f3, f4, l1, l2

ThreeAccounts == {a1, a2, a3}
FourFriendships == {f1, f2, f3, f4}
TwoLinks == {l1, l2}

TwoPairs == {{a1, a2}, {a1, a3}}

OneShared == {[creator |-> a1, parts |-> {a1, a2}, time |-> 1, status |-> "active"]}

\* The rows of a table are alike.
Symmetry == Permutations(TwoLinks) \cup Permutations(FourFriendships)
=============================================================================
