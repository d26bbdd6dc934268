-------------------------- MODULE MCWeChatConnector --------------------------
(* Small instances of WeChatConnector for TLC. *)
EXTENDS WeChatConnector, TLC

CONSTANTS s1, s2, r1

OneSession == {s1}
TwoSessions == {s1, s2}
OneRoute == {r1}
NoRoute == {}
Symmetry == Permutations(TwoSessions)
=============================================================================
