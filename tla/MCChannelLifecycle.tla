------------------------- MODULE MCChannelLifecycle -------------------------
(* Small instances of ChannelLifecycle for TLC. *)
EXTENDS ChannelLifecycle, TLC

CONSTANTS a, o, m, w, p, r, c1, c2, c3, l

\* The owner of the link is connected through r.
OwnLink == l :> o
OwnerLinked == {[channel |-> c3, account |-> o, subject |-> r]}
BothLinked == OwnerLinked \cup {[channel |-> c1, account |-> a, subject |-> w]}
=============================================================================
