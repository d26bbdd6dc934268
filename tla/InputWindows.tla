---------------------------- MODULE InputWindows ----------------------------
(***************************************************************************)
(* What one conversation promises its user (docs/ARCHITECTURE.md,          *)
(* "Interactive Input Windows And Pre-Reply Interruption").                *)
(*                                                                         *)
(* Inbound messages are numbered in the order they are recorded.  The only *)
(* way a message stops waiting is a close decision, and a close decision   *)
(* always takes everything that is waiting: it starts right after the last *)
(* message already closed and reaches the newest one.  Nothing is skipped, *)
(* nothing is decided twice, and no decision is taken on an old window.    *)
(***************************************************************************)
EXTENDS Naturals

VARIABLES
    received,   \* number of inbound messages recorded so far
    answered    \* number of them covered by a close decision

vars == <<received, answered>>

Init == received = 0 /\ answered = 0

\* One more inbound message is recorded.
Receive ==
    /\ received' = received + 1
    /\ UNCHANGED answered

\* One close decision covers every message that is still open.
Answer ==
    /\ answered < received
    /\ answered' = received
    /\ UNCHANGED received

Next == Receive \/ Answer

Spec == Init /\ [][Next]_vars
=============================================================================
