--------------------------- MODULE MCAccountAccess ---------------------------
(***************************************************************************)
(* Two accounts: one that may register on the web, one that a sender may   *)
(* make; the address can be registered by two requests at once.            *)
(***************************************************************************)
EXTENDS AccountAccess, TLC

AllOperations == Operations
\* What production offers, where e-mail auth is disabled.
WithoutEmail == Operations \ {"reset", "verify", "resend"}

Symmetry == Permutations(Accounts) \cup Permutations(WhatsApp) \cup Permutations(Browsers)
            \cup Permutations(Passwords)
=============================================================================
