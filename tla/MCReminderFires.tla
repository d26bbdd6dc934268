--------------------------- MODULE MCReminderFires ---------------------------
(* Small instances of ReminderFires for TLC. *)
EXTENDS ReminderFires, TLC

CONSTANTS r1, r2

OneReminder == {r1}
TwoReminders == {r1, r2}

Recurring == r1 :> "recurring"
RecurringAndTimed == r1 :> "recurring" @@ r2 :> "timed"
RecurringAndShared == r1 :> "recurring" @@ r2 :> "projection"
=============================================================================
