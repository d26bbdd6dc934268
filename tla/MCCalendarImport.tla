--------------------------- MODULE MCCalendarImport ---------------------------
(***************************************************************************)
(* Two attendees of a meeting; one of them also has a series that began in *)
(* the first slot, and a rule Coke cannot express that meets both.         *)
(***************************************************************************)
EXTENDS CalendarImport, TLC

CONSTANTS a1, a2, meeting, series, odd
Calendars == a1 :> {meeting, series, odd} @@ a2 :> {meeting}
Kinds == meeting :> "single" @@ series :> "recurring" @@ odd :> "complex"
Starts == meeting :> 1 @@ series :> 0 @@ odd :> 1
=============================================================================
