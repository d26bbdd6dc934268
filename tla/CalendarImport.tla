---------------------------- MODULE CalendarImport ----------------------------
(***************************************************************************)
(* The one-time import of a Google calendar (domains/calendar_import, its  *)
(* routes and the chat action): the events Google lists become reminders   *)
(* of the account, each occurrence is recorded once in                     *)
(* calendar_import_item, and the summary tells what became of it.          *)
(*                                                                         *)
(* Time is a number of slots; an event and a reminder last one slot, and a *)
(* repeated one comes back in every slot.  An import checks the            *)
(* authorization, asks Google, looks its occurrences up, then writes; its  *)
(* lookups are taken together.  From the page it is one transaction that   *)
(* an error rolls back; in a chat turn errors are caught and the turn      *)
(* commits.  Ringing is ReminderFires', access AccountAccess's.            *)
(***************************************************************************)
EXTENDS Naturals, FiniteSets, SequencesExt

CONSTANTS
    Accounts,
    Events,         \* source_event_id: attendees of a meeting share its id
    NoEvent,        \* of a reminder its owner made
    CalendarOf,     \* CalendarOf[a]: events in the primary calendar of an account
    KindOf,         \* "single", "recurring" (a rule Coke can express) or "complex"
    StartOf,        \* slot of the first occurrence
    MaxTime,        \* last slot; imports look no further
    MaxImports,
    MaxOwn          \* reminders made or deleted by their owners

Slots == 0..MaxTime

ASSUME CalendarAssumption ==
    /\ NoEvent \notin Events /\ IsFiniteSet(Events)
    /\ CalendarOf \in [Accounts -> SUBSET Events]
    /\ KindOf \in [Events -> {"single", "recurring", "complex"}]
    /\ StartOf \in [Events -> Slots]
    /\ {MaxTime, MaxImports, MaxOwn} \subseteq Nat

VARIABLES
    now,
    reminders,      \* active reminders
    items,          \* calendar_import_item rows
    authorization,  \* calendar_authorization rows of auth_artifact
    granted,        \* accounts whose token Google still accepts
    imports,        \* imports under way
    count,
    own,
    made,           \* history: reminders made by imports
    told            \* history: what each import answered of its occurrences

importVars == <<now, reminders, items, authorization, granted, imports, count, own, made, told>>

Reminders == [owner : Accounts, event : Events \cup {NoEvent}, at : Slots, series : BOOLEAN]
Statuses == {"imported", "downgraded", "failed", "historical_skipped", "skipped_duplicate"}
ImportItems == [account : Accounts, event : Events, key : Slots, status : Statuses]
Occurrences == [event : Events, key : Slots]
Answers == [n : 1..MaxImports, who : Accounts, event : Events, key : Slots, status : Statuses]
Imports == [n : 1..MaxImports, who : Accounts, chat : BOOLEAN, step : {"asked", "read"},
            from : Slots, occurrences : Seq(Occurrences), seen : SUBSET ImportItems,
            busy : SUBSET Reminders]

ImportInit ==
    /\ now = 0
    /\ reminders = {}
    /\ items = {}
    /\ authorization = [a \in Accounts |-> "none"]
    /\ granted = Accounts
    /\ imports = {}
    /\ count = 0
    /\ own = 0
    /\ made = {}
    /\ told = {}

-----------------------------------------------------------------------------
(* What Google lists.                                                      *)

\* timeMin is now: an event is listed until it is over, a series always.
Listed(a) == {e \in CalendarOf[a] : KindOf[e] # "single" \/ StartOf[e] + 1 >= now}

\* A rule Coke cannot express is expanded over the visible window; anything else is one
\* occurrence, at the start of the event or of the series.
OccurrencesOf(e, from) ==
    LET complex == KindOf[e] = "complex"
        first == IF complex /\ from > StartOf[e] THEN from ELSE StartOf[e]
        last == IF complex THEN MaxTime ELSE first
    IN  [i \in 1..(last - first + 1) |-> [event |-> e, key |-> first + i - 1]]
Considered(listed, from) ==
    FlattenSeq([i \in DOMAIN listed |-> OccurrencesOf(listed[i], from)])

-----------------------------------------------------------------------------
(* An import.                                                              *)

Key(x) == <<x.event, x.key>>
Recorded(rows, o) == \E x \in rows : Key(x) = Key(o)

\* _require_active_authorization.
Ask(a, chat, from) ==
    /\ count < MaxImports
    /\ authorization[a] = "none"
    /\ from <= now
    /\ imports' = imports \cup {[n |-> count + 1, who |-> a, chat |-> chat, step |-> "asked",
                                 from |-> from, occurrences |-> <<>>, seen |-> {}, busy |-> {}]}
    /\ count' = count + 1
    /\ UNCHANGED <<now, reminders, items, authorization, granted, own, made, told>>

\* list_events, in the order Google chooses, then the lookups.
Read(r) ==
    /\ r.step = "asked"
    /\ r.who \in granted
    /\ \E listed \in SetToSeqs(Listed(r.who)) :
          imports' = (imports \ {r}) \cup
             {[r EXCEPT !.step = "read",
                        !.occurrences = Considered(listed, r.from),
                        !.seen = items,
                        !.busy = {x \in reminders : x.owner = r.who}]}
    /\ UNCHANGED <<now, reminders, items, authorization, granted, count, own, made, told>>

Reminder(r, o) == [owner |-> r.who, event |-> o.event, at |-> o.key,
                   series |-> KindOf[o.event] = "recurring"]
\* check_time_conflict; a reminder of the same content and time is left to the index.
Conflict(r, o, result) ==
    \E x \in r.busy \cup result.reminders : x.at = o.key /\ x.event # o.event
\* uq_reminder_active_timed_duplicate.
Taken(r, o) == \E x \in reminders : x.owner = r.who /\ x.event = o.event /\ x.at = o.key
StatusOf(r, o, result) ==
    IF o.key < now THEN "historical_skipped"
    ELSE IF Conflict(r, o, result) \/ Taken(r, o) THEN "failed"
    ELSE IF KindOf[o.event] = "complex" THEN "downgraded" ELSE "imported"

\* _import_occurrence.  The insert of the item fails when another import has recorded the
\* occurrence since the lookup; the reminder is already there.
\* Mutant of ImportOccurrence: a recorded occurrence is skipped only if it was imported.
ImportAgain(r, result, o) ==
    LET known == {x \in r.seen \cup result.items : x.status \in {"imported", "downgraded"}
                     /\ \E y \in reminders : y.event = x.event /\ y.at = x.key}
        status == StatusOf(r, o, result)
        makes == status \in {"imported", "downgraded"}
        raised == FALSE
    IN  IF result.raised THEN result
        ELSE IF Recorded(known, o)
        THEN [result EXCEPT !.answers = @ \cup {[event |-> o.event, key |-> o.key,
                                                 status |-> "skipped_duplicate"]}]
        ELSE [result EXCEPT
                 !.reminders = IF makes THEN @ \cup {Reminder(r, o)} ELSE @,
                 !.raised = raised,
                 !.items = @ \cup {[account |-> r.who, event |-> o.event,
                                    key |-> o.key, status |-> status]},
                 !.answers = @ \cup {[event |-> o.event, key |-> o.key, status |-> status]}]
ImportOccurrence(r, result, o) ==
    LET status == StatusOf(r, o, result)
        makes == status \in {"imported", "downgraded"}
        raised == Recorded(items, o)
    IN  IF result.raised THEN result
        ELSE IF Recorded(r.seen \cup result.items, o)
        THEN [result EXCEPT !.answers = @ \cup {[event |-> o.event, key |-> o.key,
                                                 status |-> "skipped_duplicate"]}]
        ELSE [result EXCEPT
                 !.reminders = IF makes THEN @ \cup {Reminder(r, o)} ELSE @,
                 !.raised = raised,
                 !.items = IF raised THEN @ ELSE @ \cup {[account |-> r.who, event |-> o.event,
                                                          key |-> o.key, status |-> status]},
                 !.answers = IF raised THEN @ ELSE @ \cup {[event |-> o.event, key |-> o.key,
                                                            status |-> status]}]
Result(r) ==
    LET after[k \in 0..Len(r.occurrences)] ==
            IF k = 0
            THEN [reminders |-> {}, items |-> {}, answers |-> {}, raised |-> FALSE]
            ELSE ImportOccurrence(r, after[k - 1], r.occurrences[k])
    IN  after[Len(r.occurrences)]

Tell(r, result) ==
    told' = told \cup {[n |-> r.n, who |-> r.who, event |-> x.event, key |-> x.key,
                        status |-> x.status] : x \in result.answers}
Make(r, result) ==
    /\ reminders' = reminders \cup result.reminders
    /\ items' = items \cup result.items
    /\ made' = made \cup {[n |-> r.n, owner |-> r.who, event |-> x.event, key |-> x.at] :
                             x \in result.reminders}

\* The page answers with the summary and commits.
Finish(r) ==
    /\ r.step = "read"
    /\ LET result == Result(r)
       IN  ~result.raised /\ Make(r, result) /\ Tell(r, result)
    /\ imports' = imports \ {r}
    /\ UNCHANGED <<now, authorization, granted, count, own>>

\* CalendarImportActionHandler catches the error: the turn tells that the import is not
\* possible and commits what was written before.
FinishRaised(r) ==
    /\ r.step = "read" /\ r.chat
    /\ LET result == Result(r)
       IN  result.raised /\ Make(r, result)
    /\ imports' = imports \ {r}
    /\ UNCHANGED <<now, authorization, granted, count, own, told>>

\* The transaction is rolled back: an error of the page, of Google, of the process.
\* Mutant of Fail: what was written stays.
FailKeeps(r) ==
    /\ r.step = "read"
    /\ Tell(r, Result(r))
    /\ imports' = imports \ {r}
    /\ UNCHANGED <<now, reminders, items, authorization, granted, count, own, made>>
Fail(r) ==
    /\ imports' = imports \ {r}
    /\ UNCHANGED <<now, reminders, items, authorization, granted, count, own, made, told>>

-----------------------------------------------------------------------------
(* Authorizations, owners and time.                                        *)

\* stop_authorization.
Stop(a) ==
    /\ authorization[a] # "stopped"
    /\ authorization' = [authorization EXCEPT ![a] = "stopped"]
    /\ UNCHANGED <<now, reminders, items, granted, imports, count, own, made, told>>
\* revoke_authorization: Google first, then the row, unless the request fails in between.
Revoke(a, saved) ==
    /\ a \in granted
    /\ granted' = granted \ {a}
    /\ authorization' = IF saved THEN [authorization EXCEPT ![a] = "revoked"] ELSE authorization
    /\ UNCHANGED <<now, reminders, items, imports, count, own, made, told>>

Own == own < MaxOwn /\ own' = own + 1
       /\ UNCHANGED <<now, items, authorization, granted, imports, count, made, told>>
MakeOwn(a, t) ==
    /\ t >= now
    /\ \A x \in reminders : x.owner = a => x.at # t
    /\ reminders' = reminders \cup {[owner |-> a, event |-> NoEvent, at |-> t, series |-> FALSE]}
    /\ Own
Delete(x) == reminders' = reminders \ {x} /\ Own

\* Reminders ring: one is over, a series goes on to its next slot.
Tick ==
    /\ now < MaxTime
    /\ now' = now + 1
    /\ reminders' = {x \in reminders : x.at > now}
          \cup {[x EXCEPT !.at = now + 1] : x \in {y \in reminders : y.series /\ y.at <= now}}
    /\ UNCHANGED <<items, authorization, granted, imports, count, own, made, told>>

ImportNext ==
    \/ \E a \in Accounts, chat \in BOOLEAN, from \in Slots : Ask(a, chat, from)
    \/ \E r \in imports : Read(r) \/ Finish(r) \/ FinishRaised(r) \/ Fail(r)
    \/ \E a \in Accounts : Stop(a) \/ \E saved \in BOOLEAN : Revoke(a, saved)
    \/ \E a \in Accounts, t \in Slots : MakeOwn(a, t)
    \/ \E x \in reminders : Delete(x)
    \/ Tick

ImportSpec == ImportInit /\ [][ImportNext]_importVars

-----------------------------------------------------------------------------
(* What holds.                                                             *)

ImportTypeOK ==
    /\ now \in Slots
    /\ reminders \subseteq Reminders
    /\ items \subseteq ImportItems
    /\ authorization \in [Accounts -> {"none", "stopped", "revoked"}]
    /\ granted \subseteq Accounts
    /\ imports \subseteq Imports
    /\ count \in 0..MaxImports /\ own \in 0..MaxOwn
    /\ told \subseteq Answers

\* However often and however concurrently an account imports its calendar, and whatever
\* became of the first reminder, one summary at most tells it that an occurrence was
\* imported, and one active reminder at most is of that occurrence.
ImportedOnce ==
    /\ \A x, y \in told : Key(x) = Key(y) /\ x.who = y.who
          /\ {x.status, y.status} \subseteq {"imported", "downgraded"} => x = y
    /\ \A x, y \in reminders : x.event = y.event /\ x.event # NoEvent /\ x.owner = y.owner =>
          x = y \/ (KindOf[x.event] = "complex" /\ x.at # y.at)

\* What a summary calls imported is a reminder made by that import, recorded as its own:
\* a duplicate found, a failure or an error half-way leaves no such answer.
ToldIsImported ==
    \A x \in told : x.status \in {"imported", "downgraded"} =>
       /\ \E y \in made : y.n = x.n /\ y.owner = x.who /\ Key(y) = Key(x)
       /\ \E y \in items : y.account = x.who /\ Key(y) = Key(x) /\ y.status = x.status

-----------------------------------------------------------------------------
(* What the repository says of the program and the code does not keep.     *)

\* current.md:1064 "If a calendar event has already been imported, the system skips it
\* directly": what is skipped was imported for this account.  An attempt that failed on a
\* conflict, and the import of another attendee, are skipped as already imported too.
SkippedWasImported ==
    \A x \in told : x.status = "skipped_duplicate" =>
       \E y \in made : y.owner = x.who /\ Key(y) = Key(x)

\* current.md:1044 "Recurring calendar events are preferably imported as Coke recurring
\* reminders."  A series that began before the import counts as historical.
SeriesIsImported ==
    \A x \in told : KindOf[x.event] = "recurring" => x.status # "historical_skipped"

\* ARCHITECTURE.md:226 "Visible success must match the real Execute outcome that is
\* committed at close."  An import the chat calls not possible leaves reminders.
NotPossibleMadeNothing ==
    \A x \in made : \E y \in told : y.n = x.n
=============================================================================
