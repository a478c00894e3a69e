------------------------------ MODULE Calendar ------------------------------
(***************************************************************************)
(* One meeting in the calendars of a tenant                                *)
(* (internal/storage/calendar_store.go): the organizer's row and one copy  *)
(* of it for every invited user.  Replies and cancellations arrive by mail *)
(* (internal/smtp/pipeline_calendar.go), a worker sends reminders, and the *)
(* owner of a row edits it from a copy read before.                        *)
(***************************************************************************)
EXTENDS Naturals, FiniteSets, Tables

CONSTANTS
    Organizer, Guests,  \* owners of the rows
    Repliers,           \* attendees who answer by mail
    ReplyMails,         \* mails with METHOD:REPLY
    MaxCalTime,         \* bound: clock, in units of the reminder's lead time
    MaxCalEdits         \* bound: edits, calls of SetAttendeeResponses, and failures

ASSUME CalendarAssumption ==
    /\ Organizer \notin Guests
    /\ MaxCalTime \in Nat \ {0} /\ MaxCalEdits \in Nat   \* the meeting starts at time 1
    /\ {Null, Gone} \cap (Repliers \cup STRING) = {}

Owners == {Organizer} \cup Guests
PartStats == {"accepted", "declined"}

VARIABLES
    events,     \* owner -> calendar_events row, or Gone
    editing,    \* owner -> the copy Get returned: whether it is cancelled, or Null without an edit
    replies,    \* mail -> [who, status, at] of its processing
    listed,     \* owner -> the start time of a row ListDueReminders returned, or Null
    toMark,     \* owners whose reminder has gone out and whose row is still to be marked
    calNow, calEdits,
    \* observations
    reminded,   \* <<owner, start>> reminders that were sent
    overrun,    \* owners whose row was rescheduled while its reminder was being sent
    callOffs,   \* owners whose row was cancelled by mail
    revived,    \* owners whose edit, begun before the cancellation, was saved after it
    mixed       \* repliers with two mails under way at once, or a step of one that failed,
                \*   or whose answer the organizer edited

calVars == <<events, editing, replies, listed, toMark, calNow, calEdits, reminded, overrun, callOffs,
             revived, mixed>>

Times == 0..MaxCalTime
EventRow == [resp: [Repliers -> PartStats \cup {Null}], start: Times, sent: BOOLEAN, cancelled: BOOLEAN]

CalTypeOK ==
    /\ events \in [Owners -> EventRow \cup {Gone}]
    /\ editing \in [Owners -> BOOLEAN \cup {Null}]
    /\ replies \in [ReplyMails -> [who: Repliers, status: PartStats, at: {"sent", "own", "others", "done"}]]
    /\ listed \in [Owners -> Times \cup {Null}] /\ toMark \subseteq Owners
    /\ calNow \in Times /\ calEdits \in 0..MaxCalEdits
    /\ reminded \subseteq Owners \X Times
    /\ overrun \subseteq Owners /\ callOffs \subseteq Owners /\ revived \subseteq Owners
    /\ mixed \subseteq Repliers

CalInit ==
    /\ events = [o \in Owners |-> [resp |-> [a \in Repliers |-> Null], start |-> 1, sent |-> FALSE, cancelled |-> FALSE]]
    /\ editing = [o \in Owners |-> Null] /\ listed = [o \in Owners |-> Null] /\ toMark = {}
    /\ replies \in [ReplyMails -> [who: Repliers, status: PartStats, at: {"sent"}]]
    /\ calNow = 0 /\ calEdits = 0
    /\ reminded = {} /\ overrun = {} /\ callOffs = {} /\ revived = {} /\ mixed = {}

-----------------------------------------------------------------------------
Kept == {o \in Owners : events[o] # Gone}
CalEdit == calEdits < MaxCalEdits /\ calEdits' = calEdits + 1

CalTick ==
    /\ calNow < MaxCalTime /\ calNow' = calNow + 1
    /\ UNCHANGED <<events, editing, replies, listed, toMark, calEdits, reminded, overrun, callOffs, revived, mixed>>

-----------------------------------------------------------------------------
(* The owner of a row. *)

CalGet(o) ==
    /\ o \in Kept /\ editing[o] = Null /\ CalEdit
    /\ editing' = [editing EXCEPT ![o] = events[o].cancelled]
    /\ UNCHANGED <<events, replies, listed, toMark, calNow, reminded, overrun, callOffs, revived, mixed>>

(* mutant: the reminder of the old time counts for the new one *)
EditedKeepSent(o, t) == [events[o] EXCEPT !.start = t, !.cancelled = editing[o]]

\* All columns but the answers come from the edited copy, with the start the user chose, and the
\* reminder is due again.
Edited(o, t) == [events[o] EXCEPT !.start = t, !.cancelled = editing[o], !.sent = FALSE]

CalUpdate(o, t) ==
    /\ editing[o] # Null
    /\ editing' = [editing EXCEPT ![o] = Null]
    /\ \/ /\ o \in Kept
          /\ events' = [events EXCEPT ![o] = Edited(o, t)]
          /\ overrun' = IF listed[o] \notin {Null, t} THEN overrun \cup {o} ELSE overrun \ {o}
          /\ revived' = IF events[o].cancelled /\ ~editing[o] THEN revived \cup {o} ELSE revived
       \/ o \notin Kept /\ UNCHANGED <<events, overrun, revived>>
    /\ UNCHANGED <<replies, listed, toMark, calNow, calEdits, reminded, callOffs, mixed>>

CalDelete(o) ==
    /\ o \in Kept
    /\ events' = [events EXCEPT ![o] = Gone]
    /\ UNCHANGED <<editing, replies, listed, toMark, calNow, calEdits, reminded, overrun, callOffs, revived, mixed>>

\* The organizer removes attendees: only the own row is written.
SetAttendeeResponses(A) ==
    /\ Organizer \in Kept /\ CalEdit
    /\ events' = [events EXCEPT ![Organizer].resp = [a \in Repliers |-> IF a \in A THEN Null ELSE @[a]]]
    /\ mixed' = mixed \cup A
    /\ UNCHANGED <<editing, replies, listed, toMark, calNow, reminded, overrun, callOffs, revived>>

-----------------------------------------------------------------------------
(* Inbound mail. *)

Under(m) == replies[m].at \in {"own", "others"}

\* GetByExternalUID finds the organizer's row by its id; without it the mail is dropped.
processICSReply(m) ==
    LET a == replies[m].who
    IN /\ replies[m].at = "sent"
       /\ replies' = [replies EXCEPT ![m].at = IF Organizer \in Kept THEN "own" ELSE "done"]
       /\ mixed' = IF \E n \in ReplyMails : Under(n) /\ replies[n].who = a THEN mixed \cup {a} ELSE mixed
       /\ UNCHANGED <<events, editing, listed, toMark, calNow, calEdits, reminded, overrun, callOffs, revived>>

Answered(o, m) == [events[o] EXCEPT !.resp[replies[m].who] = replies[m].status]

\* The answer is merged into the organizer's row; a failure ends the handling.
UpdateAttendeeResponse(m) ==
    /\ replies[m].at = "own"
    /\ \/ /\ Organizer \in Kept
          /\ events' = [events EXCEPT ![Organizer] = Answered(Organizer, m)]
          /\ replies' = [replies EXCEPT ![m].at = "others"]
          /\ UNCHANGED calEdits
       \/ /\ Organizer \notin Kept \/ calEdits < MaxCalEdits
          /\ calEdits' = IF Organizer \in Kept THEN calEdits + 1 ELSE calEdits
          /\ replies' = [replies EXCEPT ![m].at = "done"]
          /\ UNCHANGED events
    /\ UNCHANGED <<editing, listed, toMark, calNow, reminded, overrun, callOffs, revived, mixed>>

\* Every copy of the event within the tenant.
AnsweredCopies(m) == [o \in Owners |-> IF o \in Guests \cap Kept THEN Answered(o, m) ELSE events[o]]

BroadcastAttendeeResponse(m) ==
    /\ replies[m].at = "others"
    /\ replies' = [replies EXCEPT ![m].at = "done"]
    /\ \/ events' = AnsweredCopies(m) /\ UNCHANGED <<calEdits, mixed>>
       \/ CalEdit /\ mixed' = mixed \cup {replies[m].who} /\ UNCHANGED events
    /\ UNCHANGED <<editing, listed, toMark, calNow, reminded, overrun, callOffs, revived>>

\* METHOD:CANCEL to a guest: MarkCancelled.
processICSCancel(g) ==
    /\ g \in Guests \cap Kept /\ ~events[g].cancelled
    /\ events' = [events EXCEPT ![g].cancelled = TRUE]
    /\ callOffs' = callOffs \cup {g} /\ revived' = revived \ {g}
    /\ UNCHANGED <<editing, replies, listed, toMark, calNow, calEdits, reminded, overrun, mixed>>

-----------------------------------------------------------------------------
(* The reminder worker. *)

\* Not sent, and within the lead time; cancelled events are not left out.
Due(o) == o \in Kept /\ ~events[o].sent /\ events[o].start > calNow /\ events[o].start <= calNow + 1

ListDueReminders ==
    /\ \A o \in Owners : listed[o] = Null
    /\ \E o \in Owners : Due(o)
    /\ listed' = [o \in Owners |-> IF Due(o) THEN events[o].start ELSE Null]
    /\ UNCHANGED <<events, editing, replies, toMark, calNow, calEdits, reminded, overrun, callOffs, revived, mixed>>

\* The reminder of a listed row goes out, for the start it was listed with.
SendReminder(o) ==
    /\ listed[o] # Null /\ o \notin toMark /\ toMark' = toMark \cup {o}
    /\ reminded' = reminded \cup {<<o, listed[o]>>}
    /\ UNCHANGED <<events, editing, replies, listed, calNow, calEdits, overrun, callOffs, revived, mixed>>

\* Then the row is marked, by its id alone; a mark that fails leaves the reminder due again.
MarkReminderSent(o) ==
    /\ o \in toMark /\ toMark' = toMark \ {o} /\ listed' = [listed EXCEPT ![o] = Null]
    /\ \/ /\ events' = IF o \in Kept THEN [events EXCEPT ![o].sent = TRUE] ELSE events
          /\ UNCHANGED <<calEdits, overrun>>
       \/ CalEdit /\ overrun' = overrun \ {o} /\ UNCHANGED events
    /\ UNCHANGED <<editing, replies, calNow, reminded, callOffs, revived, mixed>>

CalNext ==
    \/ CalTick \/ ListDueReminders
    \/ \E A \in (SUBSET Repliers) \ {{}} : SetAttendeeResponses(A)
    \/ \E o \in Owners : \/ CalGet(o) \/ CalDelete(o) \/ SendReminder(o) \/ MarkReminderSent(o) \/ processICSCancel(o)
                         \/ \E t \in Times : CalUpdate(o, t)
    \/ \E m \in ReplyMails : processICSReply(m) \/ UpdateAttendeeResponse(m) \/ BroadcastAttendeeResponse(m)

CalSpec == CalInit /\ [][CalNext]_calVars

-----------------------------------------------------------------------------
\* Once the replies are handled, every copy shows the answers the organizer sees, for each
\* attendee whose replies were handled one after the other, without a failure, and whose answer
\* the organizer did not edit (pipeline_calendar.go has nothing that orders two replies, or
\* repeats a broadcast).  A row whose reminder counts as sent was reminded of for its present
\* start, however often it was rescheduled before the listing or after the mark; between the two
\* MarkReminderSent, which looks at the id alone, marks the new start with the old reminder.  A
\* meeting that was cancelled by mail stays cancelled but for an edit its owner had begun before,
\* whose UPDATE writes every column.
CalendarTruthful ==
    /\ (\A m \in ReplyMails : ~Under(m)) =>
         \A a \in Repliers \ mixed, g \in Guests :
           {Organizer, g} \subseteq Kept => events[g].resp[a] = events[Organizer].resp[a]
    /\ \A o \in Kept \ overrun : events[o].sent => <<o, events[o].start>> \in reminded
    /\ \A o \in (callOffs \cap Kept) \ revived : events[o].cancelled

=============================================================================
