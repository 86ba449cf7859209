------------------------------ MODULE Bookings ------------------------------
(***************************************************************************)
(* Online booking of one workspace (app/modules/bookings/service.py) and the *)
(* connected calendar its bookings are mirrored to                          *)
(* (app/modules/integrations/connectors/calendar.py).                        *)
(*                                                                         *)
(* A request is one transaction.  Booking and moving look at free times under  *)
(* the lock on booking_settings, with the calendar's answer read over HTTP,    *)
(* then call the calendar, then commit; the one who moves has read the booking *)
(* before the lock.  Cancelling takes no lock but the row's.  Times are        *)
(* numbers, every booking lasts Length; opening hours, lead time and horizon   *)
(* are the set Starts, and the owner's own appointments, which the connected    *)
(* calendar or the iCal address tells of, may refuse any time.              *)
(***************************************************************************)
EXTENDS Integers

CONSTANTS
    Bookings,      \* the bookings made, each by one request
    Requests,      \* transactions that overlap
    Starts,        \* start times: opening hours on the slot grid
    Length,        \* BookingType.duration_minutes
    Buffer,        \* BookingSettings.buffer_minutes
    MaxMoves,      \* bound on moves
    MaxFaults      \* bound on calendar calls that fail and transactions that are lost

ASSUME BookingsAssumption ==
    /\ Starts \subseteq Nat
    /\ Length \in Nat \ {0} /\ Buffer \in Nat
    /\ MaxMoves \in Nat /\ MaxFaults \in Nat

VARIABLES
    booking,       \* bookings: status, start, and whether it has a calendar_event_id
    event,         \* the connected calendar: the start of a booking's event, Gone without one
    connection,    \* integration_connections: "none", "connected" or "error"
    request,       \* requests: the transaction in work
    stale,         \* history: bookings written by a move that had read an older row
    unmirrored,    \* history: bookings changed without the calendar, as the owner was shown
    lost,          \* history: bookings whose transaction was lost after it called the calendar
    moves, faults  \* history: counts for the bounds

vars == <<booking, event, connection, request, stale, unmirrored, lost, moves, faults>>

Gone == -1
Times == Starts \cup {Gone}
Nothing == [status |-> "none", at |-> Gone, event |-> FALSE]
Rows == [status : {"none", "confirmed", "cancelled"}, at : Times, event : BOOLEAN]
Idle == [stage |-> "idle", of |-> "none", kind |-> "none", to |-> Gone, read |-> Nothing,
         client |-> FALSE, noted |-> FALSE]

TypeOK ==
    /\ booking \in [Bookings -> Rows]
    /\ \A b \in Bookings : booking[b] # Nothing => booking[b].at \in Starts
    /\ event \in [Bookings -> Times]
    /\ connection \in {"none", "connected", "error"}
    /\ \A r \in Requests :
        /\ request[r].stage \in {"idle", "waiting", "free", "refused", "called"}
        /\ request[r].stage # "idle" =>
            /\ request[r].of \in Bookings
            /\ request[r].kind \in {"book", "move", "cancel"}
            /\ request[r].to \in Times /\ request[r].read \in Rows
    /\ stale \cup unmirrored \cup lost \subseteq Bookings
    /\ moves \in 0..MaxMoves /\ faults \in 0..MaxFaults

Init ==
    /\ booking = [b \in Bookings |-> Nothing]
    /\ event = [b \in Bookings |-> Gone]
    /\ connection \in {"none", "connected"}
    /\ request = [r \in Requests |-> Idle]
    /\ stale = {} /\ unmirrored = {} /\ lost = {}
    /\ moves = 0 /\ faults = 0

Confirmed(b) == booking[b].status = "confirmed"
Works(r, b) == request[r].stage # "idle" /\ request[r].of = b

\* A move to the time that was read changes nothing.
Stays(r) == request[r].kind = "move" /\ request[r].to = request[r].read.at

\* The lock on booking_settings, held from the look at the free times to the commit, and that
\* on a booking's row, held from its first UPDATE.
HoldsSettings(r) == request[r].kind \in {"book", "move"} /\ request[r].stage \in {"free", "refused", "called"}
HoldsRow(r, b) ==
    request[r].of = b /\ request[r].stage \in {"free", "refused", "called"} /\ ~Stays(r)

(***************************************************************************)
(* Requests begin: the tool's adapter is made for a connected calendar only,   *)
(* and a booking to be moved or cancelled is read here.                       *)
(***************************************************************************)
Begin(r, b, kind, to, client) ==
    /\ request[r].stage = "idle"
    /\ request' = [request EXCEPT ![r] =
            [stage |-> "waiting", of |-> b, kind |-> kind, to |-> to, read |-> booking[b],
             client |-> client, noted |-> FALSE]]
    /\ UNCHANGED <<booking, event, connection, stale, unmirrored, lost, faults>>

\* By a tool (mirrored), or by staff, the chat's form or a sales call (not).
BeginBook(r, b, to) ==
    /\ booking[b] = Nothing /\ b \notin lost /\ \A q \in Requests : ~Works(q, b)
    /\ \E tool \in BOOLEAN : Begin(r, b, "book", to, tool /\ connection = "connected")
    /\ UNCHANGED moves

\* flyt_tid; a request for the time it has returns the booking as it is.
BeginMove(r, b, to) ==
    /\ Confirmed(b)
    /\ moves < MaxMoves /\ moves' = moves + 1
    /\ Begin(r, b, "move", to, connection = "connected")

\* service.cancel opens the event's calendar whatever the connection's status is.
BeginCancel(r, b) ==
    /\ Confirmed(b)
    /\ Begin(r, b, "cancel", Gone, booking[b].event)
    /\ UNCHANGED moves

(***************************************************************************)
(* slots and _busy                                                          *)
(***************************************************************************)
Overlaps(s, t, pad) == s < t + Length + pad /\ t < s + Length + pad

\* connected_busy, but for the owner's own appointments: the events of bookings are busy time
\* there; a calendar that does not answer has none.
Busy(r, answers) ==
    IF answers /\ (request[r].client \/ connection = "connected")
    THEN {event[b] : b \in Bookings} \ {Gone} ELSE {}

FreeAt(r, answers) ==
    LET to == request[r].to IN
    /\ \A b \in Bookings \ {request[r].of} : Confirmed(b) => ~Overlaps(to, booking[b].at, Buffer)
    /\ \A t \in Busy(r, answers) : ~Overlaps(to, t, 0)

\* Free, or slot_taken: also where only the owner's own time is in the way.  A calendar that
\* does not answer is noted on the connection.
Look(r) ==
    \E answers \in BOOLEAN, stage \in {"free", "refused"} :
        /\ stage = "free" => FreeAt(r, answers)
        /\ answers \/ (connection = "connected" /\ faults < MaxFaults)
        /\ faults' = IF answers THEN faults ELSE faults + 1
        /\ request' = [request EXCEPT ![r].stage = stage, ![r].noted = ~answers]

\* Variant: the settings are read without their lock.
Unlocked_Always == TRUE

Unlocked == \A q \in Requests : ~HoldsSettings(q)

LookForBooking(r) ==
    /\ request[r].stage = "waiting" /\ request[r].kind = "book"
    /\ Unlocked
    /\ Look(r)
    /\ UNCHANGED <<booking, event, connection, stale, unmirrored, lost, moves>>

\* move: the row is set to cancelled for the look, and back to what was read.
LookForMove(r) ==
    LET b == request[r].of IN
    /\ request[r].stage = "waiting" /\ request[r].kind = "move"
    /\ Unlocked
    /\ IF Stays(r)
       THEN request' = [request EXCEPT ![r].stage = "free"] /\ UNCHANGED faults
       ELSE Look(r) /\ \A q \in Requests : ~HoldsRow(q, b)
    /\ stale' = IF booking[b] # request[r].read THEN stale \cup {b} ELSE stale
    /\ UNCHANGED <<booking, event, connection, unmirrored, lost, moves>>

\* cancel: the row's UPDATE, which waits for a move of it.  The session flushes it with the query
\* for the calendar's connection (calendar_client), which comes before the event is deleted.
TakeRow(r) ==
    /\ request[r].stage = "waiting" /\ request[r].kind = "cancel"
    /\ \A q \in Requests : ~HoldsRow(q, request[r].of)
    /\ request' = [request EXCEPT ![r].stage = "free"]
    /\ UNCHANGED <<booking, event, connection, stale, unmirrored, lost, moves, faults>>

(***************************************************************************)
(* _mirror_create, _mirror_update, _mirror_cancel and _mirror_delete          *)
(***************************************************************************)
HasEvent(r) == request[r].read.event

\* The start the event is given; move has set the row's start, and a move to the time it has
\* sends the one that was read.
\* Variant: the old time.
EventAt_Old(r) == IF request[r].kind = "move" THEN request[r].read.at ELSE request[r].to

EventAt(r) == request[r].to

Answered(r, noted, known) ==
    LET work == request[r] IN
    request' = [request EXCEPT ![r] =
        [work EXCEPT !.stage = "called", !.noted = work.noted \/ noted, !.read = [work.read EXCEPT !.event = known]]]

\* The calendar does as it is told and says so; a PATCH of an event it has not is refused.
Mirror(r) ==
    LET b == request[r].of
        missing == request[r].kind = "move" /\ event[b] = Gone IN
    /\ request[r].stage = "free" /\ request[r].client
    /\ request[r].kind = "book" \/ HasEvent(r)
    /\ event' = IF missing THEN event ELSE [event EXCEPT ![b] = EventAt(r)]
    /\ Answered(r, missing, TRUE)
    /\ UNCHANGED <<booking, connection, stale, unmirrored, lost, moves, faults>>

\* It does not answer, and may have done it.
MirrorFails(r) ==
    LET b == request[r].of IN
    /\ request[r].stage = "free" /\ request[r].client
    /\ request[r].kind = "book" \/ HasEvent(r)
    /\ faults < MaxFaults /\ faults' = faults + 1
    /\ event' \in {event, [event EXCEPT ![b] = EventAt(r)]}
    /\ request[r].kind = "move" /\ event[b] = Gone => event' = event
    /\ Answered(r, TRUE, HasEvent(r))
    /\ UNCHANGED <<booking, connection, stale, unmirrored, lost, moves>>

\* No client, or nothing to mirror.
NotMirrored(r) ==
    /\ request[r].stage = "free"
    /\ ~request[r].client \/ (request[r].kind # "book" /\ ~HasEvent(r))
    /\ request' = [request EXCEPT ![r].stage = "called"]
    /\ UNCHANGED <<booking, event, connection, stale, unmirrored, lost, moves, faults>>

(***************************************************************************)
(* The caller's commit                                                      *)
(***************************************************************************)
\* Columns that differ from what was read are written; a cancelled row is not cancelled again.
Written(r) ==
    LET row == booking[request[r].of]
        read == request[r].read IN
    CASE request[r].kind = "book" ->
            [status |-> "confirmed", at |-> request[r].to, event |-> read.event]
      [] request[r].kind = "cancel" -> [row EXCEPT !.status = "cancelled"]
      [] Stays(r) -> row
      [] OTHER -> [row EXCEPT !.status = "confirmed", !.at = request[r].to]

Commit(r) ==
    LET b == request[r].of IN
    /\ request[r].stage = "called"
    /\ booking' = [booking EXCEPT ![b] = Written(r)]
    /\ connection' = IF request[r].noted THEN "error" ELSE connection
    /\ unmirrored' = IF request[r].noted \/ ~request[r].client THEN unmirrored \cup {b} ELSE unmirrored
    /\ request' = [request EXCEPT ![r] = Idle]
    /\ UNCHANGED <<event, stale, lost, moves, faults>>

\* slot_taken: a tool's run is committed all the same, and with it what a move has flushed, the
\* status the booking was read with.
CommitRefused(r) ==
    LET b == request[r].of IN
    /\ request[r].stage = "refused"
    /\ booking' = IF request[r].kind = "move" THEN [booking EXCEPT ![b].status = "confirmed"] ELSE booking
    /\ connection' = IF request[r].noted /\ request[r].client THEN "error" ELSE connection
    /\ request' = [request EXCEPT ![r] = Idle]
    /\ UNCHANGED <<event, stale, unmirrored, lost, moves, faults>>

\* The process or the connection dies before the commit; the calendar keeps what it was told.
Lose(r) ==
    /\ request[r].stage # "idle"
    /\ faults < MaxFaults /\ faults' = faults + 1
    /\ lost' = IF request[r].stage = "called" THEN lost \cup {request[r].of} ELSE lost
    /\ request' = [request EXCEPT ![r] = Idle]
    /\ UNCHANGED <<booking, event, connection, stale, unmirrored, moves>>

\* POST /integrations/{key}/test after an error
Reconnect ==
    /\ connection = "error"
    /\ connection' = "connected"
    /\ UNCHANGED <<booking, event, request, stale, unmirrored, lost, moves, faults>>

BeginStep(r) ==
    \E b \in Bookings :
        \/ \E to \in Starts : BeginBook(r, b, to) \/ BeginMove(r, b, to)
        \/ BeginCancel(r, b)

RequestStep(r) ==
    \/ LookForBooking(r) \/ LookForMove(r) \/ TakeRow(r)
    \/ Mirror(r) \/ MirrorFails(r) \/ NotMirrored(r)
    \/ Commit(r) \/ CommitRefused(r) \/ Lose(r)

Next == (\E r \in Requests : BeginStep(r) \/ RequestStep(r)) \/ Reconnect

Spec == Init /\ [][Next]_vars

(***************************************************************************)
(* Properties                                                               *)
(***************************************************************************)
Apart(b, c) == Confirmed(b) /\ Confirmed(c) => ~Overlaps(booking[b].at, booking[c].at, Buffer)

\* "serialises concurrent bookings for the workspace" (the lock in book): confirmed bookings are
\* apart by the buffer, whoever books, moves and cancels at the same time, but for a booking that
\* a move wrote on the strength of an old row.
NoDoubleBooking == \A b, c \in Bookings \ stale : b # c => Apart(b, c)

\* The same of every booking.
BookingsSerialised == \A b, c \in Bookings : b # c => Apart(b, c)

\* "the booking is mirrored as an event there": once nobody works on it, a mirrored booking's
\* event is at its time, and a cancelled one has none, unless the connection showed that the
\* calendar was left behind, a transaction was lost, or a move had read an old row.
MirrorIsFaithful ==
    \A b \in Bookings \ (stale \cup unmirrored \cup lost) :
        (\A r \in Requests : ~Works(r, b)) =>
            event[b] = IF Confirmed(b) THEN booking[b].at ELSE Gone

=============================================================================
