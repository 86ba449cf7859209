--------------------------- MODULE BookingsProofs ---------------------------
(***************************************************************************)
(* Theorems about Bookings for every set of bookings, requests and times,    *)
(* every duration and buffer, and any number of moves and faults.           *)
(***************************************************************************)
EXTENDS Bookings, TLAPS

-----------------------------------------------------------------------------
(* Type correctness.                                                        *)

Transactions == [stage : {"idle", "waiting", "free", "refused", "called"},
           of : Bookings \cup {"none"}, kind : {"none", "book", "move", "cancel"},
           to : Times, read : Rows, client : BOOLEAN, noted : BOOLEAN]

\* The transactions in work: a new booking and a move are to a start, and what is moved or
\* cancelled has been made.
TypeInv ==
    /\ TypeOK
    /\ request \in [Requests -> Transactions]
    /\ \A r \in Requests : request[r].stage # "idle" =>
        /\ request[r].kind \in {"book", "move"} => request[r].to \in Starts
        /\ request[r].kind \in {"move", "cancel"} => booking[request[r].of] # Nothing

\* No booking has been made in the initial state.
LEMMA InitTypeInv == Init => TypeInv
BY BookingsAssumption DEF Init, TypeInv, TypeOK, Transactions, Rows, Times, Idle, Nothing

\* What a transaction reads keeps the types.
LEMMA BeginTypeInv ==
    ASSUME TypeInv, NEW r \in Requests, BeginStep(r)
    PROVE  TypeInv'
<1>1. PICK b \in Bookings : (\E to \in Starts : BeginBook(r, b, to) \/ BeginMove(r, b, to)) \/ BeginCancel(r, b)
  BY DEF BeginStep
<1>2. booking[b] \in Rows /\ booking[b].event \in BOOLEAN
  BY DEF TypeInv, TypeOK, Rows
<1>3. ASSUME NEW to \in Starts, BeginBook(r, b, to) PROVE TypeInv'
  BY <1>2, <1>3 DEF BeginBook, Begin, TypeInv, TypeOK, Transactions, Times
<1>4. ASSUME NEW to \in Starts, BeginMove(r, b, to) PROVE TypeInv'
  <2>1. booking[b] # Nothing
    BY <1>4 DEF BeginMove, Confirmed, Nothing
  <2>2. moves' \in 0..MaxMoves
    BY <1>4, BookingsAssumption DEF BeginMove, TypeInv, TypeOK
  <2> QED BY <1>2, <1>4, <2>1, <2>2 DEF BeginMove, Begin, TypeInv, TypeOK, Transactions, Times
<1>5. CASE BeginCancel(r, b)
  <2>1. booking[b] # Nothing
    BY <1>5 DEF BeginCancel, Confirmed, Nothing
  <2> QED BY <1>2, <1>5, <2>1 DEF BeginCancel, Begin, TypeInv, TypeOK, Transactions, Times
<1> QED BY <1>1, <1>3, <1>4, <1>5

\* A request takes its locks, looks at the free times and calls the calendar.
LEMMA LookTypeInv ==
    ASSUME TypeInv, NEW r \in Requests,
           LookForBooking(r) \/ LookForMove(r) \/ TakeRow(r) \/ Mirror(r) \/ MirrorFails(r) \/ NotMirrored(r)
    PROVE  TypeInv'
<1>0. /\ request[r] \in Transactions
      /\ request[r].stage # "idle" => request[r].of \in Bookings
  BY DEF TypeInv, TypeOK
<1>1. ASSUME Look(r), request[r].stage = "waiting",
             UNCHANGED <<booking, event, connection, unmirrored, lost, moves>>, stale' \subseteq stale \cup {request[r].of}
      PROVE  TypeInv'
  <2>1. faults' \in 0..MaxFaults
    BY <1>1, BookingsAssumption DEF Look, TypeInv, TypeOK
  <2>2. PICK answers \in BOOLEAN, stage \in {"free", "refused"} :
            request' = [request EXCEPT ![r].stage = stage, ![r].noted = ~answers]
    BY <1>1 DEF Look
  <2>3. request' \in [Requests -> Transactions]
    BY <1>0, <2>2 DEF TypeInv, Transactions
  <2>4. \A q \in Requests : /\ request'[q].of = request[q].of /\ request'[q].kind = request[q].kind
                            /\ request'[q].to = request[q].to /\ request'[q].read = request[q].read
                            /\ request'[q].stage # "idle" => request[q].stage # "idle"
    BY <1>0, <1>1, <2>2 DEF TypeInv, Transactions
  <2> QED BY <1>0, <1>1, <2>1, <2>3, <2>4 DEF TypeInv, TypeOK, Transactions
<1>2. CASE LookForBooking(r)
  BY <1>1, <1>2 DEF LookForBooking
<1>3. ASSUME LookForMove(r), Stays(r) PROVE TypeInv'
  BY <1>0, <1>3 DEF LookForMove, TypeInv, TypeOK, Transactions
<1>4. ASSUME LookForMove(r), ~Stays(r) PROVE TypeInv'
  BY <1>1, <1>4 DEF LookForMove
<1>5. CASE TakeRow(r)
  BY <1>0, <1>5 DEF TakeRow, TypeInv, TypeOK, Transactions
<1>6. ASSUME NEW noted \in BOOLEAN, NEW known \in BOOLEAN, Answered(r, noted, known), request[r].stage = "free",
             UNCHANGED <<booking, connection, stale, unmirrored, lost, moves>>,
             event' \in {event, [event EXCEPT ![request[r].of] = request[r].to]}, faults' \in 0..MaxFaults
      PROVE  TypeInv'
  <2>1. request' \in [Requests -> Transactions]
    <3> DEFINE on == request[r].noted \/ noted
               read == [request[r].read EXCEPT !.event = known]
    <3>1. read \in Rows
      BY <1>0 DEF Transactions, Rows
    <3>2. on \in BOOLEAN
      OBVIOUS
    <3>3. request' = [request EXCEPT ![r] = [@ EXCEPT !.stage = "called", !.noted = on, !.read = read]]
      BY <1>6 DEF Answered
    <3> HIDE DEF on, read
    <3> QED BY <1>0, <3>1, <3>2, <3>3 DEF TypeInv, Transactions
  <2>2. \A q \in Requests : /\ request'[q].of = request[q].of /\ request'[q].kind = request[q].kind
                            /\ request'[q].to = request[q].to
                            /\ request'[q].stage # "idle" => request[q].stage # "idle"
    BY <1>0, <1>6 DEF Answered, TypeInv, Transactions
  <2>3. event' \in [Bookings -> Times]
    BY <1>0, <1>6 DEF TypeInv, TypeOK, Transactions
  <2> QED BY <1>6, <2>1, <2>2, <2>3 DEF TypeInv, TypeOK, Transactions
<1>7. CASE Mirror(r) \/ MirrorFails(r)
  <2>1. HasEvent(r) \in BOOLEAN /\ (event[request[r].of] = Gone) \in BOOLEAN
    BY <1>0 DEF HasEvent, Transactions, Rows
  <2>2. CASE Mirror(r)
    BY <1>6, <2>1, <2>2 DEF Mirror, EventAt, TypeInv, TypeOK
  <2>3. CASE MirrorFails(r)
    <3>1. faults' \in 0..MaxFaults
      BY <2>3, BookingsAssumption DEF MirrorFails, TypeInv, TypeOK
    <3> QED BY <1>6, <2>1, <2>3, <3>1 DEF MirrorFails, EventAt
  <2> QED BY <1>7, <2>2, <2>3
<1>8. CASE NotMirrored(r)
  BY <1>0, <1>8 DEF NotMirrored, TypeInv, TypeOK, Transactions
<1> QED BY <1>2, <1>3, <1>4, <1>5, <1>7, <1>8

\* A transaction ends: its commit keeps the types, and so does its loss.
LEMMA EndTypeInv ==
    ASSUME TypeInv, NEW r \in Requests, Commit(r) \/ CommitRefused(r) \/ Lose(r)
    PROVE  TypeInv'
<1> DEFINE b == request[r].of
<1>0. /\ request[r].stage # "idle" /\ request[r] \in Transactions
      /\ b \in Bookings /\ booking[b] \in Rows
  BY DEF Commit, CommitRefused, Lose, TypeInv, TypeOK
<1>1. /\ request' = [request EXCEPT ![r] = Idle]
      /\ Idle \in Transactions
  BY DEF Commit, CommitRefused, Lose, Idle, Transactions, Nothing, Rows, Times
<1>2. ASSUME booking' \in [Bookings -> Rows],
             \A c \in Bookings : booking'[c] # Nothing => booking'[c].at \in Starts,
             \A c \in Bookings : booking[c] # Nothing => booking'[c] # Nothing,
             event' = event, connection' \in {"none", "connected", "error"},
             stale' \cup unmirrored' \cup lost' \subseteq Bookings,
             moves' = moves, faults' \in 0..MaxFaults
      PROVE  TypeInv'
  BY <1>1, <1>2 DEF TypeInv, TypeOK, Idle
<1>3. CASE Commit(r)
  <2>1. ASSUME Written(r) \in Rows, Written(r).at \in Starts PROVE TypeInv'
    <3>1. Written(r) # Nothing
      BY <2>1, BookingsAssumption DEF Nothing, Gone
    <3> QED BY <1>0, <1>2, <1>3, <2>1, <3>1 DEF Commit, TypeInv, TypeOK
  <2>2. CASE request[r].kind = "book"
    <3>1. Written(r) = [status |-> "confirmed", at |-> request[r].to, event |-> request[r].read.event]
      BY <2>2 DEF Written, Stays
    <3>2. request[r].to \in Starts /\ request[r].read.event \in BOOLEAN
      BY <1>0, <2>2 DEF TypeInv, Transactions, Rows
    <3> QED BY <2>1, <3>1, <3>2 DEF Rows, Times
  <2>3. CASE request[r].kind = "cancel"
    BY <1>0, <2>1, <2>3 DEF Written, TypeInv, TypeOK, Rows
  <2>4. CASE request[r].kind = "move"
    BY <1>0, <2>1, <2>4 DEF Written, TypeInv, TypeOK, Transactions, Rows, Times
  <2> QED BY <1>0, <2>2, <2>3, <2>4 DEF TypeInv, TypeOK
<1>4. CASE CommitRefused(r)
  <2>1. CASE request[r].kind = "move"
    <3>1. booking[b].at \in Starts
      BY <1>0, <2>1 DEF TypeInv, TypeOK
    <3>2. [booking[b] EXCEPT !.status = "confirmed"] \in Rows
      BY <1>0 DEF Rows
    <3>3. booking' = [booking EXCEPT ![b] = [booking[b] EXCEPT !.status = "confirmed"]]
      BY <1>4, <2>1 DEF CommitRefused
    <3>4. [booking[b] EXCEPT !.status = "confirmed"] # Nothing
      BY <1>0 DEF Rows, Nothing
    <3>5. [booking[b] EXCEPT !.status = "confirmed"].at \in Starts
      BY <1>0, <3>1 DEF Rows
    <3>6. booking \in [Bookings -> Rows] /\ \A c \in Bookings : booking[c] # Nothing => booking[c].at \in Starts
      BY DEF TypeInv, TypeOK
    <3> DEFINE x == [booking[b] EXCEPT !.status = "confirmed"]
    <3> HIDE DEF x
    <3>7. booking' = [booking EXCEPT ![b] = x] /\ x \in Rows /\ x.at \in Starts /\ x # Nothing
      BY <3>2, <3>3, <3>4, <3>5 DEF x
    <3>8. booking' \in [Bookings -> Rows]
      BY <3>6, <3>7
    <3>9. \A c \in Bookings : booking'[c] # Nothing => booking'[c].at \in Starts
      BY <3>6, <3>7
    <3>10. \A c \in Bookings : booking[c] # Nothing => booking'[c] # Nothing
      BY <3>6, <3>7
    <3>11. /\ UNCHANGED <<event, stale, unmirrored, lost, moves, faults>>
           /\ connection' \in {"none", "connected", "error"} /\ faults \in 0..MaxFaults
           /\ stale \cup unmirrored \cup lost \subseteq Bookings
      BY <1>4 DEF CommitRefused, TypeInv, TypeOK
    <3> QED BY <1>2, <3>8, <3>9, <3>10, <3>11
  <2>2. CASE request[r].kind # "move"
    BY <1>2, <1>4, <2>2 DEF CommitRefused, TypeInv, TypeOK
  <2> QED BY <2>1, <2>2
<1>5. CASE Lose(r)
  <2>1. faults' \in 0..MaxFaults
    BY <1>5, BookingsAssumption DEF Lose, TypeInv, TypeOK
  <2> QED BY <1>0, <1>2, <1>5, <2>1 DEF Lose, TypeInv, TypeOK
<1> QED BY <1>3, <1>4, <1>5

\* TypeInv is inductive.
LEMMA NextTypeInv == TypeInv /\ [Next]_vars => TypeInv'
<1> SUFFICES ASSUME TypeInv, [Next]_vars PROVE TypeInv'
  OBVIOUS
<1>1. CASE Reconnect
  BY <1>1 DEF Reconnect, TypeInv, TypeOK
<1>2. CASE UNCHANGED vars
  BY <1>2 DEF vars, TypeInv, TypeOK
<1> QED BY <1>1, <1>2, BeginTypeInv, LookTypeInv, EndTypeInv DEF Next, RequestStep

\* Types, for every set of times, bookings and requests.
THEOREM BookingsTypeCorrect == Spec => []TypeOK
<1>1. TypeInv => TypeOK
  BY DEF TypeInv
<1> QED BY <1>1, InitTypeInv, NextTypeInv, PTL DEF Spec

-----------------------------------------------------------------------------
(* No double booking.                                                       *)

\* One request at a time holds the settings, and one a booking's row; a new booking's request
\* has it for itself.  What the holder found free stays free: nobody else confirms a booking.
\* A move that found what it had read still has the row as it was.
IsAlone(r) ==
    request[r].stage # "idle" /\ request[r].kind = "book" =>
        /\ booking[request[r].of] = Nothing
        /\ \A q \in Requests : Works(q, request[r].of) => q = r

LockInv ==
    /\ \A q, r \in Requests : HoldsSettings(q) /\ HoldsSettings(r) => q = r
    /\ \A b \in Bookings : \A q, r \in Requests : HoldsRow(q, b) /\ HoldsRow(r, b) => q = r
    /\ \A r \in Requests : IsAlone(r)
    /\ \A r \in Requests : request[r].stage # "idle" /\ request[r].kind = "move" =>
        request[r].read.status = "confirmed"
    /\ \A r \in Requests : request[r].stage = "refused" => HoldsSettings(r) /\ ~Stays(r)

FreeInv ==
    \A r \in Requests : HoldsSettings(r) /\ ~Stays(r) =>
        /\ request[r].stage # "refused" =>
            \A b \in Bookings \ {request[r].of} :
                Confirmed(b) => ~Overlaps(request[r].to, booking[b].at, Buffer)
        /\ request[r].kind = "move" /\ request[r].of \notin stale =>
            Confirmed(request[r].of) /\ booking[request[r].of].at = request[r].read.at

BookingInv == TypeInv /\ LockInv /\ FreeInv /\ NoDoubleBooking

\* Nobody has booked anything in the initial state.
LEMMA InitBookingInv == Init => BookingInv
BY InitTypeInv DEF Init, BookingInv, LockInv, IsAlone, FreeInv, NoDoubleBooking, Apart, Confirmed,
    HoldsSettings, HoldsRow, Idle, Nothing

\* A request that begins holds no lock yet.
LEMMA BeginBookingInv ==
    ASSUME BookingInv, NEW r \in Requests, BeginStep(r)
    PROVE  BookingInv'
<1>0. TypeInv' /\ request \in [Requests -> Transactions]
  BY BeginTypeInv DEF BookingInv, TypeInv
<1>1. PICK b \in Bookings : (\E to \in Starts : BeginBook(r, b, to) \/ BeginMove(r, b, to)) \/ BeginCancel(r, b)
  BY DEF BeginStep
<1>2. /\ request[r].stage = "idle" /\ request'[r].stage = "waiting"
      /\ request'[r].of = b /\ request'[r].read = booking[b]
      /\ \A q \in Requests : q # r => request'[q] = request[q]
      /\ UNCHANGED <<booking, stale>>
  BY <1>0, <1>1 DEF BeginBook, BeginMove, BeginCancel, Begin
<1>3. /\ request'[r].kind = "book" => booking[b] = Nothing /\ \A q \in Requests : ~Works(q, b)
      /\ request'[r].kind # "book" => Confirmed(b)
  BY <1>0, <1>1 DEF BeginBook, BeginMove, BeginCancel, Begin
<1>4. \A q \in Requests, c \in Bookings :
        /\ q # r => (HoldsSettings(q)' <=> HoldsSettings(q)) /\ (HoldsRow(q, c)' <=> HoldsRow(q, c))
                    /\ (Stays(q)' <=> Stays(q)) /\ (Works(q, c)' <=> Works(q, c))
        /\ ~HoldsSettings(r)' /\ ~HoldsRow(r, c)'
  BY <1>2 DEF HoldsSettings, HoldsRow, Stays, Works
<1>5. LockInv'
  <2>1. ASSUME NEW q \in Requests PROVE IsAlone(q)'
    <3>1. CASE q = r
      BY <1>2, <1>3, <1>4, <3>1 DEF IsAlone
    <3>2. CASE q # r /\ request[q].stage # "idle" /\ request[q].kind = "book"
      <4>1. /\ request'[q] = request[q] /\ booking[request[q].of] = Nothing /\ request[q].of \in Bookings
            /\ \A p \in Requests : Works(p, request[q].of) => p = q
        BY <1>2, <3>2 DEF BookingInv, LockInv, IsAlone, TypeInv, TypeOK
      <4>2. b # request[q].of
        BY <1>3, <3>2, <4>1 DEF Works, Confirmed, Nothing
      <4>3. ~Works(r, request[q].of)'
        BY <1>2, <4>1, <4>2 DEF Works
      <4> QED BY <1>2, <1>4, <4>1, <4>3 DEF Works, IsAlone
    <3>3. CASE q # r /\ ~(request[q].stage # "idle" /\ request[q].kind = "book")
      BY <1>2, <3>3 DEF IsAlone
    <3> QED BY <3>1, <3>2, <3>3
  <2>2. \A q \in Requests : request'[q].stage # "idle" /\ request'[q].kind = "move" =>
            request'[q].read.status = "confirmed"
    BY <1>2, <1>3 DEF BookingInv, LockInv, Confirmed
  <2>3. \A q \in Requests : request'[q].stage = "refused" => HoldsSettings(q)' /\ ~Stays(q)'
    BY <1>2, <1>4 DEF BookingInv, LockInv
  <2>4. \A q, p \in Requests : HoldsSettings(q)' /\ HoldsSettings(p)' => q = p
    BY <1>4 DEF BookingInv, LockInv
  <2>5. \A c \in Bookings : \A q, p \in Requests : HoldsRow(q, c)' /\ HoldsRow(p, c)' => q = p
    BY <1>4 DEF BookingInv, LockInv
  <2> QED BY <2>1, <2>2, <2>3, <2>4, <2>5 DEF LockInv
<1>6. FreeInv'
  BY <1>2, <1>4 DEF BookingInv, FreeInv, Confirmed
<1>7. NoDoubleBooking'
  BY <1>2 DEF BookingInv, NoDoubleBooking, Apart, Confirmed
<1> QED BY <1>0, <1>5, <1>6, <1>7 DEF BookingInv

\* A request that takes the lock on the settings is alone with it, and what it finds free is apart
\* from every confirmed booking.
LEMMA LookBookingInv ==
    ASSUME BookingInv, NEW r \in Requests, LookForBooking(r) \/ LookForMove(r)
    PROVE  BookingInv'
<1> DEFINE b == request[r].of
<1>0. TypeInv' /\ request \in [Requests -> Transactions] /\ b \in Bookings
  BY LookTypeInv DEF BookingInv, TypeInv, TypeOK, LookForBooking, LookForMove
<1>1. /\ request[r].stage = "waiting" /\ request[r].kind \in {"book", "move"}
      /\ request'[r].stage \in {"free", "refused"}
      /\ \A q \in Requests : /\ request'[q].of = request[q].of /\ request'[q].kind = request[q].kind
                             /\ request'[q].to = request[q].to /\ request'[q].read = request[q].read
      /\ \A q \in Requests : q # r => request'[q] = request[q]
      /\ UNCHANGED booking
  BY <1>0 DEF LookForBooking, LookForMove, Look, Transactions
<1>2. /\ \A q \in Requests : ~HoldsSettings(q)
      /\ stale \subseteq stale'
      /\ request[r].kind = "move" /\ b \notin stale' => booking[b] = request[r].read
  BY DEF LookForBooking, LookForMove, Unlocked
<1>3. request'[r].stage = "refused" => ~Stays(r)
  <2>1. ASSUME LookForMove(r), Stays(r) PROVE request'[r].stage = "free"
    BY <1>0, <2>1 DEF LookForMove, Transactions
  <2> QED BY <2>1 DEF LookForBooking, Stays
<1>4. request'[r].stage = "free" /\ ~Stays(r) =>
        \A c \in Bookings \ {b} : Confirmed(c) => ~Overlaps(request[r].to, booking[c].at, Buffer)
  <2>1. CASE Look(r)
    <3>1. PICK answers \in BOOLEAN, stage \in {"free", "refused"} :
            /\ stage = "free" => FreeAt(r, answers)
            /\ request' = [request EXCEPT ![r].stage = stage, ![r].noted = ~answers]
      BY <2>1 DEF Look
    <3>2. request'[r].stage = stage
      BY <1>0, <3>1 DEF Transactions
    <3> QED BY <3>1, <3>2 DEF FreeAt
  <2> QED BY <2>1 DEF LookForBooking, LookForMove
<1>5. ~Stays(r) => \A q \in Requests \ {r} : ~HoldsRow(q, b)
  <2>1. CASE LookForBooking(r)
    <3>1. IsAlone(r) /\ request[r].stage # "idle" /\ request[r].kind = "book"
      BY <1>1, <2>1 DEF LookForBooking, BookingInv, LockInv
    <3>2. \A q \in Requests : HoldsRow(q, b) => Works(q, b)
      BY DEF HoldsRow, Works
    <3> QED BY <3>1, <3>2 DEF IsAlone
  <2>2. CASE LookForMove(r)
    BY <2>2 DEF LookForMove
  <2> QED BY <2>1, <2>2
<1>6. /\ \A q \in Requests : (Stays(q)' <=> Stays(q)) /\ (HoldsSettings(q)' <=> q = r)
      /\ \A q \in Requests, c \in Bookings :
            /\ q # r => (HoldsRow(q, c)' <=> HoldsRow(q, c))
            /\ HoldsRow(r, c)' <=> c = b /\ ~Stays(r)
  BY <1>1, <1>2 DEF Stays, Works, HoldsSettings, HoldsRow
<1>7. LockInv'
  <2>1. \A q \in Requests : IsAlone(q)'
    <3> SUFFICES ASSUME NEW q \in Requests PROVE IsAlone(q)'
      OBVIOUS
    <3>1. IsAlone(q) /\ (request[q].stage # "idle" => request[q].of \in Bookings)
      BY DEF BookingInv, LockInv, TypeInv, TypeOK
    <3>2. /\ request'[q].stage # "idle" => request[q].stage # "idle"
          /\ request'[q].of = request[q].of /\ request'[q].kind = request[q].kind
      BY <1>1
    <3>3. \A p \in Requests : Works(p, request[q].of)' <=> Works(p, request[q].of)
      BY <1>1 DEF Works
    <3> QED BY <1>1, <3>1, <3>2, <3>3 DEF IsAlone, Works
  <2>2. \A c \in Bookings : \A q, p \in Requests : HoldsRow(q, c)' /\ HoldsRow(p, c)' => q = p
    BY <1>5, <1>6 DEF BookingInv, LockInv
  <2>3. \A q \in Requests : request'[q].stage # "idle" /\ request'[q].kind = "move" =>
            request'[q].read.status = "confirmed"
    BY <1>1 DEF BookingInv, LockInv
  <2>4. \A q \in Requests : request'[q].stage = "refused" => HoldsSettings(q)' /\ ~Stays(q)'
    BY <1>1, <1>2, <1>3, <1>6 DEF BookingInv, LockInv
  <2> QED BY <1>6, <2>1, <2>2, <2>3, <2>4 DEF LockInv
<1>8. FreeInv'
  <2>1. request[r].kind = "move" /\ b \notin stale' => Confirmed(b) /\ booking[b].at = request[r].read.at
    BY <1>1, <1>2 DEF BookingInv, LockInv, Confirmed
  <2> QED BY <1>1, <1>4, <1>6, <2>1 DEF FreeInv, Confirmed
<1>9. NoDoubleBooking'
  BY <1>1, <1>2 DEF BookingInv, NoDoubleBooking, Apart, Confirmed
<1> QED BY <1>0, <1>7, <1>8, <1>9 DEF BookingInv

\* A cancellation waits for the row; the calls to the calendar change no lock and no time.
LEMMA CallBookingInv ==
    ASSUME BookingInv, NEW r \in Requests, TakeRow(r) \/ Mirror(r) \/ MirrorFails(r) \/ NotMirrored(r)
    PROVE  BookingInv'
<1> DEFINE b == request[r].of
<1>0. TypeInv' /\ request \in [Requests -> Transactions] /\ b \in Bookings
  BY LookTypeInv DEF BookingInv, TypeInv, TypeOK, TakeRow, Mirror, MirrorFails, NotMirrored
<1>1. /\ request'[r].stage \in {"free", "called"}
      /\ \A q \in Requests : /\ request'[q].of = request[q].of /\ request'[q].kind = request[q].kind
                             /\ request'[q].to = request[q].to
                             /\ request'[q].read.at = request[q].read.at
                             /\ request'[q].read.status = request[q].read.status
      /\ \A q \in Requests : q # r => request'[q] = request[q]
      /\ UNCHANGED <<booking, stale>>
  <2>1. CASE TakeRow(r) \/ NotMirrored(r)
    BY <1>0, <2>1 DEF TakeRow, NotMirrored, Transactions
  <2>2. ASSUME NEW noted, NEW known, Answered(r, noted, known), UNCHANGED <<booking, stale>>
        PROVE  /\ request'[r].stage \in {"free", "called"}
               /\ \A q \in Requests : /\ request'[q].of = request[q].of /\ request'[q].kind = request[q].kind
                                      /\ request'[q].to = request[q].to
                                      /\ request'[q].read.at = request[q].read.at
                                      /\ request'[q].read.status = request[q].read.status
               /\ \A q \in Requests : q # r => request'[q] = request[q]
    BY <1>0, <2>2 DEF Answered, Transactions, Rows
  <2>3. CASE Mirror(r)
    BY <2>2, <2>3 DEF Mirror
  <2>4. CASE MirrorFails(r)
    BY <2>2, <2>4 DEF MirrorFails
  <2> QED BY <2>1, <2>3, <2>4
<1>2. \/ request[r].stage = "free"
      \/ /\ request[r].stage = "waiting" /\ request[r].kind = "cancel"
         /\ \A q \in Requests : ~HoldsRow(q, b)
  BY DEF TakeRow, Mirror, MirrorFails, NotMirrored
<1>3. /\ \A q \in Requests : (Stays(q)' <=> Stays(q)) /\ (HoldsSettings(q)' <=> HoldsSettings(q))
      /\ \A q \in Requests, c \in Bookings :
            /\ q # r \/ request[r].stage = "free" => (HoldsRow(q, c)' <=> HoldsRow(q, c))
            /\ HoldsRow(r, c)' => c = b
  BY <1>1, <1>2 DEF Stays, Works, HoldsSettings, HoldsRow
<1>4. LockInv'
  <2>1. \A q \in Requests : IsAlone(q)'
    <3> SUFFICES ASSUME NEW q \in Requests PROVE IsAlone(q)'
      OBVIOUS
    <3>1. IsAlone(q) /\ (request[q].stage # "idle" => request[q].of \in Bookings)
      BY DEF BookingInv, LockInv, TypeInv, TypeOK
    <3>2. /\ request'[q].stage # "idle" => request[q].stage # "idle"
          /\ request'[q].of = request[q].of /\ request'[q].kind = request[q].kind
      BY <1>1, <1>2
    <3>3. \A p \in Requests : Works(p, request[q].of)' <=> Works(p, request[q].of)
      BY <1>1, <1>2 DEF Works
    <3> QED BY <1>1, <3>1, <3>2, <3>3 DEF IsAlone, Works
  <2>2. \A c \in Bookings : \A q, p \in Requests : HoldsRow(q, c)' /\ HoldsRow(p, c)' => q = p
    BY <1>2, <1>3 DEF BookingInv, LockInv
  <2>3. \A q \in Requests : request'[q].stage # "idle" /\ request'[q].kind = "move" =>
            request'[q].read.status = "confirmed"
    BY <1>1, <1>2 DEF BookingInv, LockInv
  <2>4. \A q \in Requests : request'[q].stage = "refused" => HoldsSettings(q)' /\ ~Stays(q)'
    BY <1>1, <1>3 DEF BookingInv, LockInv
  <2> QED BY <1>3, <2>1, <2>2, <2>3, <2>4 DEF BookingInv, LockInv
<1>5. FreeInv'
  <2> SUFFICES ASSUME NEW q \in Requests, HoldsSettings(q)', ~Stays(q)'
               PROVE  /\ request'[q].stage # "refused" =>
                            \A c \in Bookings \ {request'[q].of} :
                                Confirmed(c)' => ~Overlaps(request'[q].to, booking'[c].at, Buffer)
                      /\ request'[q].kind = "move" /\ request'[q].of \notin stale' =>
                            /\ booking'[request'[q].of].status = "confirmed"
                            /\ booking'[request'[q].of].at = request'[q].read.at
    BY DEF FreeInv, Confirmed
  <2>1. HoldsSettings(q) /\ ~Stays(q) /\ (request'[q].stage # "refused" => request[q].stage # "refused")
    BY <1>1, <1>2, <1>3
  <2> QED BY <1>1, <2>1 DEF BookingInv, FreeInv, Confirmed
<1>6. NoDoubleBooking'
  BY <1>1 DEF BookingInv, NoDoubleBooking, Apart, Confirmed
<1> QED BY <1>0, <1>4, <1>5, <1>6 DEF BookingInv

\* What a commit writes: a new time that the holder of the settings found free, or no new
\* confirmed time at all.
LEMMA EndWrites ==
    ASSUME BookingInv, NEW r \in Requests, Commit(r) \/ CommitRefused(r) \/ Lose(r)
    PROVE  LET b == request[r].of IN
           \/ booking' = booking
           \/ /\ request[r].kind = "cancel" /\ request[r].stage = "called"
              /\ booking' = [booking EXCEPT ![b] = [booking[b] EXCEPT !.status = "cancelled"]]
           \/ /\ HoldsSettings(r) /\ ~Stays(r) /\ request[r].stage = "called"
              /\ \A c \in Bookings \ {b} : booking'[c] = booking[c]
              /\ booking'[b].at = request[r].to
           \/ /\ HoldsSettings(r)
              /\ \A c \in Bookings \ {b} : booking'[c] = booking[c]
              /\ b \notin stale => booking'[b] = booking[b]
<1> DEFINE b == request[r].of
<1>0. /\ request[r].stage # "idle" /\ request[r] \in Transactions
      /\ b \in Bookings /\ booking \in [Bookings -> Rows]
      /\ request[r].kind \in {"book", "move", "cancel"}
  BY DEF Commit, CommitRefused, Lose, BookingInv, TypeInv, TypeOK
<1>1. CASE Commit(r)
  <2>0. request[r].stage = "called" /\ booking' = [booking EXCEPT ![b] = Written(r)]
    BY <1>1 DEF Commit
  <2>1. CASE request[r].kind = "cancel"
    <3>1. Written(r) = [booking[b] EXCEPT !.status = "cancelled"]
      BY <2>1 DEF Written, Stays
    <3> QED BY <2>0, <2>1, <3>1
  <2>2. CASE Stays(r)
    <3>1. Written(r) = booking[b]
      BY <2>2 DEF Written, Stays
    <3> QED BY <1>0, <2>0, <3>1
  <2>3. CASE request[r].kind # "cancel" /\ ~Stays(r)
    <3>1. HoldsSettings(r)
      BY <1>0, <2>0, <2>3 DEF HoldsSettings
    <3>2. CASE request[r].kind = "book"
      <4>1. Written(r).at = request[r].to
        BY <3>2 DEF Written, Stays
      <4> QED BY <1>0, <2>0, <2>3, <3>1, <4>1
    <3>3. CASE request[r].kind = "move"
      <4>1. Written(r) = [booking[b] EXCEPT !.status = "confirmed", !.at = request[r].to]
        BY <2>3, <3>3 DEF Written
      <4>2. Written(r).at = request[r].to
        BY <1>0, <4>1 DEF Rows
      <4> QED BY <1>0, <2>0, <2>3, <3>1, <4>2
    <3> QED BY <1>0, <2>3, <3>2, <3>3
  <2> QED BY <2>1, <2>2, <2>3
<1>2. CASE CommitRefused(r)
  <2>1. HoldsSettings(r) /\ ~Stays(r)
    BY <1>2 DEF CommitRefused, BookingInv, LockInv
  <2>2. CASE request[r].kind = "move"
    <3>1. booking' = [booking EXCEPT ![b] = [booking[b] EXCEPT !.status = "confirmed"]]
      BY <1>2, <2>2 DEF CommitRefused
    <3>2. b \notin stale => booking[b].status = "confirmed"
      BY <2>1, <2>2 DEF BookingInv, FreeInv, Confirmed
    <3>3. b \notin stale => [booking[b] EXCEPT !.status = "confirmed"] = booking[b]
      BY <1>0, <3>2 DEF Rows
    <3> QED BY <1>0, <2>1, <3>1, <3>3
  <2>3. CASE request[r].kind # "move"
    BY <1>2, <2>3 DEF CommitRefused
  <2> QED BY <2>2, <2>3
<1>3. CASE Lose(r)
  BY <1>3 DEF Lose
<1> QED BY <1>1, <1>2, <1>3

\* Two times overlap whichever is named first.
LEMMA OverlapsSymmetric == ASSUME NEW s, NEW t, NEW pad, Overlaps(s, t, pad) PROVE Overlaps(t, s, pad)
BY DEF Overlaps

\* The end of a transaction keeps the confirmed bookings apart.
LEMMA EndBookingInv ==
    ASSUME BookingInv, NEW r \in Requests, Commit(r) \/ CommitRefused(r) \/ Lose(r)
    PROVE  BookingInv'
<1> DEFINE b == request[r].of
<1>0. /\ TypeInv' /\ b \in Bookings /\ request[r].stage # "idle" /\ Works(r, b)
      /\ request \in [Requests -> Transactions] /\ booking \in [Bookings -> Rows]
  BY EndTypeInv DEF BookingInv, TypeInv, TypeOK, Commit, CommitRefused, Lose, Works
<1>1. /\ request'[r] = Idle /\ stale' = stale
      /\ \A q \in Requests : q # r => request'[q] = request[q]
      /\ \A c \in Bookings \ {b} : booking'[c] = booking[c]
  BY <1>0 DEF Commit, CommitRefused, Lose
<1>2. /\ \A q \in Requests : q # r => (Stays(q)' <=> Stays(q)) /\ (HoldsSettings(q)' <=> HoldsSettings(q))
      /\ ~HoldsSettings(r)'
      /\ \A q \in Requests, c \in Bookings :
            /\ q # r => (HoldsRow(q, c)' <=> HoldsRow(q, c)) /\ (Works(q, c)' <=> Works(q, c))
            /\ ~HoldsRow(r, c)' /\ ~Works(r, c)'
  BY <1>1 DEF Stays, HoldsSettings, HoldsRow, Works, Idle
<1>3. \/ booking' = booking
      \/ /\ request[r].kind = "cancel" /\ request[r].stage = "called"
         /\ booking' = [booking EXCEPT ![b] = [booking[b] EXCEPT !.status = "cancelled"]]
      \/ /\ HoldsSettings(r) /\ ~Stays(r) /\ request[r].stage = "called"
         /\ \A c \in Bookings \ {b} : booking'[c] = booking[c]
         /\ booking'[b].at = request[r].to
      \/ /\ HoldsSettings(r)
         /\ \A c \in Bookings \ {b} : booking'[c] = booking[c]
         /\ b \notin stale => booking'[b] = booking[b]
  BY EndWrites
<1>4. LockInv'
  <2>1. ASSUME NEW q \in Requests PROVE IsAlone(q)'
    <3>1. CASE q = r
      BY <1>1, <3>1 DEF IsAlone, Idle
    <3>2. CASE q # r /\ request[q].stage # "idle" /\ request[q].kind = "book"
      <4>1. /\ request'[q] = request[q] /\ booking[request[q].of] = Nothing /\ request[q].of \in Bookings
            /\ \A p \in Requests : Works(p, request[q].of) => p = q
        BY <1>1, <3>2 DEF BookingInv, LockInv, IsAlone, TypeInv, TypeOK
      <4>2. request[q].of # b
        BY <1>0, <3>2, <4>1
      <4> QED BY <1>1, <1>2, <4>1, <4>2 DEF IsAlone
    <3>3. CASE q # r /\ ~(request[q].stage # "idle" /\ request[q].kind = "book")
      BY <1>1, <3>3 DEF IsAlone
    <3> QED BY <3>1, <3>2, <3>3
  <2>2. /\ \A q, p \in Requests : HoldsSettings(q)' /\ HoldsSettings(p)' => q = p
        /\ \A c \in Bookings : \A q, p \in Requests : HoldsRow(q, c)' /\ HoldsRow(p, c)' => q = p
    BY <1>2 DEF BookingInv, LockInv
  <2>3. \A q \in Requests : request'[q].stage # "idle" /\ request'[q].kind = "move" =>
            request'[q].read.status = "confirmed"
    BY <1>1 DEF BookingInv, LockInv, Idle
  <2>4. \A q \in Requests : request'[q].stage = "refused" => HoldsSettings(q)' /\ ~Stays(q)'
    BY <1>1, <1>2 DEF BookingInv, LockInv, Idle
  <2> QED BY <2>1, <2>2, <2>3, <2>4 DEF LockInv
<1>5. FreeInv'
  <2> SUFFICES ASSUME NEW q \in Requests, HoldsSettings(q)', ~Stays(q)'
               PROVE  /\ request'[q].stage # "refused" =>
                            \A c \in Bookings \ {request'[q].of} :
                                Confirmed(c)' => ~Overlaps(request'[q].to, booking'[c].at, Buffer)
                      /\ request'[q].kind = "move" /\ request'[q].of \notin stale' =>
                            /\ booking'[request'[q].of].status = "confirmed"
                            /\ booking'[request'[q].of].at = request'[q].read.at
    BY DEF FreeInv, Confirmed
  <2>1. q # r /\ request'[q] = request[q] /\ HoldsSettings(q) /\ ~Stays(q) /\ ~HoldsSettings(r)
    BY <1>1, <1>2 DEF BookingInv, LockInv
  <2>2. CASE booking' = booking
    BY <1>1, <2>1, <2>2 DEF BookingInv, FreeInv, Confirmed
  <2>3. CASE /\ request[r].kind = "cancel" /\ request[r].stage = "called"
             /\ booking' = [booking EXCEPT ![b] = [booking[b] EXCEPT !.status = "cancelled"]]
    <3>1. HoldsRow(r, b) /\ HoldsRow(q, request[q].of)
      BY <2>1, <2>3 DEF HoldsRow, HoldsSettings, Stays
    <3>2. request[q].of # b /\ request[q].of \in Bookings
      BY <1>0, <2>1, <3>1 DEF BookingInv, LockInv, HoldsSettings, TypeInv, TypeOK
    <3>3. booking'[b].status # "confirmed"
      BY <1>0, <2>3 DEF Rows
    <3> QED BY <1>1, <2>1, <3>2, <3>3 DEF BookingInv, FreeInv, Confirmed
  <2> QED BY <1>3, <2>1, <2>2, <2>3
<1>6. NoDoubleBooking'
  <2> SUFFICES ASSUME NEW c \in Bookings \ stale, NEW d \in Bookings \ stale, c # d,
                      booking'[c].status = "confirmed", booking'[d].status = "confirmed"
               PROVE  ~Overlaps(booking'[c].at, booking'[d].at, Buffer)
    BY <1>1 DEF NoDoubleBooking, Apart, Confirmed
  <2>1. CASE booking'[c] = booking[c] /\ booking'[d] = booking[d]
    BY <2>1 DEF BookingInv, NoDoubleBooking, Apart, Confirmed
  <2>2. CASE ~(booking'[c] = booking[c] /\ booking'[d] = booking[d])
    <3>1. c = b \/ d = b
      BY <1>1, <2>2
    <3>2. /\ HoldsSettings(r) /\ ~Stays(r) /\ request[r].stage = "called"
          /\ booking'[b].at = request[r].to
      BY <1>0, <1>3, <2>2, <3>1 DEF Rows
    <3>3. ASSUME NEW e \in Bookings \ {b}, booking[e].status = "confirmed"
          PROVE  ~Overlaps(request[r].to, booking[e].at, Buffer)
      BY <3>2, <3>3 DEF BookingInv, FreeInv, Confirmed
    <3>4. CASE c = b
      BY <1>1, <3>2, <3>3, <3>4
    <3>5. CASE d = b
      BY <1>1, <3>2, <3>3, <3>5, OverlapsSymmetric
    <3> QED BY <3>1, <3>4, <3>5
  <2> QED BY <2>1, <2>2
<1> QED BY <1>0, <1>4, <1>5, <1>6 DEF BookingInv

\* BookingInv is inductive.
LEMMA NextBookingInv == BookingInv /\ [Next]_vars => BookingInv'
<1> SUFFICES ASSUME BookingInv, [Next]_vars PROVE BookingInv'
  OBVIOUS
<1>1. CASE Reconnect \/ UNCHANGED vars
  <2>1. TypeInv' /\ UNCHANGED <<booking, request, stale>>
    BY <1>1, NextTypeInv DEF BookingInv, Reconnect, vars
  <2>2. LockInv'
    BY <2>1 DEF BookingInv, LockInv, IsAlone, Works, HoldsSettings, HoldsRow, Stays
  <2>3. FreeInv' /\ NoDoubleBooking'
    BY <2>1 DEF BookingInv, FreeInv, NoDoubleBooking, Apart, Confirmed, HoldsSettings, Stays
  <2> QED BY <2>1, <2>2, <2>3 DEF BookingInv
<1> QED BY <1>1, BeginBookingInv, LookBookingInv, CallBookingInv, EndBookingInv DEF Next, RequestStep

\* Confirmed bookings are apart by the buffer, but for those a move wrote from an old row, however
\* many requests book, move and cancel at once and whatever the calendar answers.
THEOREM BookingsApart == Spec => []NoDoubleBooking
<1>1. BookingInv => NoDoubleBooking
  BY DEF BookingInv
<1> QED BY <1>1, InitBookingInv, NextBookingInv, PTL DEF Spec

-----------------------------------------------------------------------------
(* The calendar.                                                            *)

\* The bookings the property speaks of; a request that has told the calendar what it will commit;
\* and one that may have changed the event and has not yet written the row.
Faithful == Bookings \ (stale \cup unmirrored \cup lost)
Told(r) == request[r].stage = "called" /\ request[r].client /\ ~request[r].noted
ChangesEvent(r, b) == Works(r, b) /\ request[r].stage = "called" /\ ~Stays(r)

\* What a request has read and the row still say the same of the event, and the holder of the
\* settings has the time right.
ReadInv ==
    /\ \A b \in Bookings : booking[b].status = "none" => booking[b] = Nothing
    /\ \A r \in Requests : request[r].stage # "idle" =>
        /\ request[r].kind # "book" => request[r].read.event = booking[request[r].of].event
        /\ request[r].kind = "cancel" =>
            request[r].client = booking[request[r].of].event /\ request[r].to = Gone
        /\ HoldsSettings(r) /\ request[r].kind = "move" /\ request[r].of \notin stale =>
            booking[request[r].of].at = request[r].read.at

EventInv ==
    \A b \in Faithful :
        /\ booking[b].status = "none" => event[b] = Gone \/ \E r \in Requests : ChangesEvent(r, b)
        /\ booking[b].status = "cancelled" => event[b] = Gone
        /\ Confirmed(b) => /\ booking[b].event
                           /\ event[b] = booking[b].at \/ \E r \in Requests : ChangesEvent(r, b)

ToldInv ==
    \A r \in Requests : Told(r) /\ request[r].of \in Faithful /\ ~Stays(r) =>
        /\ event[request[r].of] = request[r].to
        /\ request[r].kind = "book" => request[r].read.event

MirrorInv == BookingInv /\ ReadInv /\ EventInv /\ ToldInv

\* The calendar is empty in the initial state.
LEMMA InitMirrorInv == Init => MirrorInv
<1> SUFFICES ASSUME Init PROVE MirrorInv
  OBVIOUS
<1>1. \A b \in Bookings : booking[b] = Nothing /\ event[b] = Gone /\ booking[b].status = "none"
  BY DEF Init, Nothing
<1>2. \A r \in Requests : request[r].stage = "idle"
  BY DEF Init, Idle
<1>3. ReadInv
  BY <1>1, <1>2 DEF ReadInv
<1>4. EventInv /\ ToldInv
  BY <1>1, <1>2 DEF EventInv, ToldInv, Told, Confirmed, Faithful
<1> QED BY <1>3, <1>4, InitBookingInv DEF MirrorInv

\* A request that begins has told nobody anything.
LEMMA BeginMirrorInv ==
    ASSUME MirrorInv, NEW r \in Requests, BeginStep(r)
    PROVE  MirrorInv'
<1>0. BookingInv' /\ request \in [Requests -> Transactions]
  BY BeginBookingInv DEF MirrorInv, BookingInv, TypeInv
<1>1. PICK b \in Bookings : (\E to \in Starts : BeginBook(r, b, to) \/ BeginMove(r, b, to)) \/ BeginCancel(r, b)
  BY DEF BeginStep
<1>2. /\ request[r].stage = "idle" /\ request'[r].stage = "waiting"
      /\ request'[r].of = b /\ request'[r].read = booking[b]
      /\ request'[r].kind = "cancel" => request'[r].client = booking[b].event /\ request'[r].to = Gone
      /\ \A q \in Requests : q # r => request'[q] = request[q]
      /\ UNCHANGED <<booking, event, stale, unmirrored, lost>>
  BY <1>0, <1>1 DEF BeginBook, BeginMove, BeginCancel, Begin
<1>3. /\ \A q \in Requests : q # r => (Stays(q)' <=> Stays(q)) /\ (HoldsSettings(q)' <=> HoldsSettings(q))
      /\ ~HoldsSettings(r)'
      /\ \A q \in Requests, c \in Bookings : ChangesEvent(q, c)' <=> ChangesEvent(q, c)
      /\ Faithful' = Faithful /\ Faithful \subseteq Bookings
  BY <1>2 DEF ChangesEvent, Works, Stays, HoldsSettings, Faithful
<1>4. ReadInv'
  BY <1>2, <1>3 DEF MirrorInv, ReadInv
<1>5. EventInv'
  BY <1>2, <1>3 DEF MirrorInv, EventInv, Confirmed
<1>6. ToldInv'
  BY <1>2, <1>3 DEF MirrorInv, ToldInv, Told
<1> QED BY <1>0, <1>4, <1>5, <1>6 DEF MirrorInv

\* A look at the free times, and a transaction that does not call the calendar.
LEMMA LookMirrorInv ==
    ASSUME MirrorInv, NEW r \in Requests, LookForBooking(r) \/ LookForMove(r) \/ TakeRow(r) \/ NotMirrored(r)
    PROVE  MirrorInv'
<1> DEFINE b == request[r].of
<1>0. /\ BookingInv' /\ request \in [Requests -> Transactions] /\ b \in Bookings
      /\ request[r].stage \in {"waiting", "free"} /\ request[r].kind \in {"book", "move", "cancel"}
  BY LookBookingInv, CallBookingInv DEF MirrorInv, BookingInv, TypeInv, TypeOK, LookForBooking, LookForMove,
     TakeRow, NotMirrored
<1>1. /\ request'[r].stage \in {"free", "refused", "called"}
      /\ request'[r].stage = "called" => NotMirrored(r)
      /\ \A q \in Requests : /\ request'[q].of = request[q].of /\ request'[q].kind = request[q].kind
                             /\ request'[q].to = request[q].to /\ request'[q].read = request[q].read
                             /\ request'[q].client = request[q].client
      /\ \A q \in Requests : q # r => request'[q] = request[q]
      /\ UNCHANGED <<booking, event, unmirrored, lost>> /\ stale \subseteq stale'
  BY <1>0 DEF LookForBooking, LookForMove, TakeRow, NotMirrored, Look, Transactions
<1>2. /\ Faithful' \subseteq Faithful /\ Faithful \subseteq Bookings
      /\ \A q \in Requests : Stays(q)' <=> Stays(q)
      /\ \A q \in Requests : q # r => (HoldsSettings(q)' <=> HoldsSettings(q)) /\ (Told(q)' <=> Told(q))
      /\ \A q \in Requests, c \in Bookings : ChangesEvent(q, c) => ChangesEvent(q, c)'
  BY <1>0, <1>1 DEF ChangesEvent, Works, Stays, HoldsSettings, Faithful, Told
<1>3. request[r].kind = "move" /\ HoldsSettings(r)' /\ b \notin stale' => booking[b].at = request[r].read.at
  <2>1. CASE LookForMove(r)
    BY <2>1 DEF LookForMove
  <2>2. CASE NotMirrored(r)
    BY <1>1, <2>2 DEF NotMirrored, HoldsSettings, MirrorInv, ReadInv
  <2>3. CASE LookForBooking(r) \/ TakeRow(r)
    BY <2>3 DEF LookForBooking, TakeRow
  <2> QED BY <2>1, <2>2, <2>3
<1>4. ReadInv'
  <2>1. \A c \in Bookings : booking'[c].status = "none" => booking'[c] = Nothing
    BY <1>1 DEF MirrorInv, ReadInv
  <2>2. ASSUME NEW q \in Requests, request'[q].stage # "idle"
        PROVE  /\ request'[q].kind # "book" => request'[q].read.event = booking'[request'[q].of].event
               /\ request'[q].kind = "cancel" =>
                    request'[q].client = booking'[request'[q].of].event /\ request'[q].to = Gone
               /\ HoldsSettings(q)' /\ request'[q].kind = "move" /\ request'[q].of \notin stale' =>
                    booking'[request'[q].of].at = request'[q].read.at
    <3>1. request[q].stage # "idle"
      BY <1>0, <1>1, <2>2
    <3>2. CASE q = r
      BY <1>1, <1>3, <3>1, <3>2 DEF MirrorInv, ReadInv
    <3>3. CASE q # r
      BY <1>1, <1>2, <3>1, <3>3 DEF MirrorInv, ReadInv
    <3> QED BY <3>2, <3>3
  <2> QED BY <2>1, <2>2 DEF ReadInv
<1>5. EventInv'
  BY <1>1, <1>2 DEF MirrorInv, EventInv, Confirmed
<1>6. ASSUME Told(r)', b \in Faithful', ~Stays(r) PROVE FALSE
  <2>1. NotMirrored(r) /\ request[r].stage = "free" /\ request[r].client
    BY <1>1, <1>6 DEF Told, NotMirrored
  <2>2. request[r].kind # "book" /\ ~request[r].read.event
    BY <2>1 DEF NotMirrored, HasEvent
  <2>3. ~booking[b].event
    BY <2>1, <2>2 DEF MirrorInv, ReadInv
  <2>4. request[r].kind = "move"
    BY <1>0, <2>1, <2>2, <2>3 DEF MirrorInv, ReadInv
  <2>5. Confirmed(b)
    BY <1>2, <1>6, <2>1, <2>4 DEF MirrorInv, BookingInv, FreeInv, HoldsSettings, Faithful
  <2> QED BY <1>2, <1>6, <2>3, <2>5 DEF MirrorInv, EventInv
<1>7. ToldInv'
  BY <1>1, <1>2, <1>6 DEF MirrorInv, ToldInv
<1> QED BY <1>0, <1>4, <1>5, <1>7 DEF MirrorInv

\* A call to the calendar: the one who holds the row is the only one to change the event, but for
\* a move to the time it has, which changes nothing and finds nothing to change once the event is gone.
LEMMA CallMirrorInv ==
    ASSUME MirrorInv, NEW r \in Requests, Mirror(r) \/ MirrorFails(r)
    PROVE  MirrorInv'
<1> DEFINE b == request[r].of
           to == request[r].to
<1>0. /\ BookingInv' /\ BookingInv /\ request \in [Requests -> Transactions] /\ b \in Bookings
      /\ request[r].stage = "free" /\ request[r].client /\ request[r].kind \in {"book", "move", "cancel"}
      /\ event \in [Bookings -> Times]
  BY CallBookingInv DEF MirrorInv, BookingInv, TypeInv, TypeOK, Mirror, MirrorFails
<1>1. /\ event'[b] \in {event[b], to} /\ \A c \in Bookings \ {b} : event'[c] = event[c]
      /\ request[r].kind = "move" /\ event[b] = Gone => event'[b] = Gone
      /\ UNCHANGED <<booking, stale, unmirrored, lost>>
  BY <1>0 DEF Mirror, MirrorFails, EventAt
<1>2. /\ request'[r].stage = "called"
      /\ \A q \in Requests : /\ request'[q].of = request[q].of /\ request'[q].kind = request[q].kind
                             /\ request'[q].to = request[q].to /\ request'[q].client = request[q].client
                             /\ request'[q].read.at = request[q].read.at
                             /\ request'[q].kind # "book" => request'[q].read.event = request[q].read.event
      /\ \A q \in Requests : q # r => request'[q] = request[q]
      /\ ~request'[r].noted => event'[b] = to /\ request'[r].read.event
  <2>1. request[r].read \in Rows /\ request[r].noted \in BOOLEAN
    BY <1>0 DEF Transactions
  <2>2. CASE Mirror(r)
    <3>1. Answered(r, request[r].kind = "move" /\ event[b] = Gone, TRUE)
      BY <2>2 DEF Mirror
    <3>2. request[r].kind # "book" => request[r].read.event = TRUE
      BY <2>1, <2>2 DEF Mirror, HasEvent, Rows
    <3>3. ~(request[r].kind = "move" /\ event[b] = Gone) => event'[b] = to
      BY <1>0, <2>2 DEF Mirror, EventAt
    <3> QED BY <1>0, <2>1, <3>1, <3>2, <3>3 DEF Answered, Transactions, Rows
  <2>3. CASE MirrorFails(r)
    <3>1. Answered(r, TRUE, request[r].read.event)
      BY <2>3 DEF MirrorFails, HasEvent
    <3> QED BY <1>0, <2>1, <3>1 DEF Answered, Transactions, Rows
  <2> QED BY <2>2, <2>3
<1>3. /\ Faithful' = Faithful
      /\ \A q \in Requests : (Stays(q)' <=> Stays(q)) /\ (HoldsSettings(q)' <=> HoldsSettings(q))
      /\ \A q \in Requests : q # r => (Told(q)' <=> Told(q))
      /\ \A q \in Requests, c \in Bookings : ChangesEvent(q, c) => ChangesEvent(q, c)'
  BY <1>0, <1>1, <1>2 DEF ChangesEvent, Works, Stays, HoldsSettings, Faithful, Told
<1>4. ReadInv'
  BY <1>0, <1>1, <1>2, <1>3 DEF MirrorInv, ReadInv
<1>5. ASSUME Stays(r), b \in Faithful
      PROVE  /\ to = booking[b].at /\ booking[b].status # "none" /\ request[r].kind = "move"
             /\ event[b] = Gone => event'[b] = Gone
  <2>1. request[r].kind = "move" /\ to = request[r].read.at /\ HoldsSettings(r) /\ b \notin stale
    BY <1>0, <1>5 DEF Stays, HoldsSettings, Faithful
  <2>2. booking[b] # Nothing
    BY <1>0, <2>1 DEF BookingInv, TypeInv
  <2> QED BY <1>0, <1>1, <2>1, <2>2 DEF MirrorInv, ReadInv
<1>6. EventInv'
  <2> SUFFICES ASSUME NEW c \in Faithful
               PROVE  (/\ booking[c].status = "none" => event[c] = Gone \/ \E q \in Requests : ChangesEvent(q, c)
                       /\ booking[c].status = "cancelled" => event[c] = Gone
                       /\ Confirmed(c) => /\ booking[c].event
                                          /\ event[c] = booking[c].at \/ \E q \in Requests : ChangesEvent(q, c))'
    BY <1>3 DEF EventInv
  <2>0. c \in Bookings
    BY DEF Faithful
  <2>1. CASE c # b
    BY <1>1, <1>3, <2>0, <2>1 DEF MirrorInv, EventInv, Confirmed
  <2>2. CASE c = b /\ Stays(r)
    BY <1>1, <1>3, <1>5, <2>0, <2>2 DEF MirrorInv, EventInv, Confirmed
  <2>3. CASE c = b /\ ~Stays(r)
    <3>2. booking[b].status = "cancelled" => request[r].kind = "cancel"
      BY <1>0, <2>3 DEF BookingInv, LockInv, FreeInv, IsAlone, HoldsSettings, Faithful, Confirmed, Nothing
    <3>3. request[r].kind = "cancel" => to = Gone
      BY <1>0 DEF MirrorInv, ReadInv
    <3>4. \E q \in Requests : ChangesEvent(q, c)'
      BY <1>2, <1>3, <2>3 DEF ChangesEvent, Works
    <3>5. booking[b].status = "cancelled" => event'[b] = Gone
      BY <1>1, <2>3, <3>2, <3>3 DEF MirrorInv, EventInv
    <3>6. booking[b].status = "confirmed" => booking[b].event
      BY <2>3 DEF MirrorInv, EventInv, Confirmed
    <3> QED BY <1>1, <2>3, <3>4, <3>5, <3>6 DEF Confirmed
  <2> QED BY <2>1, <2>2, <2>3
<1>7. ToldInv'
  <2> SUFFICES ASSUME NEW q \in Requests, Told(q)', request[q].of \in Faithful, ~Stays(q)
               PROVE  /\ event'[request[q].of] = request[q].to
                      /\ request[q].kind = "book" => request'[q].read.event
    BY <1>2, <1>3 DEF ToldInv
  <2>1. CASE q = r
    BY <1>2, <2>1 DEF Told
  <2>2. CASE q # r
    <3>1. Told(q) /\ request'[q] = request[q] /\ request[q].of \in Bookings
      BY <1>2, <1>3, <2>2 DEF Faithful
    <3>2. event[request[q].of] = request[q].to /\ (request[q].kind = "book" => request[q].read.event)
      BY <3>1 DEF MirrorInv, ToldInv
    <3>3. CASE request[q].of # b
      BY <1>1, <3>1, <3>2, <3>3
    <3>4. CASE request[q].of = b
      <4>1. HoldsRow(q, b)
        BY <3>1, <3>4 DEF HoldsRow, Told
      <4>2. Stays(r)
        BY <1>0, <2>2, <4>1 DEF BookingInv, LockInv, HoldsRow
      <4>3. HoldsSettings(r) /\ ~HoldsSettings(q)
        BY <1>0, <2>2, <4>2 DEF BookingInv, LockInv, HoldsSettings, Stays
      <4>4. request[q].kind = "cancel"
        BY <1>0, <3>1, <4>3 DEF HoldsSettings, Told, BookingInv, TypeInv, TypeOK
      <4>5. request[q].to = Gone
        BY <3>1, <4>4 DEF MirrorInv, ReadInv, Told
      <4> QED BY <1>5, <3>1, <3>2, <3>4, <4>2, <4>4, <4>5
    <3> QED BY <3>3, <3>4
  <2> QED BY <2>1, <2>2
<1> QED BY <1>0, <1>4, <1>6, <1>7 DEF MirrorInv

\* What was told to the calendar is what is committed, or the booking is left out.
LEMMA CommitMirrorInv ==
    ASSUME MirrorInv, NEW r \in Requests, Commit(r)
    PROVE  MirrorInv'
<1> DEFINE b == request[r].of
           row == booking[b]
<1>0. /\ BookingInv' /\ BookingInv /\ request \in [Requests -> Transactions] /\ b \in Bookings
      /\ request[r].stage = "called" /\ request[r].kind \in {"book", "move", "cancel"}
      /\ booking \in [Bookings -> Rows] /\ row \in Rows /\ booking' = [booking EXCEPT ![b] = Written(r)]
  BY EndBookingInv DEF MirrorInv, BookingInv, TypeInv, TypeOK, Commit
<1>1. /\ request'[r] = Idle /\ stale' = stale /\ lost' = lost /\ event' = event
      /\ \A q \in Requests : q # r => request'[q] = request[q]
      /\ \A c \in Bookings \ {b} : booking'[c] = booking[c]
      /\ Faithful' \subseteq Faithful /\ (b \in Faithful' => Told(r))
  BY <1>0 DEF Commit, Faithful, Told
<1>2. /\ \A q \in Requests : q # r => /\ (Stays(q)' <=> Stays(q)) /\ (HoldsSettings(q)' <=> HoldsSettings(q))
                                      /\ (Told(q)' <=> Told(q))
      /\ \A q \in Requests, c \in Bookings : q # r => (ChangesEvent(q, c)' <=> ChangesEvent(q, c))
      /\ ~Told(r)' /\ ~HoldsSettings(r)'
      /\ \A c \in Bookings : ChangesEvent(r, c) => c = b /\ ~Stays(r)
  BY <1>1 DEF ChangesEvent, Works, Stays, HoldsSettings, Told, Idle
<1>3. /\ request[r].kind = "book" => Written(r) =
            [status |-> "confirmed", at |-> request[r].to, event |-> request[r].read.event]
      /\ request[r].kind = "cancel" => Written(r) = [row EXCEPT !.status = "cancelled"]
      /\ Stays(r) => Written(r) = row
      /\ request[r].kind = "move" /\ ~Stays(r) =>
            Written(r) = [row EXCEPT !.status = "confirmed", !.at = request[r].to]
  BY DEF Written, Stays
<1>4. /\ request[r].kind = "cancel" => /\ booking'[b].status = "cancelled" /\ booking'[b].at = row.at
                                       /\ booking'[b].event = row.event
      /\ Stays(r) => booking'[b] = row
      /\ request[r].kind = "move" /\ ~Stays(r) => /\ booking'[b].status = "confirmed"
                                                  /\ booking'[b].at = request[r].to /\ booking'[b].event = row.event
      /\ request[r].kind = "book" => /\ booking'[b].status = "confirmed" /\ booking'[b].at = request[r].to
                                     /\ booking'[b].event = request[r].read.event
  <2>1. booking'[b] = Written(r)
    BY <1>0
  <2>2. CASE request[r].kind = "cancel"
    BY <1>0, <1>3, <2>1, <2>2 DEF Rows, Stays
  <2>3. CASE request[r].kind = "book"
    BY <1>3, <2>1, <2>3 DEF Stays
  <2>4. CASE request[r].kind = "move"
    BY <1>0, <1>3, <2>1, <2>4 DEF Rows
  <2> QED BY <1>0, <2>2, <2>3, <2>4
<1>5. ReadInv'
  <2>1. \A c \in Bookings : booking'[c].status = "none" => booking'[c] = Nothing
    BY <1>0, <1>1, <1>4 DEF MirrorInv, ReadInv
  <2>2. ASSUME NEW q \in Requests, request'[q].stage # "idle"
        PROVE  /\ request'[q].kind # "book" => request'[q].read.event = booking'[request'[q].of].event
               /\ request'[q].kind = "cancel" =>
                    request'[q].client = booking'[request'[q].of].event /\ request'[q].to = Gone
               /\ HoldsSettings(q)' /\ request'[q].kind = "move" /\ request'[q].of \notin stale' =>
                    booking'[request'[q].of].at = request'[q].read.at
    <3>1. q # r /\ request'[q] = request[q] /\ request[q].of \in Bookings
      BY <1>0, <1>1, <2>2 DEF Idle, BookingInv, TypeInv, TypeOK
    <3>2. CASE request[q].of # b
      BY <1>1, <1>2, <2>2, <3>1, <3>2 DEF MirrorInv, ReadInv
    <3>3. CASE request[q].of = b
      <4>1. request[r].kind # "book"
        BY <1>0, <2>2, <3>1, <3>3 DEF BookingInv, LockInv, IsAlone, Works
      <4>2. booking'[b].event = row.event
        BY <1>0, <1>4, <4>1
      <4>3. HoldsSettings(q) => request[r].kind = "cancel"
        BY <1>0, <3>1 DEF BookingInv, LockInv, HoldsSettings
      <4>4. HoldsSettings(q) => booking'[b].at = row.at
        BY <1>4, <4>3
      <4> QED BY <1>1, <1>2, <2>2, <3>1, <3>3, <4>2, <4>4 DEF MirrorInv, ReadInv
    <3> QED BY <3>2, <3>3
  <2> QED BY <2>1, <2>2 DEF ReadInv
<1>6. EventInv'
  <2> SUFFICES ASSUME NEW c \in Faithful'
               PROVE  (/\ booking[c].status = "none" => event[c] = Gone \/ \E q \in Requests : ChangesEvent(q, c)
                       /\ booking[c].status = "cancelled" => event[c] = Gone
                       /\ Confirmed(c) => /\ booking[c].event
                                          /\ event[c] = booking[c].at \/ \E q \in Requests : ChangesEvent(q, c))'
    BY DEF EventInv
  <2>0. c \in Bookings /\ c \in Faithful
    BY <1>1 DEF Faithful
  <2>1. CASE c # b \/ Stays(r)
    <3>1. booking'[c] = booking[c]
      BY <1>1, <1>4, <2>0, <2>1
    <3>2. \A q \in Requests : ChangesEvent(q, c) => ChangesEvent(q, c)'
      BY <1>2, <2>0, <2>1
    <3> QED BY <1>1, <2>0, <3>1, <3>2 DEF MirrorInv, EventInv, Confirmed
  <2>2. CASE c = b /\ ~Stays(r)
    <3>1. event[b] = request[r].to /\ (request[r].kind = "book" => request[r].read.event)
      BY <1>1, <2>0, <2>2 DEF MirrorInv, ToldInv
    <3>2. request[r].kind = "cancel" => request[r].to = Gone
      BY <1>0 DEF MirrorInv, ReadInv
    <3>3. request[r].kind = "move" => Confirmed(b)
      BY <1>0, <2>0, <2>2 DEF BookingInv, FreeInv, HoldsSettings, Faithful
    <3>4. request[r].kind = "move" => row.event
      BY <2>0, <2>2, <3>3 DEF MirrorInv, EventInv
    <3> QED BY <1>0, <1>1, <1>4, <2>2, <3>1, <3>2, <3>4 DEF Confirmed
  <2> QED BY <2>1, <2>2
<1>7. ToldInv'
  BY <1>1, <1>2 DEF MirrorInv, ToldInv
<1> QED BY <1>0, <1>5, <1>6, <1>7 DEF MirrorInv

\* A refused move writes what was read, a lost transaction nothing.
LEMMA EndMirrorInv ==
    ASSUME MirrorInv, NEW r \in Requests, CommitRefused(r) \/ Lose(r)
    PROVE  MirrorInv'
<1> DEFINE b == request[r].of
<1>0. /\ BookingInv' /\ BookingInv /\ request \in [Requests -> Transactions] /\ b \in Bookings
      /\ booking \in [Bookings -> Rows] /\ booking[b] \in Rows
  BY EndBookingInv DEF MirrorInv, BookingInv, TypeInv, TypeOK, CommitRefused, Lose
<1>1. /\ request'[r] = Idle /\ stale' = stale /\ event' = event
      /\ \A q \in Requests : q # r => request'[q] = request[q]
      /\ Faithful' \subseteq Faithful
      /\ request[r].stage = "called" => b \notin Faithful'
  BY <1>0 DEF CommitRefused, Lose, Faithful
<1>2. /\ \A q \in Requests : q # r => /\ (Stays(q)' <=> Stays(q)) /\ (HoldsSettings(q)' <=> HoldsSettings(q))
                                      /\ (Told(q)' <=> Told(q))
      /\ \A q \in Requests, c \in Bookings : q # r => (ChangesEvent(q, c)' <=> ChangesEvent(q, c))
      /\ ~Told(r)'
      /\ \A c \in Faithful' : ~ChangesEvent(r, c)
  BY <1>1 DEF ChangesEvent, Works, Stays, HoldsSettings, Told, Idle
<1>3. /\ \A c \in Bookings : /\ booking'[c].at = booking[c].at /\ booking'[c].event = booking[c].event
                             /\ booking'[c].status \in {booking[c].status, "confirmed"}
                             /\ booking'[c].status = booking[c].status => booking'[c] = booking[c]
      /\ \A c \in Bookings \ stale : booking'[c] = booking[c]
  <2>1. CASE Lose(r) \/ request[r].kind # "move"
    BY <2>1 DEF Lose, CommitRefused
  <2>2. CASE CommitRefused(r) /\ request[r].kind = "move"
    <3>1. booking' = [booking EXCEPT ![b] = [booking[b] EXCEPT !.status = "confirmed"]]
      BY <2>2 DEF CommitRefused
    <3>2. HoldsSettings(r) /\ ~Stays(r)
      BY <1>0, <2>2 DEF CommitRefused, BookingInv, LockInv
    <3>3. b \notin stale => booking[b].status = "confirmed"
      BY <1>0, <2>2, <3>2 DEF BookingInv, FreeInv, Confirmed
    <3> QED BY <1>0, <3>1, <3>3 DEF Rows
  <2> QED BY <2>1, <2>2
<1>4. ReadInv'
  <2>1. \A q \in Requests : request'[q].stage # "idle" => q # r /\ request[q].of \in Bookings
    BY <1>0, <1>1 DEF Idle, BookingInv, TypeInv, TypeOK
  <2>2. ASSUME NEW c \in Bookings, booking'[c].status = "none" PROVE booking'[c] = Nothing
    <3>1. booking'[c] = booking[c]
      BY <1>3, <2>2
    <3> QED BY <2>2, <3>1 DEF MirrorInv, ReadInv
  <2>3. ASSUME NEW q \in Requests, request'[q].stage # "idle"
        PROVE  /\ request'[q].kind # "book" => request'[q].read.event = booking'[request'[q].of].event
               /\ request'[q].kind = "cancel" =>
                    request'[q].client = booking'[request'[q].of].event /\ request'[q].to = Gone
               /\ HoldsSettings(q)' /\ request'[q].kind = "move" /\ request'[q].of \notin stale' =>
                    booking'[request'[q].of].at = request'[q].read.at
    <3>1. q # r /\ request'[q] = request[q] /\ request[q].of \in Bookings
      BY <1>1, <2>1, <2>3
    <3>2. /\ booking'[request[q].of].at = booking[request[q].of].at
          /\ booking'[request[q].of].event = booking[request[q].of].event
      BY <1>3, <3>1
    <3> QED BY <1>1, <1>2, <2>3, <3>1, <3>2 DEF MirrorInv, ReadInv
  <2> QED BY <2>2, <2>3 DEF ReadInv
<1>5. EventInv'
  <2>1. \A c \in Faithful' : c \in Bookings /\ c \in Faithful /\ booking'[c] = booking[c]
    BY <1>1, <1>3 DEF Faithful
  <2> QED BY <1>1, <1>2, <2>1 DEF MirrorInv, EventInv, Confirmed
<1>6. ToldInv'
  BY <1>1, <1>2 DEF MirrorInv, ToldInv
<1> QED BY <1>0, <1>4, <1>5, <1>6 DEF MirrorInv

\* MirrorInv is inductive.
LEMMA NextMirrorInv == MirrorInv /\ [Next]_vars => MirrorInv'
<1> SUFFICES ASSUME MirrorInv, [Next]_vars PROVE MirrorInv'
  OBVIOUS
<1>1. CASE Reconnect \/ UNCHANGED vars
  <2>1. BookingInv' /\ UNCHANGED <<booking, event, request, stale, unmirrored, lost>>
    BY <1>1, NextBookingInv DEF MirrorInv, Reconnect, vars
  <2> QED BY <2>1 DEF MirrorInv, ReadInv, EventInv, ToldInv, Faithful, Told, ChangesEvent, Works, Stays,
        HoldsSettings, Confirmed
<1> QED BY <1>1, BeginMirrorInv, LookMirrorInv, CallMirrorInv, CommitMirrorInv, EndMirrorInv DEF Next, RequestStep

\* The connected calendar shows a mirrored booking at its time and no cancelled one, whoever books,
\* moves and cancels at once and whatever calls fail, but for what the owner was shown, a lost
\* transaction and a move from an old row.
THEOREM BookingsMirrored == Spec => []MirrorIsFaithful
<1>1. MirrorInv => MirrorIsFaithful
  <2> SUFFICES ASSUME MirrorInv, NEW b \in Faithful, \A r \in Requests : ~Works(r, b)
               PROVE  event[b] = IF Confirmed(b) THEN booking[b].at ELSE Gone
    BY DEF MirrorIsFaithful, Faithful
  <2>1. \A r \in Requests : ~ChangesEvent(r, b)
    BY DEF ChangesEvent
  <2>2. booking[b] \in Rows /\ booking[b].status \in {"none", "confirmed", "cancelled"}
    BY DEF MirrorInv, BookingInv, TypeInv, TypeOK, Faithful, Rows
  <2> QED BY <2>1, <2>2 DEF MirrorInv, EventInv, Confirmed
<1> QED BY <1>1, InitMirrorInv, NextMirrorInv, PTL DEF Spec

=============================================================================
