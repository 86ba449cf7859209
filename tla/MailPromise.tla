----------------------------- MODULE MailPromise -----------------------------
(***************************************************************************)
(* What the outbox promises the rest of the program about one mail per      *)
(* business event: a published event is mailed at most once, a mail is      *)
(* recorded only after it was sent, an event is closed as done only when    *)
(* its mail is recorded, and a closed event stays closed, unless a worker   *)
(* was late (its lease ran out while it was still working).                 *)
(***************************************************************************)
EXTENDS Naturals

CONSTANT Events

VARIABLES
    published,   \* events whose command has committed
    mails,       \* mails sent per event
    recorded,    \* events with a delivery record
    closed,      \* "open", "done" or "failed"
    late         \* a lease has run out under a live worker

vars == <<published, mails, recorded, closed, late>>

Init ==
    /\ published = {}
    /\ mails = [e \in Events |-> 0]
    /\ recorded = {}
    /\ closed = [e \in Events |-> "open"]
    /\ late = FALSE

Publish(e) ==
    /\ e \notin published
    /\ published' = published \cup {e}
    /\ UNCHANGED <<mails, recorded, closed, late>>

Mail(e) ==
    /\ e \in published
    /\ mails[e] = 0
    /\ mails' = [mails EXCEPT ![e] = 1]
    /\ UNCHANGED <<published, recorded, closed, late>>

Record(e) ==
    /\ mails[e] = 1
    /\ recorded' = recorded \cup {e}
    /\ UNCHANGED <<published, mails, closed, late>>

Close(e, how) ==
    /\ closed[e] = "open" \/ late
    /\ how = "done" => e \in recorded
    /\ how = "failed" => e \in published /\ (e \notin recorded \/ late)
    /\ closed' = [closed EXCEPT ![e] = how]
    /\ UNCHANGED <<published, mails, recorded, late>>

BeLate ==
    /\ late' = TRUE
    /\ UNCHANGED <<published, mails, recorded, closed>>

Next ==
    \/ \E e \in Events :
        \/ Publish(e) \/ Mail(e) \/ Record(e)
        \/ \E how \in {"open", "done", "failed"} : Close(e, how)
    \/ BeLate

Spec == Init /\ [][Next]_vars

=============================================================================
