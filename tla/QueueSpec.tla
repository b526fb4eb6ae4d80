------------------------------ MODULE QueueSpec ------------------------------
(***************************************************************************)
(* What an event queue promises to the one thread that takes events from   *)
(* it: each is handed out once, in the order in which they were enqueued;  *)
(* a call that waits returns when there is an event, and returns without   *)
(* one only when it may: never if it was to wait for ever, not before its  *)
(* time is over otherwise, and only if there is no event to return.        *)
(***************************************************************************)
EXTENDS Naturals, Sequences

CONSTANTS Events

VARIABLES
    queue,     \* the events to hand out
    returned,  \* the events handed out
    call,      \* how long the call in progress waits, or "none"
    expired    \* its time is over

vars == <<queue, returned, call, expired>>

Init ==
    /\ queue = <<>>
    /\ returned = <<>>
    /\ call = "none"
    /\ expired = FALSE

Put ==
    /\ \E e \in Events : queue' = Append(queue, e)
    /\ UNCHANGED <<returned, call, expired>>

Call ==
    /\ call = "none"
    /\ call' \in {"forever", "timed", "poll"}
    /\ expired' = (call' = "poll")
    /\ UNCHANGED <<queue, returned>>

TimeOver ==
    /\ call = "timed"
    /\ expired' = TRUE
    /\ UNCHANGED <<queue, returned, call>>

Take ==
    /\ call # "none"
    /\ queue # <<>>
    /\ queue' = Tail(queue)
    /\ returned' = Append(returned, Head(queue))
    /\ call' = "none"
    /\ expired' = FALSE

TakeNothing ==
    /\ call # "none"
    /\ queue = <<>>
    /\ expired
    /\ call' = "none"
    /\ expired' = FALSE
    /\ UNCHANGED <<queue, returned>>

Next == Put \/ Call \/ TimeOver \/ Take \/ TakeNothing

Spec == Init /\ [][Next]_vars

\* A call returns once there is an event or its time is over.
Returns == WF_vars(Take) /\ WF_vars(TakeNothing)
=============================================================================
