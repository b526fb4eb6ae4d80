------------------------------ MODULE EventQueue ------------------------------
(***************************************************************************)
(* BasicEventQueue between the threads that enqueue and the interpreter's  *)
(* thread, which calls dequeue() from step(): the critical sections of     *)
(* _mutex, each one action, and the condition variable between them.  A    *)
(* thread that waits may wake up for no reason, and one that is notified   *)
(* finds the queue as it is when it has got _mutex again.                  *)
(*                                                                         *)
(* InterpreterImpl::cancel is one of the callers of enqueue(): it marks    *)
(* the stepper and then enqueues an Event() so that dequeue() returns.     *)
(***************************************************************************)
EXTENDS Naturals, Sequences

CONSTANTS
    Senders,   \* the threads that enqueue events
    MaxSent    \* bound: the events of each of them

ASSUME MaxSentAssumption == MaxSent \in Nat

VARIABLES
    queue,      \* _queue
    sent,       \* for each sender the number of events it has enqueued
    notifying,  \* the threads between the critical section and the notification in enqueue()
    thread,     \* where the interpreter's thread is
    call,       \* blockMs of its dequeue(): "forever", "timed", "poll" (0), or "none"
    expired,    \* the end of that time has passed
    returned,   \* the events dequeue() has returned, in order
    isCancelled, \* FastMicroStep::_isCancelled
    canceller   \* where the thread that calls cancel() is

vars == <<queue, sent, notifying, thread, call, expired, returned, isCancelled, canceller>>

Canceller == "canceller"
Threads == Senders \cup {Canceller}
NoEvent == "Event()"
Events == (Senders \X (1 .. MaxSent)) \cup {NoEvent}

Init ==
    /\ queue = <<>>
    /\ sent = [s \in Senders |-> 0]
    /\ notifying = {}
    /\ thread = "outside"
    /\ call = "none"
    /\ expired = FALSE
    /\ returned = <<>>
    /\ isCancelled = FALSE
    /\ canceller = "before"

-----------------------------------------------------------------------------
(* The threads that enqueue. *)

Enqueue(t, event) ==
    /\ t \notin notifying
    /\ queue' = Append(queue, event)
    /\ notifying' = notifying \cup {t}

\* Mutant: the notification is lost.
NotifyNobody(t) ==
    /\ t \in notifying
    /\ notifying' = notifying \ {t}
    /\ UNCHANGED thread

NotifyAll(t) ==
    /\ t \in notifying
    /\ notifying' = notifying \ {t}
    /\ thread' = IF thread = "waiting" THEN "woken" ELSE thread

Send(s) ==
    /\ sent[s] < MaxSent
    /\ Enqueue(s, <<s, sent[s] + 1>>)
    /\ sent' = [sent EXCEPT ![s] = @ + 1]
    /\ UNCHANGED <<thread, call, expired, returned, isCancelled, canceller>>

Notify(t) ==
    /\ NotifyAll(t)
    /\ UNCHANGED <<queue, sent, call, expired, returned, isCancelled, canceller>>

MarkAsCancelled ==
    /\ canceller = "before"
    /\ isCancelled' = TRUE
    /\ canceller' = "marked"
    /\ UNCHANGED <<queue, sent, notifying, thread, call, expired, returned>>

\* Mutant: the Event() is forgotten.
UnblockNothing ==
    /\ canceller = "marked"
    /\ canceller' = "after"
    /\ UNCHANGED <<queue, sent, notifying, thread, call, expired, returned, isCancelled>>

Unblock ==
    /\ canceller = "marked"
    /\ Enqueue(Canceller, NoEvent)
    /\ canceller' = "after"
    /\ UNCHANGED <<sent, thread, call, expired, returned, isCancelled>>

-----------------------------------------------------------------------------
(* The interpreter's thread. *)

Dequeue ==
    /\ thread = "outside"
    /\ call' \in {"forever", "timed", "poll"}
    /\ expired' = (call' = "poll")
    /\ thread' = "testing"
    /\ UNCHANGED <<queue, sent, notifying, returned, isCancelled, canceller>>

\* Mutant: a thread that was woken does not test again.
KeepsWaitingOnce == queue = <<>> /\ ~expired /\ thread = "testing"

\* The condition of the loops around wait() and wait_until().
KeepsWaiting == queue = <<>> /\ ~expired

Wait ==
    /\ thread \in {"testing", "woken"}
    /\ KeepsWaiting
    /\ thread' = "waiting"
    /\ UNCHANGED <<queue, sent, notifying, call, expired, returned, isCancelled, canceller>>

(***************************************************************************)
(* dequeue() returns the first event of the queue, or Event() if there is  *)
(* none.  In step() an Event() ends a session that is cancelled.           *)
(***************************************************************************)
Finishes(event) == event = NoEvent /\ isCancelled

Return ==
    /\ thread \in {"testing", "woken"}
    /\ ~KeepsWaiting
    /\ queue' = IF queue = <<>> THEN <<>> ELSE Tail(queue)
    /\ returned' = IF queue = <<>> THEN returned ELSE Append(returned, Head(queue))
    /\ thread' = IF Finishes(IF queue = <<>> THEN NoEvent ELSE Head(queue))
                 THEN "finished" ELSE "outside"
    /\ call' = "none"
    /\ expired' = FALSE
    /\ UNCHANGED <<sent, notifying, isCancelled, canceller>>

\* The clock passes endTime, at any moment of the call.
TimeOver ==
    /\ call = "timed"
    /\ ~expired
    /\ expired' = TRUE
    /\ UNCHANGED <<queue, sent, notifying, thread, call, returned, isCancelled, canceller>>

WakeAtTimeout ==
    /\ thread = "waiting"
    /\ expired
    /\ thread' = "woken"
    /\ UNCHANGED <<queue, sent, notifying, call, expired, returned, isCancelled, canceller>>

WakeSpuriously ==
    /\ thread = "waiting"
    /\ thread' = "woken"
    /\ UNCHANGED <<queue, sent, notifying, call, expired, returned, isCancelled, canceller>>

Next ==
    \/ \E s \in Senders : Send(s)
    \/ \E t \in Threads : Notify(t)
    \/ MarkAsCancelled
    \/ Unblock
    \/ Dequeue
    \/ Wait
    \/ Return
    \/ TimeOver
    \/ WakeAtTimeout
    \/ WakeSpuriously

Spec == Init /\ [][Next]_vars

(***************************************************************************)
(* Threads go on with a call they have begun and time passes; the          *)
(* application calls step() in a loop.  Nothing obliges anyone to send an  *)
(* event or to cancel, and no thread has to wake up for no reason.         *)
(***************************************************************************)
FairSpec ==
    /\ Spec
    /\ \A t \in Threads : WF_vars(Notify(t))
    /\ WF_vars(Unblock)
    /\ WF_vars(Dequeue)
    /\ WF_vars(Wait)
    /\ WF_vars(Return)
    /\ WF_vars(TimeOver)
    /\ WF_vars(WakeAtTimeout)

-----------------------------------------------------------------------------
(* Properties. *)

EventQueueTypeOK ==
    /\ queue \in Seq(Events)
    /\ sent \in [Senders -> 0 .. MaxSent]
    /\ notifying \subseteq Threads
    /\ thread \in {"outside", "testing", "waiting", "woken", "finished"}
    /\ call \in {"none", "forever", "timed", "poll"}
    /\ expired \in BOOLEAN
    /\ returned \in Seq(Events)
    /\ isCancelled \in BOOLEAN
    /\ canceller \in {"before", "marked", "after"}

Abstract == INSTANCE QueueSpec

(***************************************************************************)
(* The queue keeps the promise of module QueueSpec: whatever the wake-ups  *)
(* and notifications, dequeue() returns the events in the order of their   *)
(* enqueue(), each once, and returns without one only if none is there and *)
(* its time is over (the loops around wait and wait_until).                *)
(***************************************************************************)
ImplementsQueue == Abstract!Spec

(***************************************************************************)
(* No wake-up is lost: the interpreter does not go on waiting beside a     *)
(* queued event, although enqueue() notifies outside its critical section, *)
(* nor after its time is over.                                             *)
(***************************************************************************)
DequeueReturns == Abstract!Returns

(***************************************************************************)
(* cancel() ends the session, however long dequeue() would wait and        *)
(* whatever is queued: the Event() comes after the mark (cancel(),         *)
(* "Unblock and mark for finalize").                                       *)
(***************************************************************************)
CancelWakes == isCancelled ~> thread = "finished"
=============================================================================
