------------------------------ MODULE Invocation ------------------------------
(***************************************************************************)
(* An <invoke> of a nested SCXML session: the invoking session's thread in *)
(* BasicContentExecutor, InterpreterImpl and USCXMLInvoker, the thread the *)
(* invoker starts for the child, and the thread of the child's delayed     *)
(* sends.  They share _isActive, which no lock protects, and the queues,   *)
(* whose operations are atomic (module EventQueue).                        *)
(*                                                                         *)
(* The state with the <invoke> can be entered and left again and again;    *)
(* each time a new invoker is created.  What the child's chart does is     *)
(* left open: with each microstep it may send to #_parent, at once or      *)
(* delayed, or reach a top-level final state.                              *)
(***************************************************************************)
EXTENDS Naturals, Sequences

CONSTANTS
    MaxInvocations,  \* bound: how often the state is entered
    MaxSent,         \* bound: the events sent to the child
    MaxArrived       \* bound: the events a child sends to its parent

ASSUME InvocationBounds == MaxInvocations \in Nat /\ MaxSent \in Nat /\ MaxArrived \in Nat

VARIABLES
    invocation,   \* the number of times the state was invoked
    isInvoked,    \* the state's bit in FastMicroStep::_invocations
    hasInvokeId,  \* the user data "invokeid" of the <invoke> element
    registered,   \* InterpreterImpl::_invokers has the invoker
    forwards,     \* _autoForwarders has it
    parent,       \* where the parent's thread is in uninvoke()
    isActive,     \* USCXMLInvoker::_isActive
    thread,       \* where the child's thread is, "none" if _thread is NULL
    queue,        \* the child's external queue
    isCancelled,  \* the child's _isCancelled
    timer,        \* the libevent timer of the child's delayed send to its parent
    loop,         \* where the thread of the child's delayed queue is
    arrived,      \* all events that were put into the parent's external queue
    taken,        \* how many of them it has processed
    sent,         \* how many events were sent to children
    completed,    \* invocations whose child reached a top-level final state
    ended         \* invocations that uninvoke() has ended

parentVars == <<invocation, isInvoked, hasInvokeId, registered, forwards>>
vars == <<parentVars, parent, isActive, thread, queue, isCancelled, timer, loop, arrived, taken,
          sent, completed, ended>>

NoEvent == "Event()"

Init ==
    /\ invocation = 0
    /\ isInvoked = FALSE
    /\ hasInvokeId = FALSE
    /\ registered = FALSE
    /\ forwards = FALSE
    /\ parent = "running"
    /\ isActive = FALSE
    /\ thread = "none"
    /\ queue = <<>>
    /\ isCancelled = FALSE
    /\ timer = "none"
    /\ loop = "none"
    /\ arrived = <<>>
    /\ taken = 0
    /\ sent = 0
    /\ completed = {}
    /\ ended = {}

-----------------------------------------------------------------------------
(* The parent's thread. *)

Entering ==
    /\ parent = "running"
    /\ ~isInvoked
    /\ invocation < MaxInvocations
    /\ invocation' = invocation + 1
    /\ isInvoked' = TRUE

(***************************************************************************)
(* invoke() fails when it evaluates typeexpr or srcexpr, before it sets    *)
(* the invokeid, or when the factory does not know the type; the stepper   *)
(* ignores it.                                                             *)
(***************************************************************************)
InvokeFails ==
    /\ Entering
    /\ hasInvokeId' \in BOOLEAN
    /\ UNCHANGED <<registered, forwards, parent, isActive, thread, queue, isCancelled, timer, loop,
                   arrived, taken, sent, completed, ended>>

\* The invoker itself throws, without a source or content, when it is already known.
InvokeWithoutSource ==
    /\ Entering
    /\ hasInvokeId' = TRUE
    /\ registered' = TRUE
    /\ isActive' = FALSE
    /\ UNCHANGED <<forwards, parent, thread, queue, isCancelled, timer, loop, arrived, taken, sent,
                   completed, ended>>

Invoke ==
    /\ Entering
    /\ hasInvokeId' = TRUE
    /\ registered' = TRUE
    /\ forwards' \in BOOLEAN
    /\ isActive' = TRUE
    /\ thread' = "entering"
    /\ queue' = <<>>
    /\ isCancelled' = FALSE
    /\ loop' = "test"
    /\ UNCHANGED <<parent, timer, arrived, taken, sent, completed, ended>>

\* USCXMLInvoker::eventFromSCXML.
EventFromSCXML(event) == queue' = IF isActive THEN Append(queue, event) ELSE queue

\* A <send> to #_<invokeid>; without an invoker it is an error.communication.
EnqueueAtInvoker ==
    /\ parent = "running"
    /\ registered
    /\ sent < MaxSent
    /\ sent' = sent + 1
    /\ EventFromSCXML("event")
    /\ UNCHANGED <<parentVars, parent, isActive, thread, isCancelled, timer, loop, arrived, taken,
                   completed, ended>>

\* dequeueExternal, which forwards the event to the invoker if it asks for it.
DequeueExternal ==
    /\ parent = "running"
    /\ taken < Len(arrived)
    /\ taken' = taken + 1
    /\ \/ registered /\ forwards /\ EventFromSCXML("event")
       \/ ~(registered /\ forwards) /\ UNCHANGED queue
    /\ UNCHANGED <<parentVars, parent, isActive, thread, isCancelled, timer, loop, arrived, sent,
                   completed, ended>>

\* Mutant: the child is cancelled first.
UninvokeStillActive ==
    /\ parent = "running"
    /\ isInvoked
    /\ registered
    /\ parent' = IF thread = "none" THEN "destroying" ELSE "stopping"
    /\ UNCHANGED <<parentVars, isActive, thread, queue, isCancelled, timer, loop, arrived, taken,
                   sent, completed, ended>>

Uninvoke ==
    /\ parent = "running"
    /\ isInvoked
    /\ registered
    /\ isActive' = FALSE
    /\ parent' = IF thread = "none" THEN "destroying" ELSE "stopping"
    /\ UNCHANGED <<parentVars, thread, queue, isCancelled, timer, loop, arrived, taken, sent,
                   completed, ended>>

\* The assertion that the element has an invokeid ends the process.
UninvokeAsserts ==
    /\ parent = "running"
    /\ isInvoked
    /\ ~hasInvokeId
    /\ parent' = "aborted"
    /\ UNCHANGED <<parentVars, isActive, thread, queue, isCancelled, timer, loop, arrived, taken,
                   sent, completed, ended>>

UninvokeNothing ==
    /\ parent = "running"
    /\ isInvoked
    /\ hasInvokeId
    /\ ~registered
    /\ isInvoked' = FALSE
    /\ hasInvokeId' = FALSE
    /\ ended' = ended \cup {invocation}
    /\ UNCHANGED <<invocation, registered, forwards, parent, isActive, thread, queue, isCancelled,
                   timer, loop, arrived, taken, sent, completed>>

\* The child's cancel(): mark, then an Event() to unblock it.
StopMark ==
    /\ parent = "stopping"
    /\ isCancelled' = TRUE
    /\ parent' = "marked"
    /\ UNCHANGED <<parentVars, isActive, thread, queue, timer, loop, arrived, taken, sent, completed,
                   ended>>

\* Mutant: the child is marked but not unblocked.
StopUnblockNothing ==
    /\ parent = "marked"
    /\ parent' = "joining"
    /\ UNCHANGED <<parentVars, isActive, thread, queue, isCancelled, timer, loop, arrived, taken,
                   sent, completed, ended>>

StopUnblock ==
    /\ parent = "marked"
    /\ queue' = Append(queue, NoEvent)
    /\ parent' = "joining"
    /\ UNCHANGED <<parentVars, isActive, thread, isCancelled, timer, loop, arrived, taken, sent,
                   completed, ended>>

\* Mutant: the thread is left to itself.
JoinDetached ==
    /\ parent = "joining"
    /\ parent' = "destroying"
    /\ UNCHANGED <<parentVars, isActive, thread, queue, isCancelled, timer, loop, arrived, taken,
                   sent, completed, ended>>

Join ==
    /\ parent = "joining"
    /\ thread = "ended"
    /\ thread' = "none"
    /\ parent' = "destroying"
    /\ UNCHANGED <<parentVars, isActive, queue, isCancelled, timer, loop, arrived, taken, sent,
                   completed, ended>>

(***************************************************************************)
(* _invokers.erase destroys the invoker and the child, if there is one:    *)
(* ~InterpreterImpl calls cancelAllDelayed, which holds _mutex of the      *)
(* child's delayed queue while event_del waits for a running callback ...  *)
(***************************************************************************)
DestroyChild ==
    /\ parent = "destroying"
    /\ loop # "none"
    /\ parent' = "clearing"
    /\ UNCHANGED <<parentVars, isActive, thread, queue, isCancelled, timer, loop, arrived, taken,
                   sent, completed, ended>>

CancelAllDelayed ==
    /\ parent = "clearing"
    /\ timer # "active"
    /\ timer' = "none"
    /\ parent' = "halting"
    /\ UNCHANGED <<parentVars, isActive, thread, queue, isCancelled, loop, arrived, taken, sent,
                   completed, ended>>

(***************************************************************************)
(* ... and then the queue's stop() clears _isStarted, breaks the loop, if  *)
(* the thread is in it, and joins the thread (module DelayedEventQueue).   *)
(***************************************************************************)
StopLoop ==
    /\ parent = "halting"
    /\ loop' = IF loop = "loop" THEN "test" ELSE loop
    /\ parent' = "joiningLoop"
    /\ UNCHANGED <<parentVars, isActive, thread, queue, isCancelled, timer, arrived, taken, sent,
                   completed, ended>>

Destroy ==
    /\ \/ parent = "destroying" /\ loop = "none"
       \/ parent = "joiningLoop" /\ loop = "ended"
    /\ timer' = "none"
    /\ loop' = "none"
    /\ registered' = FALSE
    /\ forwards' = FALSE
    /\ isInvoked' = FALSE
    /\ hasInvokeId' = FALSE
    /\ ended' = ended \cup {invocation}
    /\ parent' = "running"
    /\ UNCHANGED <<invocation, isActive, thread, queue, isCancelled, arrived, taken, sent,
                   completed>>

-----------------------------------------------------------------------------
(* The child's threads. *)

Arrive(kind) ==
    arrived' = Append(arrived, [invocation |-> invocation, kind |-> kind])

SentOf(i) == {n \in DOMAIN arrived : arrived[n].invocation = i}
MaySend == Len(arrived) < invocation * MaxArrived

(***************************************************************************)
(* A microstep of the child, from where it is to the next stable           *)
(* configuration: it sends to its parent, delays such a send, reaches a    *)
(* final state, or does something else.                                    *)
(***************************************************************************)
Microstep ==
    \/ /\ thread' = "waiting"
       /\ UNCHANGED <<timer, loop, completed>>
    \/ /\ MaySend
       /\ thread' = "sending"
       /\ UNCHANGED <<timer, loop, completed>>
    \/ /\ MaySend
       /\ timer = "none"
       /\ timer' = "armed"
       /\ thread' = "waiting"
       /\ UNCHANGED completed
    \/ /\ thread' = "finished"
       /\ completed' = completed \cup {invocation}
       /\ UNCHANGED timer

ChildEnter ==
    /\ thread = "entering"
    /\ Microstep
    /\ UNCHANGED <<parentVars, parent, isActive, queue, isCancelled, loop, arrived, taken, sent, ended>>

ChildReceive ==
    /\ thread = "waiting"
    /\ queue # <<>>
    /\ Head(queue) # NoEvent
    /\ queue' = Tail(queue)
    /\ Microstep
    /\ UNCHANGED <<parentVars, parent, isActive, isCancelled, loop, arrived, taken, sent, ended>>

ChildUnblocked ==
    /\ thread = "waiting"
    /\ queue # <<>>
    /\ Head(queue) = NoEvent
    /\ queue' = Tail(queue)
    /\ thread' = IF isCancelled THEN "finished" ELSE "waiting"
    /\ UNCHANGED <<parentVars, parent, isActive, isCancelled, timer, loop, arrived, taken, sent,
                   completed, ended>>

\* ParentQueueImpl::enqueue tests _isActive, then the event goes to the parent's queue.
ChildSendTest ==
    /\ thread = "sending"
    /\ thread' = IF isActive THEN "enqueueing" ELSE "waiting"
    /\ UNCHANGED <<parentVars, parent, isActive, queue, isCancelled, timer, loop, arrived, taken,
                   sent, completed, ended>>

ChildSend ==
    /\ thread = "enqueueing"
    /\ Arrive("event")
    /\ thread' = "waiting"
    /\ UNCHANGED <<parentVars, parent, isActive, queue, isCancelled, timer, loop, taken, sent,
                   completed, ended>>

(***************************************************************************)
(* The thread of the child's delayed queue, BasicDelayedEventQueue::run,   *)
(* and timerCallback.  Clearing, the parent's thread holds _mutex.         *)
(***************************************************************************)
LoopTest ==
    /\ loop = "test"
    /\ loop' = IF parent = "joiningLoop" THEN "ended" ELSE "enter"
    /\ UNCHANGED <<parentVars, parent, isActive, thread, queue, isCancelled, timer, arrived, taken,
                   sent, completed, ended>>

LoopEnter ==
    /\ loop = "enter"
    /\ loop' = "loop"
    /\ UNCHANGED <<parentVars, parent, isActive, thread, queue, isCancelled, timer, arrived, taken,
                   sent, completed, ended>>

TimerExpire ==
    /\ loop = "loop"
    /\ timer = "armed"
    /\ timer' = "active"
    /\ loop' = "expired"
    /\ UNCHANGED <<parentVars, parent, isActive, thread, queue, isCancelled, arrived, taken, sent,
                   completed, ended>>

TimerFree ==
    /\ loop = "expired"
    /\ parent # "clearing"
    /\ timer' = "freed"
    /\ loop' = "ready"
    /\ UNCHANGED <<parentVars, parent, isActive, thread, queue, isCancelled, arrived, taken, sent,
                   completed, ended>>

\* eventReady sends to the parent as ChildSendTest and ChildSend do.
TimerTest ==
    /\ loop = "ready"
    /\ loop' = IF isActive THEN "sending" ELSE "erase"
    /\ UNCHANGED <<parentVars, parent, isActive, thread, queue, isCancelled, timer, arrived, taken,
                   sent, completed, ended>>

TimerSend ==
    /\ loop = "sending"
    /\ Arrive("delayed")
    /\ loop' = "erase"
    /\ UNCHANGED <<parentVars, parent, isActive, thread, queue, isCancelled, timer, taken, sent,
                   completed, ended>>

TimerErase ==
    /\ loop = "erase"
    /\ parent # "clearing"
    /\ timer' = "none"
    /\ loop' = "test"
    /\ UNCHANGED <<parentVars, parent, isActive, thread, queue, isCancelled, arrived, taken, sent,
                   completed, ended>>

\* Mutant: nothing is reported.
RunFinishedSilently ==
    /\ thread = "finished"
    /\ thread' = "leaving"
    /\ UNCHANGED <<parentVars, parent, isActive, queue, isCancelled, timer, loop, arrived, taken,
                   sent, completed, ended>>

\* run() after the last step: "we finished on our own and were not cancelled".
RunFinished ==
    /\ thread = "finished"
    /\ thread' = IF isActive THEN "reporting" ELSE "leaving"
    /\ UNCHANGED <<parentVars, parent, isActive, queue, isCancelled, timer, loop, arrived, taken,
                   sent, completed, ended>>

RunReport ==
    /\ thread = "reporting"
    /\ Arrive("done")
    /\ thread' = "leaving"
    /\ UNCHANGED <<parentVars, parent, isActive, queue, isCancelled, timer, loop, taken, sent,
                   completed, ended>>

RunLeave ==
    /\ thread = "leaving"
    /\ isActive' = FALSE
    /\ thread' = "ended"
    /\ UNCHANGED <<parentVars, parent, queue, isCancelled, timer, loop, arrived, taken, sent,
                   completed, ended>>

Stop ==
    \/ StopMark
    \/ StopUnblock
    \/ Join
    \/ DestroyChild
    \/ CancelAllDelayed
    \/ StopLoop
    \/ Destroy

Child ==
    \/ ChildEnter
    \/ ChildReceive
    \/ ChildUnblocked
    \/ ChildSendTest
    \/ ChildSend
    \/ RunFinished
    \/ RunReport
    \/ RunLeave

Loop == LoopTest \/ LoopEnter \/ TimerFree \/ TimerTest \/ TimerSend \/ TimerErase

Next ==
    \/ InvokeFails
    \/ InvokeWithoutSource
    \/ Invoke
    \/ EnqueueAtInvoker
    \/ DequeueExternal
    \/ Uninvoke
    \/ UninvokeAsserts
    \/ UninvokeNothing
    \/ Stop
    \/ Child
    \/ Loop
    \/ TimerExpire

Spec == Init /\ [][Next]_vars

(***************************************************************************)
(* Threads go on with what they have begun; nothing obliges the parent to  *)
(* leave the state, to send or to take events, and a delay may be long.    *)
(***************************************************************************)
FairSpec == Spec /\ WF_vars(Stop) /\ WF_vars(Child) /\ WF_vars(Loop)

-----------------------------------------------------------------------------
(* Properties. *)

(***************************************************************************)
(* Nothing arrives from an invocation after uninvoke() has returned,       *)
(* whatever the child and its timers were doing meanwhile: they test       *)
(* _isActive before they send, and both threads are joined (stop()).       *)
(***************************************************************************)
NothingAfterUninvoke ==
    [][arrived' # arrived => arrived'[Len(arrived')].invocation \notin ended]_vars

(***************************************************************************)
(* done.invoke means that the child finished on its own, not that it was   *)
(* cancelled (run(), "we finished on our own and were not cancelled"); it  *)
(* arrives once, and after it only a delayed send that was on its way.     *)
(***************************************************************************)
DoneMeansCompleted ==
    \A n \in DOMAIN arrived : arrived[n].kind = "done" =>
        /\ arrived[n].invocation \in completed
        /\ \A k \in n + 1 .. Len(arrived) :
              arrived[k].invocation = arrived[n].invocation => arrived[k].kind = "delayed"

(***************************************************************************)
(* A child that finishes on its own is reported, unless it is uninvoked    *)
(* just then.                                                              *)
(***************************************************************************)
CompletionReported ==
    \A i \in 1 .. MaxInvocations :
        i \in completed ~>
            \/ i \in ended
            \/ \E n \in SentOf(i) : arrived[n].kind = "done"
            \/ parent # "running"

(***************************************************************************)
(* What can keep uninvoke() from returning: cancelAllDelayed comes upon a  *)
(* callback of the delayed send, which waits for _mutex or has freed the   *)
(* event already; or the loopbreak came before the loop was entered.       *)
(***************************************************************************)
CallbackMet == parent = "clearing" /\ timer \in {"active", "freed"}
LoopbreakLost == parent = "joiningLoop" /\ loop \in {"enter", "loop"}

(***************************************************************************)
(* uninvoke() ends the child's thread wherever it is waiting or sending    *)
(* (stop(), "Cancel will finalize and unblock"), and then returns but for  *)
(* the two ways in which ending the child's delayed queue can get stuck.   *)
(* The child takes no delayed send away before that; how <cancel> itself   *)
(* can get stuck is OperationsReturn of DelayedEventQueue.                 *)
(***************************************************************************)
UninvokeReturns ==
    /\ parent \in {"stopping", "marked", "joining"} ~> parent = "destroying"
    /\ parent = "destroying" ~> parent = "running" \/ CallbackMet \/ LoopbreakLost
=============================================================================
