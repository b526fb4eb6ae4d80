-------------------------- MODULE DelayedEventQueue --------------------------
(***************************************************************************)
(* Delayed sends: InterpreterImpl::enqueue, cancelDelayed and eventReady   *)
(* with BasicDelayedEventQueue.  Two threads take part: the session's,     *)
(* which executes <send> and <cancel>, resets, serializes and destroys the *)
(* interpreter, and the thread of the libevent loop, BasicDelayedEvent-    *)
(* Queue::run, which enters the loop again and again until _isStarted is   *)
(* cleared and runs timerCallback for every event whose delay has passed.  *)
(*                                                                         *)
(* A critical section is one action unless the thread waits inside it.     *)
(* Time is left out: a pending event may expire at any moment.             *)
(***************************************************************************)
EXTENDS Naturals, FiniteSets

CONSTANTS
    Sends,      \* the sends of a session, by their uuid; each is executed once
    SendIds,    \* the ids <cancel> knows them by
    SendId      \* the id of each

ASSUME SendsAssumption == SendId \in [Sends -> SendIds]

VARIABLES
    targets,       \* keys of InterpreterImpl::_delayedEventTargets
    callbackData,  \* keys of BasicDelayedEventQueue::_callbackData
    event,         \* what became of the libevent timer of each send
    delayMutex,    \* who holds InterpreterImpl::_delayMutex
    mutex,         \* who holds BasicDelayedEventQueue::_mutex
    session,       \* what the session's thread is doing
    timer,         \* where the loop's thread is, and in timerCallback for which send
    sent,          \* the sends executed so far
    delivered,     \* how often each was handed to its I/O processor
    cancelled,     \* the sends cancelDelayed has removed
    cleared,       \* the sends cancelAllDelayed has removed
    corrupted,     \* memory was used after it was freed
    aborted,       \* an assertion failed
    raced          \* an event expired while the session was taking it away

vars == <<targets, callbackData, event, delayMutex, mutex, session, timer,
          sent, delivered, cancelled, cleared, corrupted, aborted, raced>>

None == "none"
Idle == [op |-> "idle"]
Clearing == {"reset", "destroy", "stop"}
InCallback == {"expired", "ready", "erase"}

(***************************************************************************)
(* Whether what the session does takes the timer of u away, and whether it *)
(* does so while timerCallback runs for u.                                 *)
(***************************************************************************)
Claims(s, u) ==
    \/ s.op \in {"cancel", "delete"} /\ s.id = SendId[u]
    \/ s.op \in Clearing \cup {"halt", "join", "serialize"}

ClaimsRunning(s) == timer.at \in InCallback /\ Claims(s, timer.uuid)

(***************************************************************************)
(* _isStarted, which stop() and serialize() clear.                         *)
(***************************************************************************)
IsStarted == session.op \notin {"serialize", "stop", "join", "destroyed"}

(***************************************************************************)
(* event_base_loopbreak only reaches a thread that is in event_base_loop:  *)
(* the loop forgets an earlier one when it is entered, and a thread that   *)
(* runs a callback leaves the loop afterwards with or without it.          *)
(***************************************************************************)
Loopbreak == timer' = IF timer.at = "loop" THEN [at |-> "broken"] ELSE timer

Init ==
    /\ targets = {}
    /\ callbackData = {}
    /\ event = [u \in Sends |-> "new"]
    /\ delayMutex = None
    /\ mutex = None
    /\ session = Idle
    /\ timer = [at |-> "test"]
    /\ sent = {}
    /\ delivered = [u \in Sends |-> 0]
    /\ cancelled = {}
    /\ cleared = {}
    /\ corrupted = FALSE
    /\ aborted = FALSE
    /\ raced = FALSE

-----------------------------------------------------------------------------
(* The session's thread. *)

(***************************************************************************)
(* enqueue without a delay: eventReady is called at once.                  *)
(***************************************************************************)
\* Mutant: the send may be executed again.
SendNowAgain(u) ==
    /\ session = Idle
    /\ u \notin sent
    /\ delayMutex = None
    /\ delivered' = [delivered EXCEPT ![u] = @ + 1]
    /\ UNCHANGED <<targets, callbackData, event, delayMutex, mutex, session, timer, sent,
                   cancelled, cleared, corrupted, aborted, raced>>

SendNow(u) ==
    /\ session = Idle
    /\ u \notin sent
    /\ delayMutex = None
    /\ sent' = sent \cup {u}
    /\ delivered' = [delivered EXCEPT ![u] = @ + 1]
    /\ UNCHANGED <<targets, callbackData, event, delayMutex, mutex, session, timer,
                   cancelled, cleared, corrupted, aborted, raced>>

(***************************************************************************)
(* enqueue with a delay, holding _delayMutex while enqueueDelayed waits    *)
(* for _mutex.                                                             *)
(***************************************************************************)
SendDelayed(u) ==
    /\ session = Idle
    /\ u \notin sent
    /\ delayMutex = None
    /\ delayMutex' = "session"
    /\ sent' = sent \cup {u}
    /\ targets' = targets \cup {u}
    /\ session' = [op |-> "enqueue", uuid |-> u]
    /\ UNCHANGED <<callbackData, event, mutex, timer, delivered, cancelled, cleared, corrupted,
                   aborted, raced>>

\* Mutant: _mutex is not released.
EnqueueDelayedHolding ==
    /\ session.op = "enqueue"
    /\ mutex = None
    /\ callbackData' = callbackData \cup {session.uuid}
    /\ event' = [event EXCEPT ![session.uuid] = "pending"]
    /\ delayMutex' = None
    /\ mutex' = "session"
    /\ session' = Idle
    /\ UNCHANGED <<targets, timer, sent, delivered, cancelled, cleared, corrupted, aborted, raced>>

EnqueueDelayed ==
    /\ session.op = "enqueue"
    /\ mutex = None
    /\ callbackData' = callbackData \cup {session.uuid}
    /\ event' = [event EXCEPT ![session.uuid] = "pending"]
    /\ delayMutex' = None
    /\ session' = Idle
    /\ UNCHANGED <<targets, mutex, timer, sent, delivered, cancelled, cleared, corrupted,
                   aborted, raced>>

(***************************************************************************)
(* InterpreterImpl::cancelDelayed: for every send with the id, under       *)
(* _delayMutex, the queue's cancelDelayed under _mutex.                    *)
(***************************************************************************)
Cancel(id) ==
    /\ session = Idle
    /\ delayMutex = None
    /\ delayMutex' = "session"
    /\ session' = [op |-> "cancel", id |-> id]
    /\ raced' = (raced \/ ClaimsRunning(session'))
    /\ UNCHANGED <<targets, callbackData, event, mutex, timer, sent, delivered, cancelled, cleared,
                   corrupted, aborted>>

CancelNext(u) ==
    /\ session.op = "cancel"
    /\ u \in targets
    /\ SendId[u] = session.id
    /\ mutex = None
    /\ \/ /\ u \in callbackData
          /\ mutex' = "session"
          /\ session' = [op |-> "delete", id |-> session.id, uuid |-> u]
          /\ UNCHANGED <<targets, cancelled>>
       \/ /\ u \notin callbackData
          /\ targets' = targets \ {u}
          /\ cancelled' = cancelled \cup {u}
          /\ UNCHANGED <<mutex, session>>
    /\ UNCHANGED <<callbackData, event, delayMutex, timer, sent, delivered, cleared, corrupted,
                   aborted, raced>>

CancelDone ==
    /\ session.op = "cancel"
    /\ \A u \in targets : SendId[u] # session.id
    /\ delayMutex' = None
    /\ session' = Idle
    /\ UNCHANGED <<targets, callbackData, event, mutex, timer, sent, delivered, cancelled, cleared,
                   corrupted, aborted, raced>>

(***************************************************************************)
(* event_del and event_free of an event and the end of its callbackData.   *)
(* event_del waits while the other thread runs the callback of the event.  *)
(* After timerCallback has freed the event both use freed memory.          *)
(***************************************************************************)
DeleteEvent(u) ==
    /\ event[u] # "active"
    /\ corrupted' = (corrupted \/ event[u] = "freed")
    /\ event' = [event EXCEPT ![u] = "freed"]
    /\ callbackData' = callbackData \ {u}

\* Mutant: only the target is forgotten.
CancelDeleteTargetOnly ==
    /\ session.op = "delete"
    /\ mutex' = None
    /\ targets' = targets \ {session.uuid}
    /\ cancelled' = cancelled \cup {session.uuid}
    /\ session' = [op |-> "cancel", id |-> session.id]
    /\ UNCHANGED <<callbackData, event, delayMutex, timer, sent, delivered, cleared, corrupted,
                   aborted, raced>>

CancelDelete ==
    /\ session.op = "delete"
    /\ DeleteEvent(session.uuid)
    /\ mutex' = None
    /\ targets' = targets \ {session.uuid}
    /\ cancelled' = cancelled \cup {session.uuid}
    /\ session' = [op |-> "cancel", id |-> session.id]
    /\ UNCHANGED <<delayMutex, timer, sent, delivered, cleared, aborted, raced>>

(***************************************************************************)
(* cancelAllDelayed under _mutex, for reset() and twice at destruction:    *)
(* in ~InterpreterImpl and in stop().  The targets are not cleared.        *)
(***************************************************************************)
Clear(op) ==
    /\ session = Idle
    /\ mutex = None
    /\ mutex' = "session"
    /\ session' = [op |-> op]
    /\ raced' = (raced \/ ClaimsRunning(session'))
    /\ UNCHANGED <<targets, callbackData, event, delayMutex, timer, sent, delivered, cancelled, cleared,
                   corrupted, aborted>>

ClearNext(u) ==
    /\ session.op \in Clearing
    /\ u \in callbackData
    /\ mutex = "session"
    /\ DeleteEvent(u)
    /\ cleared' = cleared \cup {u}
    /\ UNCHANGED <<targets, delayMutex, mutex, session, timer, sent, delivered, cancelled,
                   aborted, raced>>

\* Mutant: _mutex is not released.
ClearDoneHolding ==
    /\ session.op \in Clearing
    /\ mutex = "session"
    /\ callbackData = {}
    /\ session' = CASE session.op = "reset" -> Idle
                    [] session.op = "destroy" -> [op |-> "halt"]
                    [] session.op = "stop" -> [op |-> "join"]
    /\ UNCHANGED <<targets, callbackData, event, delayMutex, mutex, timer, sent, delivered,
                   cancelled, cleared, corrupted, aborted, raced>>

ClearDone ==
    /\ session.op \in Clearing
    /\ mutex = "session"
    /\ callbackData = {}
    /\ mutex' = None
    /\ session' = CASE session.op = "reset" -> Idle
                    [] session.op = "destroy" -> [op |-> "halt"]
                    [] session.op = "stop" -> [op |-> "join"]
    /\ UNCHANGED <<targets, callbackData, event, delayMutex, timer, sent, delivered, cancelled, cleared,
                   corrupted, aborted, raced>>

(***************************************************************************)
(* stop() clears _isStarted, breaks the loop, goes on to cancelAllDelayed  *)
(* and joins the loop's thread.                                            *)
(***************************************************************************)
Halt ==
    /\ session.op = "halt"
    /\ mutex = None
    /\ mutex' = "session"
    /\ Loopbreak
    /\ session' = [op |-> "stop"]
    /\ UNCHANGED <<targets, callbackData, event, delayMutex, sent, delivered, cancelled, cleared,
                   corrupted, aborted, raced>>

Join ==
    /\ session.op = "join"
    /\ timer.at = "ended"
    /\ session' = [op |-> "destroyed"]
    /\ UNCHANGED <<targets, callbackData, event, delayMutex, mutex, timer, sent, delivered,
                   cancelled, cleared, corrupted, aborted, raced>>

(***************************************************************************)
(* serialize() breaks the loop and joins its thread, while holding _mutex, *)
(* and starts another.                                                     *)
(***************************************************************************)
Serialize ==
    /\ session = Idle
    /\ mutex = None
    /\ mutex' = "session"
    /\ Loopbreak
    /\ session' = [op |-> "serialize"]
    /\ raced' = (raced \/ ClaimsRunning(session'))
    /\ UNCHANGED <<targets, callbackData, event, delayMutex, sent, delivered, cancelled, cleared,
                   corrupted, aborted>>

SerializeDone ==
    /\ session.op = "serialize"
    /\ timer.at = "ended"
    /\ timer' = [at |-> "test"]
    /\ mutex' = None
    /\ session' = Idle
    /\ UNCHANGED <<targets, callbackData, event, delayMutex, sent, delivered, cancelled, cleared,
                   corrupted, aborted, raced>>

-----------------------------------------------------------------------------
(* The loop's thread. *)

(***************************************************************************)
(* run(): the test of _isStarted, the call of event_base_loop, and its     *)
(* return after a loopbreak.  It also returns after a callback.            *)
(***************************************************************************)
LoopThread(from, to) ==
    /\ timer = [at |-> from]
    /\ timer' = [at |-> to]
    /\ UNCHANGED <<targets, callbackData, event, delayMutex, mutex, session, sent, delivered,
                   cancelled, cleared, corrupted, aborted, raced>>

LoopGoesOn == IsStarted /\ LoopThread("test", "enter")

LoopEnds == ~IsStarted /\ LoopThread("test", "ended")

LoopEnter == LoopThread("enter", "loop")

LoopBreaks == LoopThread("broken", "test")

(***************************************************************************)
(* The delay has passed: libevent calls timerCallback.  An event that is   *)
(* due when the loop is broken may be served before the loop returns.      *)
(***************************************************************************)
Expire(u) ==
    /\ timer.at \in {"loop", "broken"}
    /\ event[u] = "pending"
    /\ event' = [event EXCEPT ![u] = "active"]
    /\ timer' = [at |-> "expired", uuid |-> u]
    /\ raced' = (raced \/ Claims(session, u))
    /\ UNCHANGED <<targets, callbackData, delayMutex, mutex, session, sent, delivered, cancelled, cleared,
                   corrupted, aborted>>

(***************************************************************************)
(* The first critical section of timerCallback.  The test whether the      *)
(* callbackData still exists reads it through a pointer into it.           *)
(***************************************************************************)
FreeEvent ==
    /\ timer.at = "expired"
    /\ mutex = None
    /\ corrupted' = (corrupted \/ timer.uuid \notin callbackData)
    /\ IF timer.uuid \in callbackData
       THEN /\ event' = [event EXCEPT ![timer.uuid] = "freed"]
            /\ timer' = [timer EXCEPT !.at = "ready"]
       ELSE /\ timer' = [at |-> "test"]
            /\ UNCHANGED event
    /\ UNCHANGED <<targets, callbackData, delayMutex, mutex, session, sent, delivered, cancelled, cleared,
                   aborted, raced>>

(***************************************************************************)
(* InterpreterImpl::eventReady, and the assertion it starts with.  When    *)
(* stop() is called the map of I/O processors, a member declared after     *)
(* _delayQueue, is destroyed already.                                      *)
(***************************************************************************)
\* Mutant: the target is not looked for.
EventReadyUnchecked ==
    /\ timer.at = "ready"
    /\ delayMutex = None
    /\ targets' = targets \ {timer.uuid}
    /\ delivered' = [delivered EXCEPT ![timer.uuid] = @ + 1]
    /\ timer' = [timer EXCEPT !.at = "erase"]
    /\ UNCHANGED <<callbackData, event, delayMutex, mutex, session, sent, cancelled, cleared,
                   corrupted, aborted, raced>>

EventReady ==
    /\ timer.at = "ready"
    /\ delayMutex = None
    /\ timer.uuid \in targets
    /\ corrupted' = (corrupted \/ timer.uuid \notin callbackData \/ session.op \in {"halt", "stop", "join"})
    /\ targets' = targets \ {timer.uuid}
    /\ delivered' = [delivered EXCEPT ![timer.uuid] = @ + 1]
    /\ timer' = [timer EXCEPT !.at = "erase"]
    /\ UNCHANGED <<callbackData, event, delayMutex, mutex, session, sent, cancelled, cleared,
                   aborted, raced>>

AssertionFails ==
    /\ timer.at = "ready"
    /\ delayMutex = None
    /\ timer.uuid \notin targets
    /\ aborted' = TRUE
    /\ UNCHANGED <<targets, callbackData, event, delayMutex, mutex, session, timer, sent,
                   delivered, cancelled, cleared, corrupted, raced>>

(***************************************************************************)
(* The second critical section of timerCallback.                           *)
(***************************************************************************)
\* Mutant: the callbackData stays.
EraseNothing ==
    /\ timer.at = "erase"
    /\ mutex = None
    /\ timer' = [at |-> "test"]
    /\ UNCHANGED <<targets, callbackData, event, delayMutex, mutex, session, sent, delivered,
                   cancelled, cleared, corrupted, aborted, raced>>

EraseCallback ==
    /\ timer.at = "erase"
    /\ mutex = None
    /\ corrupted' = (corrupted \/ timer.uuid \notin callbackData)
    /\ callbackData' = callbackData \ {timer.uuid}
    /\ timer' = [at |-> "test"]
    /\ UNCHANGED <<targets, event, delayMutex, mutex, session, sent, delivered, cancelled,
                   cleared, aborted, raced>>

-----------------------------------------------------------------------------
SessionStarts ==
    \/ \E u \in Sends : SendNow(u) \/ SendDelayed(u)
    \/ \E id \in SendIds : Cancel(id)
    \/ \E op \in {"reset", "destroy"} : Clear(op)
    \/ Serialize

SessionContinues ==
    \/ EnqueueDelayed
    \/ \E u \in Sends : CancelNext(u) \/ ClearNext(u)
    \/ CancelDelete
    \/ CancelDone
    \/ ClearDone
    \/ Halt
    \/ Join
    \/ SerializeDone

SomeExpire == \E u \in Sends : Expire(u)

TimerThread ==
    \/ LoopGoesOn
    \/ LoopEnds
    \/ LoopEnter
    \/ LoopBreaks
    \/ SomeExpire
    \/ FreeEvent
    \/ EventReady
    \/ AssertionFails
    \/ EraseCallback

Next == ~aborted /\ (SessionStarts \/ SessionContinues \/ TimerThread)

Spec == Init /\ [][Next]_vars

(***************************************************************************)
(* Both threads go on with what they began, and a pending event expires:   *)
(* a session that serializes again and again does not always do so before  *)
(* the new thread has come to the loop, or before the loop has looked at   *)
(* the time.  Nothing obliges the session to send or cancel.               *)
(***************************************************************************)
FairSpec ==
    /\ Spec
    /\ WF_vars(~aborted /\ SessionContinues)
    /\ SF_vars(~aborted /\ TimerThread)
    /\ SF_vars(~aborted /\ LoopGoesOn)
    /\ SF_vars(~aborted /\ SomeExpire)

-----------------------------------------------------------------------------
(* Properties. *)

Ops == [op : {"idle", "reset", "destroy", "halt", "stop", "join", "serialize", "destroyed"}]
         \cup [op : {"enqueue"}, uuid : Sends]
         \cup [op : {"cancel"}, id : SendIds]
         \cup [op : {"delete"}, id : SendIds, uuid : Sends]

(***************************************************************************)
(* Type invariant.  No send is delivered twice.                            *)
(***************************************************************************)
TypeOK ==
    /\ targets \subseteq Sends
    /\ callbackData \subseteq Sends
    /\ event \in [Sends -> {"new", "pending", "active", "freed"}]
    /\ delayMutex \in {None, "session"}
    /\ mutex \in {None, "session"}
    /\ session \in Ops
    /\ timer \in [at : {"test", "enter", "loop", "broken", "ended"}]
                   \cup [at : InCallback, uuid : Sends]
    /\ sent \subseteq Sends
    /\ delivered \in [Sends -> 0 .. 1]
    /\ cancelled \subseteq Sends
    /\ cleared \subseteq Sends
    /\ corrupted \in BOOLEAN
    /\ aborted \in BOOLEAN
    /\ raced \in BOOLEAN

(***************************************************************************)
(* A timer that is still to expire has its callbackData and its target, so *)
(* that timerCallback and eventReady find them (enqueue holds _delayMutex  *)
(* across both insertions, cancelDelayed across both removals).            *)
(***************************************************************************)
TimersHaveTargets ==
    \A u \in Sends : event[u] = "pending" => u \in targets \cap callbackData

(***************************************************************************)
(* The assertion of eventReady: "we only arrive here after the delay       *)
(* already passed!", with the target of the event still known.             *)
(***************************************************************************)
ReadyHasTarget == timer.at = "ready" => timer.uuid \in targets

(***************************************************************************)
(* The assertion only fails when an event expires while the session        *)
(* cancels, clears or serializes it: a <cancel> that is over leaves no     *)
(* timer behind that would look for its target.                            *)
(***************************************************************************)
AssertionFailsOnlyByRace == ~raced => ReadyHasTarget

(***************************************************************************)
(* Only that race makes a thread use an event or a callbackData that the   *)
(* other has freed (timerCallback, cancelDelayed, cancelAllDelayed, and    *)
(* the destructor, which stops the loop last).                             *)
(***************************************************************************)
CorruptedOnlyByRace == corrupted => raced

(***************************************************************************)
(* Once cancelDelayed has removed a send it is not delivered any more, in  *)
(* whatever order <cancel> and the timer get hold of the mutexes.          *)
(***************************************************************************)
CancelEffective ==
    [][\A u \in cancelled : delivered'[u] = delivered[u]]_vars

(***************************************************************************)
(* Every send is delivered in the end, unless it is cancelled or cleared,  *)
(* or a race has left a thread waiting.                                    *)
(***************************************************************************)
EventuallyDelivered ==
    \A u \in Sends : u \in sent ~> (delivered[u] = 1 \/ u \in cancelled \cup cleared \/ raced)

(***************************************************************************)
(* The thread has entered the loop, or is about to, although _isStarted is *)
(* cleared: it tested _isStarted before and the loopbreak came too early.  *)
(***************************************************************************)
LoopbreakLost == ~IsStarted /\ timer.at \in {"enter", "loop"}

(***************************************************************************)
(* An operation of the session waits forever, for a mutex, for a running   *)
(* callback or for the loop's thread to end, in two cases only: an event   *)
(* expired while the session was taking it away, or stop() or serialize()  *)
(* joins a thread that has not seen the loopbreak.                         *)
(***************************************************************************)
OperationsReturn ==
    session # Idle ~> \/ session.op \in {"idle", "destroyed"}
                      \/ raced
                      \/ session.op \in {"join", "serialize"} /\ LoopbreakLost
=============================================================================
