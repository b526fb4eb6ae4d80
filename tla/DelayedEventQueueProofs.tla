----------------------- MODULE DelayedEventQueueProofs -----------------------
(***************************************************************************)
(* Delayed sends, for any number of sends and ids.  The first three        *)
(* theorems hold however the timers race with <cancel>, reset() and the    *)
(* end of the session; the last two are about what only a race can do.     *)
(***************************************************************************)
EXTENDS DelayedEventQueue, TLAPS

(***************************************************************************)
(* Where a send is: not executed and unknown to both maps, or waiting with *)
(* its target, or done with.                                               *)
(***************************************************************************)
SendsOnce ==
    /\ targets \subseteq sent
    /\ callbackData \subseteq sent
    /\ cancelled \subseteq sent \ targets
    /\ \A u \in Sends : u \notin sent => event[u] = "new" /\ delivered[u] = 0
    /\ \A u \in targets : delivered[u] = 0

(***************************************************************************)
(* What a thread that waits in the middle of an operation relies on: the   *)
(* other thread cannot take it away, because of the mutex that is held.    *)
(***************************************************************************)
SessionHasTarget ==
    /\ session.op = "enqueue" => session.uuid \in targets /\ event[session.uuid] = "new"
    /\ session.op = "delete" => /\ session.uuid \in targets \cap callbackData
                                /\ SendId[session.uuid] = session.id
                                /\ mutex = "session"
    /\ session.op \in {"enqueue", "cancel", "delete"} => delayMutex = "session"

TimerExpired ==
    timer.at \in InCallback => event[timer.uuid] \in {"active", "freed"}

DelayInv == TypeOK /\ SendsOnce /\ SessionHasTarget /\ TimerExpired /\ TimersHaveTargets

(***************************************************************************)
(* The invariant holds when the interpreter has just been created.         *)
(***************************************************************************)
LEMMA InitDelay == Init => DelayInv
<1> SUFFICES ASSUME Init PROVE DelayInv
  OBVIOUS
<1>1. TypeOK
  <2>1. delivered \in [Sends -> 0 .. 1]
    BY DEF Init
  <2>2. session \in Ops
    BY DEF Init, Ops, Idle
  <2>3. event \in [Sends -> {"new", "pending", "active", "freed"}]
    BY DEF Init
  <2>4. QED
    BY <2>1, <2>2, <2>3 DEF Init, TypeOK, None
<1>2. SendsOnce
  BY DEF Init, SendsOnce
<1>3. SessionHasTarget /\ TimerExpired /\ TimersHaveTargets
  BY DEF Init, SessionHasTarget, TimerExpired, TimersHaveTargets, Idle, InCallback
<1>4. QED
  BY <1>1, <1>2, <1>3 DEF DelayInv

(***************************************************************************)
(* No operation of the session's thread breaks it.                         *)
(***************************************************************************)
LEMMA SessionKeepsDelay ==
    ASSUME DelayInv, SessionStarts \/ SessionContinues
    PROVE  DelayInv'
<1> USE SendsAssumption DEF DelayInv, TypeOK, SendsOnce, SessionHasTarget, TimerExpired,
        TimersHaveTargets, Ops, Idle, None, InCallback
<1>1. ASSUME NEW u \in Sends, SendNow(u) PROVE DelayInv'
  BY <1>1 DEF SendNow
<1>2. ASSUME NEW u \in Sends, SendDelayed(u) PROVE DelayInv'
  BY <1>2 DEF SendDelayed
<1>3. ASSUME NEW id \in SendIds, Cancel(id) PROVE DelayInv'
  BY <1>3 DEF Cancel
<1>4. ASSUME NEW op \in {"reset", "destroy"}, Clear(op) PROVE DelayInv'
  BY <1>4 DEF Clear
<1>5. CASE Serialize
  BY <1>5 DEF Serialize, Loopbreak
<1>6. CASE EnqueueDelayed
  BY <1>6 DEF EnqueueDelayed
<1>7. ASSUME NEW u \in Sends, CancelNext(u) PROVE DelayInv'
  BY <1>7 DEF CancelNext
<1>8. ASSUME NEW u \in Sends, ClearNext(u) PROVE DelayInv'
  <2>1. corrupted' \in BOOLEAN
    BY <1>8, Zenon DEF ClearNext, DeleteEvent
  <2>2. event' \in [Sends -> {"new", "pending", "active", "freed"}] /\ callbackData' \subseteq Sends
    BY <1>8 DEF ClearNext, DeleteEvent
  <2>3. /\ session.op \in {"reset", "destroy", "stop"}
        /\ u \in callbackData
        /\ event' = [event EXCEPT ![u] = "freed"]
        /\ callbackData' = callbackData \ {u}
        /\ cleared' = cleared \cup {u}
        /\ UNCHANGED <<targets, delayMutex, mutex, session, timer, sent, delivered, cancelled, aborted,
                       raced>>
    BY <1>8 DEF ClearNext, DeleteEvent, Clearing
  <2>4. QED
    BY <2>1, <2>2, <2>3
<1>9. CASE CancelDelete
  <2>1. corrupted' \in BOOLEAN
    BY <1>9, Zenon DEF CancelDelete, DeleteEvent
  <2>2. session.uuid \in Sends /\ session.id \in SendIds
    BY <1>9 DEF CancelDelete
  <2>3. event' \in [Sends -> {"new", "pending", "active", "freed"}] /\ callbackData' \subseteq Sends
    BY <1>9, <2>2 DEF CancelDelete, DeleteEvent
  <2>4. /\ session.op = "delete"
        /\ event' = [event EXCEPT ![session.uuid] = "freed"]
        /\ callbackData' = callbackData \ {session.uuid}
        /\ mutex' = None
        /\ targets' = targets \ {session.uuid}
        /\ cancelled' = cancelled \cup {session.uuid}
        /\ session' = [op |-> "cancel", id |-> session.id]
        /\ UNCHANGED <<delayMutex, timer, sent, delivered, cleared, aborted, raced>>
    BY <1>9 DEF CancelDelete, DeleteEvent
  <2>5. QED
    BY <2>1, <2>2, <2>3, <2>4
<1>10. CASE CancelDone
  BY <1>10 DEF CancelDone
<1>11. CASE ClearDone
  BY <1>11 DEF ClearDone, Clearing
<1>12. CASE Halt
  BY <1>12 DEF Halt, Loopbreak
<1>13. CASE Join
  BY <1>13 DEF Join
<1>14. CASE SerializeDone
  BY <1>14 DEF SerializeDone
<1> QED
  BY <1>1, <1>2, <1>3, <1>4, <1>5, <1>6, <1>7, <1>8, <1>9, <1>10, <1>11, <1>12, <1>13, <1>14
     DEF SessionStarts, SessionContinues

(***************************************************************************)
(* No step of timerCallback breaks it.                                     *)
(***************************************************************************)
LEMMA TimerKeepsDelay ==
    ASSUME DelayInv, TimerThread
    PROVE  DelayInv'
<1> USE SendsAssumption DEF DelayInv, TypeOK, SendsOnce, SessionHasTarget, TimerExpired,
        TimersHaveTargets, Ops, Idle, None, InCallback
<1>1. ASSUME NEW u \in Sends, Expire(u) PROVE DelayInv'
  BY <1>1 DEF Expire
<1>2. CASE FreeEvent
  BY <1>2 DEF FreeEvent
<1>3. CASE EventReady
  BY <1>3 DEF EventReady
<1>4. CASE AssertionFails
  BY <1>4 DEF AssertionFails
<1>5. CASE EraseCallback
  BY <1>5 DEF EraseCallback
<1>6. CASE LoopGoesOn \/ LoopEnds \/ LoopEnter \/ LoopBreaks
  BY <1>6 DEF LoopGoesOn, LoopEnds, LoopEnter, LoopBreaks, LoopThread
<1> QED
  BY <1>1, <1>2, <1>3, <1>4, <1>5, <1>6 DEF TimerThread, SomeExpire

(***************************************************************************)
(* Every reachable state satisfies the invariant.                          *)
(***************************************************************************)
LEMMA DelayAlways == Spec => []DelayInv
<1>1. DelayInv /\ [Next]_vars => DelayInv'
  <2> SUFFICES ASSUME DelayInv, [Next]_vars PROVE DelayInv'
    OBVIOUS
  <2>1. CASE Next
    BY <2>1, SessionKeepsDelay, TimerKeepsDelay DEF Next
  <2>2. CASE UNCHANGED vars
    BY <2>2 DEF vars, DelayInv, TypeOK, SendsOnce, SessionHasTarget, TimerExpired, TimersHaveTargets
  <2>3. QED
    BY <2>1, <2>2
<1>2. QED
  BY InitDelay, <1>1, PTL DEF Spec

(***************************************************************************)
(* No send is delivered twice, and the maps, timers and threads keep their *)
(* types (enqueue, cancelDelayed, timerCallback, eventReady).              *)
(***************************************************************************)
THEOREM DelayTyped == Spec => []TypeOK
  BY DelayAlways, PTL DEF DelayInv

(***************************************************************************)
(* A timer that is still to expire has its target and its callbackData,    *)
(* in whatever order the two threads take _delayMutex and _mutex.          *)
(***************************************************************************)
THEOREM TimersTargeted == Spec => []TimersHaveTargets
  BY DelayAlways, PTL DEF DelayInv

(***************************************************************************)
(* A send that cancelDelayed has removed is not delivered afterwards: only *)
(* eventReady and enqueue deliver, the one for a target that is still      *)
(* known and the other for a send that was never executed.                 *)
(***************************************************************************)
THEOREM CancelSafe == Spec => CancelEffective
<1>1. DelayInv /\ [Next]_vars => [\A u \in cancelled : delivered'[u] = delivered[u]]_vars
  <2> SUFFICES ASSUME DelayInv, Next, NEW u \in cancelled PROVE delivered'[u] = delivered[u]
    BY DEF vars
  <2>1. u \in Sends /\ u \in sent /\ u \notin targets /\ delivered \in [Sends -> 0 .. 1]
    BY DEF DelayInv, TypeOK, SendsOnce
  <2>2. ASSUME NEW v \in Sends, SendNow(v) PROVE delivered'[u] = delivered[u]
    BY <2>1, <2>2 DEF SendNow
  <2>3. CASE EventReady
    <3>1. timer.uuid # u /\ delivered' = [delivered EXCEPT ![timer.uuid] = @ + 1]
      BY <2>1, <2>3 DEF EventReady
    <3>2. QED
      BY <2>1, <3>1
  <2>4. CASE UNCHANGED delivered
    BY <2>4
  <2>5. QED
    BY <2>2, <2>3, <2>4 DEF Next, SessionStarts, SessionContinues, TimerThread, SendDelayed, Cancel,
       Clear, Serialize, EnqueueDelayed, CancelNext, ClearNext, CancelDelete, CancelDone, ClearDone,
       Halt, Join, SerializeDone, LoopGoesOn, LoopEnds, LoopEnter, LoopBreaks, LoopThread, SomeExpire,
       Expire, FreeEvent, AssertionFails, EraseCallback
<1>2. QED
  BY DelayAlways, <1>1, PTL DEF Spec, CancelEffective

(***************************************************************************)
(* Without races: what the session does never takes away the timer whose   *)
(* callback runs, so the callback finds the target and the callbackData,   *)
(* and a timer that was freed is only known to its own callback.           *)
(***************************************************************************)
CalmInv ==
    /\ raced = FALSE
    /\ timer.at \in InCallback => /\ ~Claims(session, timer.uuid)
                                  /\ timer.uuid \in callbackData
                                  /\ timer.at # "erase" => timer.uuid \in targets
    /\ \A u \in callbackData :
          event[u] \in {"active", "freed"} => timer.at \in InCallback /\ timer.uuid = u
    /\ corrupted = FALSE

(***************************************************************************)
(* The steps of the session's thread keep out of the way of the callback.  *)
(***************************************************************************)
LEMMA SessionCalm ==
    ASSUME DelayInv, CalmInv, raced' = FALSE, SessionStarts \/ SessionContinues
    PROVE  CalmInv'
<1> USE SendsAssumption DEF DelayInv, TypeOK, SendsOnce, SessionHasTarget, TimerExpired,
        CalmInv, Claims, ClaimsRunning, Ops, Idle, None, Clearing, InCallback
<1>1. ASSUME NEW u \in Sends, SendNow(u) PROVE CalmInv'
  BY <1>1 DEF SendNow
<1>2. ASSUME NEW u \in Sends, SendDelayed(u) PROVE CalmInv'
  BY <1>2 DEF SendDelayed
<1>3. ASSUME NEW id \in SendIds, Cancel(id) PROVE CalmInv'
  BY <1>3 DEF Cancel
<1>4. ASSUME NEW op \in {"reset", "destroy"}, Clear(op) PROVE CalmInv'
  BY <1>4 DEF Clear
<1>5. CASE Serialize
  BY <1>5 DEF Serialize, Loopbreak
<1>6. CASE EnqueueDelayed
  BY <1>6 DEF EnqueueDelayed
<1>7. ASSUME NEW u \in Sends, CancelNext(u) PROVE CalmInv'
  BY <1>7 DEF CancelNext
<1>8. ASSUME NEW u \in Sends, ClearNext(u) PROVE CalmInv'
  <2>1. event[u] # "freed"
    BY <1>8 DEF ClearNext
  <2>2. corrupted' = FALSE
    BY <1>8, <2>1 DEF ClearNext, DeleteEvent
  <2>3. /\ session.op \in Clearing
        /\ event' = [event EXCEPT ![u] = "freed"]
        /\ callbackData' = callbackData \ {u}
        /\ UNCHANGED <<targets, session, timer>>
    BY <1>8 DEF ClearNext, DeleteEvent
  <2>4. QED
    BY <2>2, <2>3
<1>9. CASE CancelDelete
  <2>1. session.op = "delete" /\ session.uuid \in Sends /\ SendId[session.uuid] = session.id
    BY <1>9 DEF CancelDelete
  <2>2. timer.at \in InCallback => timer.uuid # session.uuid
    BY <2>1
  <2>3. event[session.uuid] # "freed"
    BY <2>1, <2>2
  <2>4. corrupted' = FALSE
    BY <1>9, <2>3 DEF CancelDelete, DeleteEvent
  <2>5. /\ event' = [event EXCEPT ![session.uuid] = "freed"]
        /\ callbackData' = callbackData \ {session.uuid}
        /\ targets' = targets \ {session.uuid}
        /\ session' = [op |-> "cancel", id |-> session.id]
        /\ UNCHANGED timer
    BY <1>9 DEF CancelDelete, DeleteEvent
  <2>6. QED
    BY <2>1, <2>2, <2>4, <2>5
<1>10. CASE CancelDone
  BY <1>10 DEF CancelDone
<1>11. CASE ClearDone
  BY <1>11 DEF ClearDone
<1>12. CASE Halt
  BY <1>12 DEF Halt, Loopbreak
<1>13. CASE Join
  BY <1>13 DEF Join
<1>14. CASE SerializeDone
  BY <1>14 DEF SerializeDone
<1> QED
  BY <1>1, <1>2, <1>3, <1>4, <1>5, <1>6, <1>7, <1>8, <1>9, <1>10, <1>11, <1>12, <1>13, <1>14
     DEF SessionStarts, SessionContinues

(***************************************************************************)
(* The steps of timerCallback find what they look for.                     *)
(***************************************************************************)
LEMMA TimerCalm ==
    ASSUME DelayInv, CalmInv, raced' = FALSE, TimerThread
    PROVE  CalmInv'
<1> USE SendsAssumption DEF DelayInv, TypeOK, SendsOnce, SessionHasTarget, TimerExpired,
        TimersHaveTargets, CalmInv, Claims, Ops, Idle, None, Clearing, InCallback
<1>1. ASSUME NEW u \in Sends, Expire(u) PROVE CalmInv'
  BY <1>1 DEF Expire
<1>2. CASE FreeEvent
  BY <1>2 DEF FreeEvent
<1>3. CASE EventReady
  BY <1>3 DEF EventReady
<1>4. CASE AssertionFails
  BY <1>4 DEF AssertionFails
<1>5. CASE EraseCallback
  BY <1>5 DEF EraseCallback
<1>6. CASE LoopGoesOn \/ LoopEnds \/ LoopEnter \/ LoopBreaks
  BY <1>6 DEF LoopGoesOn, LoopEnds, LoopEnter, LoopBreaks, LoopThread
<1> QED
  BY <1>1, <1>2, <1>3, <1>4, <1>5, <1>6 DEF TimerThread, SomeExpire

(***************************************************************************)
(* A race is never forgotten.                                              *)
(***************************************************************************)
LEMMA RacedStays ==
    ASSUME TypeOK, [Next]_vars, raced' = FALSE
    PROVE  raced = FALSE
  BY Zenon DEF TypeOK, vars, Next, SessionStarts, SessionContinues, TimerThread, SendNow, SendDelayed,
     Cancel, Clear, Serialize, EnqueueDelayed, CancelNext, ClearNext, CancelDelete, CancelDone,
     ClearDone, Halt, Join, SerializeDone, LoopGoesOn, LoopEnds, LoopEnter, LoopBreaks, LoopThread,
     SomeExpire, Expire, FreeEvent, EventReady, AssertionFails, EraseCallback

(***************************************************************************)
(* Every state that is reached without a race satisfies CalmInv.           *)
(***************************************************************************)
LEMMA CalmAlways == Spec => [](raced = FALSE => CalmInv)
<1>1. Init => CalmInv
  BY DEF Init, CalmInv, InCallback
<1>2. DelayInv /\ (raced = FALSE => CalmInv) /\ [Next]_vars => (raced = FALSE => CalmInv)'
  <2> SUFFICES ASSUME DelayInv, raced = FALSE => CalmInv, [Next]_vars, raced' = FALSE PROVE CalmInv'
    OBVIOUS
  <2>1. CalmInv
    BY RacedStays DEF DelayInv
  <2>2. CASE Next
    BY <2>1, <2>2, SessionCalm, TimerCalm DEF Next
  <2>3. CASE UNCHANGED vars
    BY <2>1, <2>3 DEF vars, CalmInv, Claims
  <2>4. QED
    BY <2>2, <2>3
<1>3. QED
  BY DelayAlways, <1>1, <1>2, PTL DEF Spec

(***************************************************************************)
(* As long as no <cancel>, reset() or serialize() meets the callback of    *)
(* what it takes away, eventReady finds its target: its assertion "we only *)
(* arrive here after the delay already passed!" fails through that race    *)
(* alone.                                                                  *)
(***************************************************************************)
THEOREM ReadyWithoutRaces == Spec => []AssertionFailsOnlyByRace
<1>1. TypeOK /\ (raced = FALSE => CalmInv) => AssertionFailsOnlyByRace
  BY DEF TypeOK, CalmInv, AssertionFailsOnlyByRace, ReadyHasTarget, InCallback
<1>2. QED
  BY DelayTyped, CalmAlways, <1>1, PTL

(***************************************************************************)
(* Nor does either thread use an event or a callbackData that was freed    *)
(* (timerCallback, cancelDelayed, cancelAllDelayed) unless they race.      *)
(***************************************************************************)
THEOREM SoundWithoutRaces == Spec => []CorruptedOnlyByRace
<1>1. TypeOK /\ (raced = FALSE => CalmInv) => CorruptedOnlyByRace
  BY DEF TypeOK, CalmInv, CorruptedOnlyByRace
<1>2. QED
  BY DelayTyped, CalmAlways, <1>1, PTL
=============================================================================
