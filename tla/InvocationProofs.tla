--------------------------- MODULE InvocationProofs ---------------------------
(***************************************************************************)
(* The two safety properties of an <invoke>, for any number of invocations *)
(* and events: nothing arrives from an invocation that was ended, and      *)
(* done.invoke means that the child finished on its own.                   *)
(***************************************************************************)
EXTENDS Invocation, TLAPS

-----------------------------------------------------------------------------
(* The inductive invariant. *)

Arrival == [invocation : Nat, kind : {"event", "delayed", "done"}]

TypeInv ==
    /\ invocation \in Nat
    /\ arrived \in Seq(Arrival)
    /\ \A n \in DOMAIN arrived : arrived[n].invocation <= invocation
    /\ ended \subseteq 0 .. invocation
    /\ isActive \in BOOLEAN
    /\ isCancelled \in BOOLEAN
    /\ hasInvokeId \in BOOLEAN
    /\ registered \in BOOLEAN
    /\ isInvoked \in BOOLEAN

\* The child's threads only exist while their invoker is known and its state invoked.
Destroying == {"destroying", "clearing", "halting", "joiningLoop"}
Uninvoking == {"stopping", "marked", "joining"} \cup Destroying
LifeInv ==
    /\ parent # "running" => isInvoked
    /\ parent \in Uninvoking => registered
    /\ registered => isInvoked
    /\ ~registered => thread = "none" /\ loop = "none"
    /\ isInvoked => invocation \notin ended
    /\ parent \in Destroying => thread = "none"

\* A child is only cancelled once its invoker is no longer active.
CancelInv ==
    /\ parent \in Uninvoking => ~isActive
    /\ isCancelled => ~isActive

\* Why the child's thread has left its loop, and when it has reported that.
IsDone(n) == arrived[n].invocation = invocation /\ arrived[n].kind = "done"
ReportInv ==
    /\ thread = "finished" => invocation \in completed \/ isCancelled
    /\ thread = "reporting" => invocation \in completed
    /\ (\E n \in DOMAIN arrived : IsDone(n)) => thread \in {"leaving", "ended", "none"}

Inv == TypeInv /\ LifeInv /\ CancelInv /\ ReportInv /\ DoneMeansCompleted

-----------------------------------------------------------------------------
LEMMA InitInv == Init => Inv
<1> SUFFICES ASSUME Init PROVE Inv
  OBVIOUS
<1>1. arrived \in Seq(Arrival) /\ DOMAIN arrived = {}
  BY DEF Init
<1>2. DoneMeansCompleted /\ ReportInv
  BY <1>1 DEF Init, DoneMeansCompleted, ReportInv
<1>3. TypeInv
  BY <1>1 DEF Init, TypeInv
<1> QED
  BY <1>2, <1>3 DEF Init, Inv, LifeInv, CancelInv, Uninvoking, Destroying

(***************************************************************************)
(* An event that arrives comes last and from the current invocation.       *)
(***************************************************************************)
LEMMA ArriveLast ==
    ASSUME NEW kind \in {"event", "delayed", "done"}, TypeInv, Arrive(kind)
    PROVE  /\ arrived' \in Seq(Arrival)
           /\ Len(arrived') = Len(arrived) + 1
           /\ DOMAIN arrived' = 1 .. Len(arrived) + 1
           /\ \A n \in DOMAIN arrived : arrived'[n] = arrived[n]
           /\ arrived'[Len(arrived) + 1] = [invocation |-> invocation, kind |-> kind]
           /\ DOMAIN arrived = 1 .. Len(arrived) /\ Len(arrived) \in Nat
  BY DEF TypeInv, Arrive, Arrival

(***************************************************************************)
(* It disturbs no earlier done.invoke: a done.invoke only comes from a     *)
(* child that has completed and not reported yet, and after one of the     *)
(* current invocation only delayed sends follow.                           *)
(***************************************************************************)
LEMMA ArriveDone ==
    ASSUME NEW kind \in {"event", "delayed", "done"}, Inv, Arrive(kind),
           UNCHANGED <<invocation, completed>>,
           kind = "done" => invocation \in completed /\ thread = "reporting",
           kind = "event" => thread = "enqueueing"
    PROVE  DoneMeansCompleted'
<1> SUFFICES ASSUME NEW n \in DOMAIN arrived', arrived'[n].kind = "done"
             PROVE  /\ arrived'[n].invocation \in completed
                    /\ \A k \in n + 1 .. Len(arrived') :
                          arrived'[k].invocation = arrived'[n].invocation => arrived'[k].kind = "delayed"
  BY DEF DoneMeansCompleted
<1> DEFINE last == Len(arrived) + 1
<1>1. /\ Len(arrived') = last /\ DOMAIN arrived' = 1 .. last
      /\ \A m \in DOMAIN arrived : arrived'[m] = arrived[m]
      /\ arrived'[last] = [invocation |-> invocation, kind |-> kind]
      /\ DOMAIN arrived = 1 .. Len(arrived) /\ Len(arrived) \in Nat
  BY ArriveLast DEF Inv
<1>2. CASE n = last
  BY <1>1, <1>2
<1>3. CASE n # last
  <2>1. n \in DOMAIN arrived /\ arrived'[n] = arrived[n]
    BY <1>1, <1>3
  <2>2. /\ arrived[n].invocation \in completed
        /\ \A k \in n + 1 .. Len(arrived) :
              arrived[k].invocation = arrived[n].invocation => arrived[k].kind = "delayed"
    BY <2>1 DEF Inv, DoneMeansCompleted
  <2>3. arrived[n].invocation = invocation => thread \in {"leaving", "ended", "none"}
    BY <2>1 DEF Inv, ReportInv, IsDone
  <2>4. arrived[n].invocation = invocation => kind = "delayed"
    BY <2>3
  <2>5. ASSUME NEW k \in n + 1 .. Len(arrived'), arrived'[k].invocation = arrived'[n].invocation
        PROVE  arrived'[k].kind = "delayed"
    <3>1. CASE k = last
      BY <1>1, <2>1, <2>4, <2>5, <3>1
    <3>2. CASE k # last
      <4>1. k \in n + 1 .. Len(arrived) /\ k \in DOMAIN arrived
        BY <1>1, <2>1, <3>2
      <4> QED
        BY <1>1, <2>1, <2>2, <2>5, <4>1
    <3> QED
      BY <3>1, <3>2
  <2> QED
    BY <2>1, <2>2, <2>5
<1> QED
  BY <1>2, <1>3

(***************************************************************************)
(* The parts of the invariant after an arrival.                            *)
(***************************************************************************)
LEMMA ArriveInv ==
    ASSUME NEW kind \in {"event", "delayed", "done"}, Inv, Arrive(kind),
           UNCHANGED <<parentVars, parent, isActive, isCancelled, completed, ended>>,
           kind = "done" => invocation \in completed /\ thread = "reporting" /\ thread' = "leaving",
           kind = "event" => thread = "enqueueing" /\ thread' = "waiting",
           kind = "delayed" => thread' = thread /\ loop = "sending" /\ loop' = "erase",
           kind # "delayed" => loop' = loop
    PROVE  Inv'
<1>1. /\ arrived' \in Seq(Arrival)
      /\ Len(arrived') = Len(arrived) + 1
      /\ DOMAIN arrived' = 1 .. Len(arrived) + 1
      /\ \A n \in DOMAIN arrived : arrived'[n] = arrived[n]
      /\ arrived'[Len(arrived) + 1] = [invocation |-> invocation, kind |-> kind]
      /\ DOMAIN arrived = 1 .. Len(arrived) /\ Len(arrived) \in Nat
  BY ArriveLast DEF Inv
<1>2. TypeInv'
  BY <1>1 DEF Inv, TypeInv, parentVars
<1>3. LifeInv'
  BY DEF Inv, LifeInv, parentVars
<1>4. CancelInv'
  BY DEF Inv, CancelInv
<1>5. ReportInv'
  <2>1. ASSUME NEW n \in DOMAIN arrived', IsDone(n)'
        PROVE  thread' \in {"leaving", "ended", "none"}
    <3>1. CASE n \in DOMAIN arrived
      BY <1>1, <2>1, <3>1 DEF Inv, ReportInv, IsDone, parentVars
    <3>2. CASE n = Len(arrived) + 1
      BY <1>1, <2>1, <3>2 DEF IsDone
    <3> QED
      BY <1>1, <3>1, <3>2
  <2> QED
    BY <2>1 DEF Inv, ReportInv, parentVars
<1>6. DoneMeansCompleted'
  BY ArriveDone DEF parentVars
<1> QED
  BY <1>2, <1>3, <1>4, <1>5, <1>6 DEF Inv

(***************************************************************************)
(* Entering the state: its new invocation has not reported anything.       *)
(***************************************************************************)
LEMMA EnteringInv ==
    ASSUME Inv, Entering, UNCHANGED <<arrived, completed, ended>>
    PROVE  /\ invocation' \in Nat /\ invocation' \notin ended'
           /\ \A n \in DOMAIN arrived' : arrived'[n].invocation <= invocation' /\ ~IsDone(n)'
           /\ ended' \subseteq 0 .. invocation'
           /\ DoneMeansCompleted'
<1>1. /\ invocation \in Nat /\ ended \subseteq 0 .. invocation
      /\ \A n \in DOMAIN arrived : arrived[n].invocation \in Nat /\ arrived[n].invocation <= invocation
  <2>1. \A n \in DOMAIN arrived : arrived[n] \in Arrival
    BY DEF Inv, TypeInv
  <2> QED
    BY <2>1 DEF Inv, TypeInv, Arrival
<1> QED
  BY <1>1 DEF Entering, Inv, IsDone, DoneMeansCompleted

LEMMA NextInv == Inv /\ [Next]_vars => Inv'
<1> SUFFICES ASSUME Inv, [Next]_vars PROVE Inv'
  OBVIOUS
<1>0. ended \cup {invocation} \subseteq 0 .. invocation
  <2>1. invocation \in Nat /\ ended \subseteq 0 .. invocation
    BY DEF Inv, TypeInv
  <2>2. invocation \in 0 .. invocation
    BY <2>1
  <2> QED
    BY <2>1, <2>2, Zenon
<1> USE DEF Inv, TypeInv, LifeInv, CancelInv, ReportInv, IsDone, Uninvoking, Destroying
<1>1. CASE InvokeFails
  BY <1>1, EnteringInv DEF InvokeFails, Entering
<1>2. CASE InvokeWithoutSource
  BY <1>2, EnteringInv DEF InvokeWithoutSource, Entering
<1>3. CASE Invoke
  BY <1>3, EnteringInv DEF Invoke, Entering
<1>4. CASE EnqueueAtInvoker
  BY <1>4 DEF EnqueueAtInvoker, parentVars, DoneMeansCompleted
<1>5. CASE DequeueExternal
  BY <1>5 DEF DequeueExternal, parentVars, DoneMeansCompleted
<1>6. CASE Uninvoke
  BY <1>6 DEF Uninvoke, parentVars, DoneMeansCompleted
<1>7. CASE UninvokeAsserts
  BY <1>7 DEF UninvokeAsserts, parentVars, DoneMeansCompleted
<1>8. CASE UninvokeNothing
  BY <1>0, <1>8 DEF UninvokeNothing, DoneMeansCompleted
<1>9. CASE Stop
  <2>1. CASE StopMark
    BY <2>1 DEF StopMark, parentVars, DoneMeansCompleted
  <2>2. CASE StopUnblock
    BY <2>2 DEF StopUnblock, parentVars, DoneMeansCompleted
  <2>3. CASE Join
    BY <2>3 DEF Join, parentVars, DoneMeansCompleted
  <2>4. CASE DestroyChild
    BY <2>4 DEF DestroyChild, parentVars, DoneMeansCompleted
  <2>5. CASE CancelAllDelayed
    BY <2>5 DEF CancelAllDelayed, parentVars, DoneMeansCompleted
  <2>6. CASE StopLoop
    BY <2>6 DEF StopLoop, parentVars, DoneMeansCompleted
  <2>7. CASE Destroy
    BY <1>0, <2>7 DEF Destroy, DoneMeansCompleted
  <2> QED
    BY <1>9, <2>1, <2>2, <2>3, <2>4, <2>5, <2>6, <2>7 DEF Stop
<1>10. CASE Child
  <2>1. CASE ChildEnter
    BY <2>1 DEF ChildEnter, Microstep, parentVars, DoneMeansCompleted
  <2>2. CASE ChildReceive
    BY <2>2 DEF ChildReceive, Microstep, parentVars, DoneMeansCompleted
  <2>3. CASE ChildUnblocked
    BY <2>3 DEF ChildUnblocked, parentVars, DoneMeansCompleted
  <2>4. CASE ChildSendTest
    BY <2>4 DEF ChildSendTest, parentVars, DoneMeansCompleted
  <2>5. CASE ChildSend
    BY <2>5, ArriveInv DEF ChildSend
  <2>6. CASE RunFinished
    BY <2>6 DEF RunFinished, parentVars, DoneMeansCompleted
  <2>7. CASE RunReport
    BY <2>7, ArriveInv DEF RunReport
  <2>8. CASE RunLeave
    BY <2>8 DEF RunLeave, parentVars, DoneMeansCompleted
  <2> QED
    BY <1>10, <2>1, <2>2, <2>3, <2>4, <2>5, <2>6, <2>7, <2>8 DEF Child
<1>11. CASE Loop
  <2>1. CASE LoopTest
    BY <2>1 DEF LoopTest, parentVars, DoneMeansCompleted
  <2>2. CASE LoopEnter
    BY <2>2 DEF LoopEnter, parentVars, DoneMeansCompleted
  <2>3. CASE TimerFree
    BY <2>3 DEF TimerFree, parentVars, DoneMeansCompleted
  <2>4. CASE TimerTest
    BY <2>4 DEF TimerTest, parentVars, DoneMeansCompleted
  <2>5. CASE TimerSend
    BY <2>5, ArriveInv DEF TimerSend
  <2>6. CASE TimerErase
    BY <2>6 DEF TimerErase, parentVars, DoneMeansCompleted
  <2> QED
    BY <1>11, <2>1, <2>2, <2>3, <2>4, <2>5, <2>6 DEF Loop
<1>12. CASE TimerExpire
  BY <1>12 DEF TimerExpire, parentVars, DoneMeansCompleted
<1>13. CASE UNCHANGED vars
  BY <1>13 DEF vars, parentVars, DoneMeansCompleted
<1> QED
  BY <1>1, <1>2, <1>3, <1>4, <1>5, <1>6, <1>7, <1>8, <1>9, <1>10, <1>11, <1>12, <1>13 DEF Next

-----------------------------------------------------------------------------
(***************************************************************************)
(* For any number of invocations and events and however the threads        *)
(* interleave, done.invoke means that the child finished on its own.       *)
(***************************************************************************)
THEOREM DoneCompleted == Spec => []DoneMeansCompleted
  BY InitInv, NextInv, PTL DEF Spec, Inv

(***************************************************************************)
(* Only a child's thread or that of its delayed queue sends to the parent, *)
(* and neither exists once its invocation has ended.                       *)
(***************************************************************************)
LEMMA ArrivesInTime ==
    ASSUME Inv, [Next]_vars, arrived' # arrived
    PROVE  arrived'[Len(arrived')].invocation \notin ended
<1>1. /\ \E kind \in {"event", "delayed", "done"} : Arrive(kind)
      /\ thread # "none" \/ loop # "none"
  BY DEF Next, vars, parentVars, InvokeFails, InvokeWithoutSource, Invoke, EnqueueAtInvoker,
     DequeueExternal, Uninvoke, UninvokeAsserts, UninvokeNothing, Stop, StopMark, StopUnblock, Join,
     DestroyChild, CancelAllDelayed, StopLoop, Destroy, Child, ChildEnter, ChildReceive, ChildUnblocked,
     ChildSendTest, ChildSend, RunFinished, RunReport, RunLeave, Loop, LoopTest, LoopEnter, TimerExpire,
     TimerFree, TimerTest, TimerSend, TimerErase
<1>2. PICK kind \in {"event", "delayed", "done"} : Arrive(kind)
  BY <1>1
<1>3. arrived'[Len(arrived')].invocation = invocation
  BY <1>2, ArriveLast DEF Inv
<1> QED
  BY <1>1, <1>3 DEF Inv, LifeInv, TypeInv

(***************************************************************************)
(* Once uninvoke() has returned, nothing arrives from that invocation,     *)
(* whatever its threads were doing.                                        *)
(***************************************************************************)
THEOREM UninvokedSilent == Spec => NothingAfterUninvoke
<1>1. Inv /\ [Next]_vars => [arrived' # arrived => arrived'[Len(arrived')].invocation \notin ended]_vars
  BY ArrivesInTime
<1> QED
  BY <1>1, InitInv, NextInv, PTL DEF Spec, NothingAfterUninvoke
=============================================================================
