--------------------------- MODULE EventQueueProofs ---------------------------
(***************************************************************************)
(* BasicEventQueue implements the queue of module QueueSpec, for any       *)
(* number of senders and events.                                           *)
(***************************************************************************)
EXTENDS EventQueue, TLAPS

(***************************************************************************)
(* The inductive invariant: the interpreter's thread is inside dequeue()   *)
(* exactly while a call is in progress, and the senders count.             *)
(***************************************************************************)
CallInv == call = "none" <=> thread \in {"outside", "finished"}
Inv == EventQueueTypeOK /\ CallInv

LEMMA InitInv == Init => Inv
<1> SUFFICES ASSUME Init PROVE Inv
  OBVIOUS
<1>1. sent \in [Senders -> 0 .. MaxSent]
  BY MaxSentAssumption DEF Init
<1>2. queue \in Seq(Events) /\ returned \in Seq(Events)
  BY DEF Init
<1>3. CallInv
  BY DEF Init, CallInv
<1> QED
  BY <1>1, <1>2, <1>3 DEF Init, Inv, EventQueueTypeOK

LEMMA EnqueueTyped ==
    ASSUME NEW t \in Threads, NEW e \in Events, Inv, Enqueue(t, e)
    PROVE  queue' \in Seq(Events) /\ notifying' \subseteq Threads
  BY DEF Enqueue, Inv, EventQueueTypeOK

(***************************************************************************)
(* Every action keeps the invariant.                                       *)
(***************************************************************************)
LEMMA NextInv == Inv /\ [Next]_vars => Inv'
<1> SUFFICES ASSUME Inv, [Next]_vars PROVE Inv'
  OBVIOUS
<1> USE DEF Inv, CallInv
<1>1. ASSUME NEW s \in Senders, Send(s) PROVE Inv'
  <2>1. <<s, sent[s] + 1>> \in Events
    BY <1>1, MaxSentAssumption DEF Send, Events, EventQueueTypeOK
  <2>2. queue' \in Seq(Events) /\ notifying' \subseteq Threads
    BY <1>1, <2>1, EnqueueTyped DEF Send, Threads
  <2>3. sent' \in [Senders -> 0 .. MaxSent]
    BY <1>1, MaxSentAssumption DEF Send, EventQueueTypeOK
  <2> QED
    BY <1>1, <2>2, <2>3 DEF Send, EventQueueTypeOK
<1>2. ASSUME NEW t \in Threads, Notify(t) PROVE Inv'
  BY <1>2 DEF Notify, NotifyAll, EventQueueTypeOK
<1>3. CASE MarkAsCancelled
  BY <1>3 DEF MarkAsCancelled, EventQueueTypeOK
<1>4. CASE Unblock
  <2>1. queue' \in Seq(Events) /\ notifying' \subseteq Threads
    BY <1>4, EnqueueTyped DEF Unblock, Threads, Events
  <2> QED
    BY <1>4, <2>1 DEF Unblock, EventQueueTypeOK
<1>5. CASE Dequeue
  BY <1>5 DEF Dequeue, EventQueueTypeOK
<1>6. CASE Wait
  BY <1>6 DEF Wait, EventQueueTypeOK
<1>7. CASE Return
  <2>1. queue' \in Seq(Events) /\ returned' \in Seq(Events)
    BY <1>7 DEF Return, EventQueueTypeOK
  <2>2. thread' \in {"outside", "finished"} /\ call' = "none" /\ expired' = FALSE
    BY <1>7 DEF Return
  <2> QED
    BY <1>7, <2>1, <2>2 DEF Return, EventQueueTypeOK
<1>8. CASE TimeOver
  BY <1>8 DEF TimeOver, EventQueueTypeOK
<1>9. CASE WakeAtTimeout
  BY <1>9 DEF WakeAtTimeout, EventQueueTypeOK
<1>10. CASE WakeSpuriously
  BY <1>10 DEF WakeSpuriously, EventQueueTypeOK
<1>11. CASE UNCHANGED vars
  BY <1>11 DEF vars, EventQueueTypeOK
<1> QED
  BY <1>1, <1>2, <1>3, <1>4, <1>5, <1>6, <1>7, <1>8, <1>9, <1>10, <1>11 DEF Next

(***************************************************************************)
(* Every step of the threads is a step of the abstract queue or leaves it  *)
(* as it is.                                                               *)
(***************************************************************************)
LEMMA StepRefined == Inv /\ [Next]_vars => [Abstract!Next]_(Abstract!vars)
<1> SUFFICES ASSUME Inv, [Next]_vars PROVE Abstract!Next \/ UNCHANGED Abstract!vars
  OBVIOUS
<1> USE DEF Inv, CallInv, Abstract!Next
<1>1. ASSUME NEW s \in Senders, Send(s) PROVE Abstract!Put
  <2>1. <<s, sent[s] + 1>> \in Events
    BY <1>1, MaxSentAssumption DEF Send, Events, EventQueueTypeOK
  <2> QED
    BY <1>1, <2>1 DEF Send, Enqueue, Abstract!Put
<1>2. CASE Unblock
  BY <1>2 DEF Unblock, Enqueue, Abstract!Put, Events
<1>3. CASE Dequeue
  BY <1>3 DEF Dequeue, Abstract!Call
<1>4. CASE Return
  <2>1. CASE queue = <<>>
    BY <1>4, <2>1 DEF Return, KeepsWaiting, Abstract!TakeNothing
  <2>2. CASE queue # <<>>
    BY <1>4, <2>2 DEF Return, Abstract!Take
  <2> QED
    BY <2>1, <2>2
<1>5. CASE TimeOver
  BY <1>5 DEF TimeOver, Abstract!TimeOver
<1>6. ASSUME \/ \E t \in Threads : Notify(t)
             \/ MarkAsCancelled \/ Wait \/ WakeAtTimeout \/ WakeSpuriously \/ UNCHANGED vars
      PROVE  UNCHANGED Abstract!vars
  BY <1>6 DEF Notify, MarkAsCancelled, Wait, WakeAtTimeout, WakeSpuriously, vars, Abstract!vars
<1> QED
  BY <1>1, <1>2, <1>3, <1>4, <1>5, <1>6 DEF Next

(***************************************************************************)
(* For any number of senders and events, and whatever the wake-ups,        *)
(* BasicEventQueue hands out events in order and returns without one only  *)
(* if it may.                                                              *)
(***************************************************************************)
THEOREM QueueRefined == Spec => ImplementsQueue
<1>1. Init => Abstract!Init
  BY DEF Init, Abstract!Init
<1> QED
  BY <1>1, InitInv, NextInv, StepRefined, PTL DEF Spec, ImplementsQueue, Abstract!Spec
=============================================================================
