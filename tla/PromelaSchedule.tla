--------------------------- MODULE PromelaSchedule ---------------------------
(***************************************************************************)
(* The Promela program ChartToPromela writes for a chart with delayed      *)
(* events and nested machines: one process per machine, the external       *)
(* queues kept in the order of the events' delays, and the scheduler that  *)
(* lets time pass by handing out process priorities.  The microsteps       *)
(* themselves are those of module GeneratedPromela; here a machine sends,  *)
(* cancels, invokes and finishes as it likes.                              *)
(***************************************************************************)
EXTENDS Naturals, Sequences, FiniteSets, SequencesExt

CONSTANTS
    Root,        \* the machine of the document
    Nested,      \* the machines of its <invoke> elements
    AutoForward, \* those with autoforward
    Delays,      \* the delays of <send>
    SendIds,     \* the ids of <send>
    MaxSends     \* bound: the events sent

ASSUME ScheduleAssumption ==
    /\ Root \notin Nested
    /\ AutoForward \subseteq Nested
    /\ Delays \subseteq Nat
    /\ MaxSends \in Nat

VARIABLES
    eQ,        \* the external queues
    priority,  \* the priorities of the processes
    at,        \* where each process is
    finished,  \* flags[USCXML_CTX_FINISHED]
    final,     \* flags[USCXML_CTX_TOP_LEVEL_FINAL]
    inside,    \* the nested machines whose <invoke> is in an active state of the root
    invoked,   \* invocations of the root
    now,       \* the time that has passed
    sends,     \* the events sent so far
    rotated,   \* a <cancel> has left a queue out of order
    stray      \* an event was sent to a machine that does not run

vars == <<eQ, priority, at, finished, final, inside, invoked, now, sends, rotated, stray>>

Machines == {Root} \cup Nested
NoId == "none"

\* An event as it is queued; due is the time it was meant for, which the program does not keep.
Event(m, delay, sendid) ==
    [delay |-> delay, sendid |-> sendid, origin |-> m,
     invokeid |-> IF m = Root THEN NoId ELSE m, due |-> now + delay]
DoneInvoke(m) ==
    [delay |-> 0, sendid |-> NoId, origin |-> NoId, invokeid |-> m, due |-> now]

Init ==
    /\ eQ = [m \in Machines |-> <<>>]
    /\ priority = [m \in Machines |-> IF m = Root THEN 10 ELSE 0]
    /\ at = [m \in Machines |-> IF m = Root THEN "stepping" ELSE "absent"]
    /\ finished = [m \in Machines |-> FALSE]
    /\ final = [m \in Machines |-> FALSE]
    /\ inside = {}
    /\ invoked = {}
    /\ now = 0
    /\ sends = 0
    /\ rotated = FALSE
    /\ stray = FALSE

-----------------------------------------------------------------------------
(* The inlines over a queue. *)

InOrder(q) == \A i, j \in DOMAIN q : i < j => q[i].delay <= q[j].delay

\* Moves the last event in front of the first one with a larger delay.
InsertWithDelay(q) ==
    LET rest == Front(q)
        e == Last(q)
        i == SelectInSeq(rest, LAMBDA f : f.delay > e.delay)
    IN IF i = 0 THEN q ELSE InsertAt(rest, i, e)

Enqueue(q, e) == InsertWithDelay(Append(q, e))

AdvanceTime(increment, q) ==
    [i \in DOMAIN q |-> IF q[i].delay >= increment
                        THEN [q[i] EXCEPT !.delay = @ - increment] ELSE q[i]]

\* The first n events of q, but those at the places in drop.
Without(q, drop, n) ==
    LET pass[i \in 0 .. n] == IF i = 0 THEN <<>>
                              ELSE IF i \in drop THEN pass[i - 1] ELSE Append(pass[i - 1], q[i])
    IN pass[n]

(***************************************************************************)
(* The loop takes the first event and puts it back at the end unless it is *)
(* cancelled, as long as the number of rounds is smaller than the length   *)
(* of the queue, which shrinks with each event that is cancelled.          *)
(***************************************************************************)
CancelSendIdOnQueue(sendid, source, q) ==
    LET cancelled == {i \in DOMAIN q : q[i].sendid = sendid /\ q[i].origin = source /\ q[i].delay # 0}
        Left(k) == Len(q) - Cardinality(cancelled \cap (1 .. k))
        rounds == CHOOSE k \in 0 .. Len(q) :
                      k >= Left(k) /\ \A j \in 0 .. k - 1 : j < Left(j)
    IN SubSeq(q, rounds + 1, Len(q)) \o Without(q, cancelled, rounds)

RemovePendingEventsFromInvokerOnQueue(invoker, q) ==
    Without(q, {i \in DOMAIN q : q[i].delay # 0 /\ q[i].invokeid = invoker}, Len(q))

-----------------------------------------------------------------------------
(***************************************************************************)
(* Spin runs a process of the highest priority among those that can go on, *)
(* and does not interrupt it within atomic as long as it can go on and no  *)
(* priority has changed.                                                   *)
(***************************************************************************)
Blocked(m) == at[m] = "receiving" /\ eQ[m] = <<>>
CanGoOn(m) == at[m] \notin {"absent", "done"} /\ ~Blocked(m)
Uninterrupted(m) == at[m] \in {"stepping", "terminating"}
Runs(m) ==
    /\ CanGoOn(m)
    /\ Uninterrupted(m) \/ ~\E n \in Machines : Uninterrupted(n)
    /\ \A n \in Machines : CanGoOn(n) => Uninterrupted(m) \/ priority[n] <= priority[m]

(* Executable content. *)

\* The guard in front of every <send>.
MaySend(m) == ~finished[m] \/ final[m]

Send(m, target, delay, sendid) ==
    /\ at[m] = "stepping"
    /\ MaySend(m)
    /\ sends < MaxSends
    /\ sends' = sends + 1
    /\ eQ' = [eQ EXCEPT ![target] = Enqueue(@, Event(m, delay, sendid))]
    /\ stray' = (stray \/ at[target] \in {"absent", "done"})
    /\ UNCHANGED <<priority, at, finished, final, inside, invoked, now, rotated>>

Cancel(m, sendid) ==
    /\ at[m] = "stepping"
    /\ eQ' = [n \in Machines |-> CancelSendIdOnQueue(sendid, m, eQ[n])]
    /\ eQ' # eQ
    /\ rotated' = (rotated \/ \E n \in Machines : ~InOrder(eQ'[n]))
    /\ UNCHANGED <<priority, at, finished, final, inside, invoked, now, sends, stray>>

EnterFinal(m) ==
    /\ at[m] = "stepping"
    /\ ~final[m]
    /\ final' = [final EXCEPT ![m] = TRUE]
    /\ finished' = [finished EXCEPT ![m] = TRUE]
    /\ UNCHANGED <<eQ, priority, at, inside, invoked, now, sends, rotated, stray>>

\* The root enters the state of an <invoke> (once, as a bound) or leaves it.
Enter(n) ==
    /\ at[Root] = "stepping"
    /\ n \notin inside /\ at[n] = "absent"
    /\ inside' = inside \cup {n}
    /\ UNCHANGED <<eQ, priority, at, finished, final, invoked, now, sends, rotated, stray>>

Leave(n) ==
    /\ at[Root] = "stepping"
    /\ n \in inside
    /\ inside' = inside \ {n}
    /\ UNCHANGED <<eQ, priority, at, finished, final, invoked, now, sends, rotated, stray>>

-----------------------------------------------------------------------------
(* The loop of a process. *)

\* Nothing is left to do within the machine: it looks after its invocations.
ManageInvocations(m) ==
    LET run == {n \in inside \ invoked : m = Root}
        stop == {n \in invoked \ inside : m = Root} IN
    /\ at[m] = "stepping"
    /\ ~finished[m]
    /\ finished' = [n \in Machines |-> finished[n] \/ n \in stop]
    /\ at' = [n \in Machines |-> IF n = m THEN "dequeueing"
                                 ELSE IF n \in run THEN "starting" ELSE at[n]]
    /\ priority' = [n \in Machines |-> IF n \in run THEN 20 ELSE priority[n]]
    /\ invoked' = IF m = Root THEN inside ELSE invoked
    /\ UNCHANGED <<eQ, final, inside, now, sends, rotated, stray>>

Start(m) ==
    /\ at[m] = "starting"
    /\ Runs(m)
    /\ at' = [at EXCEPT ![m] = IF finished[m] THEN "terminating" ELSE "stepping"]
    /\ UNCHANGED <<eQ, priority, finished, final, inside, invoked, now, sends, rotated, stray>>

Heads == {Head(eQ[m]).delay : m \in {n \in Machines : eQ[n] # <<>>}}

\* Mutant: time passes up to the last of the first events.
LargestDelay == IF Heads = {} THEN 0 ELSE CHOOSE d \in Heads : \A e \in Heads : d >= e

\* Without an event 2147483647, by which no delay is reduced.
SmallestDelay == IF Heads = {} THEN 0 ELSE CHOOSE d \in Heads : \A e \in Heads : d <= e

\* A machine that comes here, or waits, has no internal events.
RescheduleProcess(m) ==
    IF eQ[m] # <<>> /\ Head(eQ[m]).delay = SmallestDelay THEN 10 ELSE 1

ScheduleMachines(m) ==
    /\ at[m] = "dequeueing"
    /\ Runs(m)
    /\ priority' = [n \in Machines |-> IF at[n] \in {"absent", "starting", "done"}
                                       THEN priority[n] ELSE RescheduleProcess(n)]
    /\ eQ' = [n \in Machines |-> AdvanceTime(SmallestDelay, eQ[n])]
    /\ now' = now + SmallestDelay
    /\ at' = [at EXCEPT ![m] = "scheduled"]
    /\ UNCHANGED <<finished, final, inside, invoked, sends, rotated, stray>>

\* "we may return to find ourselves terminated"
Resume(m) ==
    /\ at[m] = "scheduled"
    /\ Runs(m)
    /\ priority' = [priority EXCEPT ![m] = 10]
    /\ at' = [at EXCEPT ![m] = IF finished[m] THEN "terminating" ELSE "receiving"]
    /\ UNCHANGED <<eQ, finished, final, inside, invoked, now, sends, rotated, stray>>

\* Mutant: an event is forwarded to the end of the queue.
ForwardUnsorted(m, n) ==
    IF m = Root /\ n \in AutoForward \cap invoked THEN Append(eQ[n], Head(eQ[m])) ELSE eQ[n]

Forward(m, n) ==
    IF m = Root /\ n \in AutoForward \cap invoked THEN Enqueue(eQ[n], Head(eQ[m])) ELSE eQ[n]

Receive(m) ==
    /\ at[m] = "receiving"
    /\ eQ[m] # <<>>
    /\ Runs(m)
    /\ eQ' = [n \in Machines |-> IF n = m THEN Tail(eQ[m]) ELSE Forward(m, n)]
    /\ at' = [at EXCEPT ![m] = "stepping"]
    /\ UNCHANGED <<priority, finished, final, inside, invoked, now, sends, rotated, stray>>

TerminateMachine(m) ==
    /\ at[m] = "terminating" \/ (at[m] = "stepping" /\ finished[m])
    /\ finished' = [n \in Machines |-> finished[n] \/ (m = Root /\ n \in invoked)]
    /\ invoked' = IF m = Root THEN {} ELSE invoked
    /\ eQ' = [n \in Machines |->
                LET kept == RemovePendingEventsFromInvokerOnQueue(m, eQ[n])
                IN IF n = Root /\ m # Root /\ final[m]
                   THEN Enqueue(kept, DoneInvoke(m)) ELSE kept]
    /\ at' = [at EXCEPT ![m] = "done"]
    /\ UNCHANGED <<priority, final, inside, now, sends, rotated, stray>>

Next ==
    \/ \E m, t \in Machines : \E d \in Delays : \E id \in SendIds \cup {NoId} : Send(m, t, d, id)
    \/ \E m \in Machines : \E id \in SendIds : Cancel(m, id)
    \/ \E m \in Machines : EnterFinal(m)
    \/ \E n \in Nested : Enter(n)
    \/ \E n \in Nested : Leave(n)
    \/ \E m \in Machines : ManageInvocations(m)
    \/ \E m \in Machines : Start(m)
    \/ \E m \in Machines : ScheduleMachines(m)
    \/ \E m \in Machines : Resume(m)
    \/ \E m \in Machines : Receive(m)
    \/ \E m \in Machines : TerminateMachine(m)

Spec == Init /\ [][Next]_vars

-----------------------------------------------------------------------------
(* Properties. *)

(***************************************************************************)
(* The event a machine receives is due, and no event that was due earlier  *)
(* waits in any queue (scheduleMachines).  Three things make this fail: a  *)
(* <cancel> that rotates a queue, an event for a machine that does not     *)
(* run, whose delay of 0 is the smallest from then on, and the end of a    *)
(* machine, after which no one hands out priorities.                       *)
(***************************************************************************)
ReceivedInTime ==
    [][\A m \in Machines :
        (at[m] = "receiving" /\ at'[m] = "stepping") =>
            \/ rotated \/ stray
            \/ \E n \in Machines : at[n] = "done"
            \/ /\ Head(eQ[m]).due = now
               /\ \A n \in Machines : \A i \in DOMAIN eQ[n] : eQ[n][i].due >= now]_vars

(***************************************************************************)
(* A queue stays in the order of its delays whatever sends, forwards,      *)
(* ends and lets time pass: no event is skipped by advanceTime, which      *)
(* subtracts only from delays that are large enough.  Only a <cancel> can  *)
(* break it (writeInsertWithDelay, "last event in given queue is           *)
(* potentially at wrong position").                                        *)
(***************************************************************************)
QueuesInOrderUnlessRotated == rotated \/ \A m \in Machines : InOrder(eQ[m])
=============================================================================
