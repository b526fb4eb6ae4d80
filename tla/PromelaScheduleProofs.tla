------------------------ MODULE PromelaScheduleProofs ------------------------
(***************************************************************************)
(* For any number of nested machines, any delays and any number of sends:  *)
(* the external queues of the generated Promela program stay in the order  *)
(* of their delays unless a <cancel> rotates one, and a machine receives   *)
(* an event when it is due.                                                *)
(***************************************************************************)
EXTENDS PromelaSchedule, Induction, FiniteSetTheorems, SequenceTheorems

Events == [delay : Nat, sendid : SendIds \cup {NoId}, origin : Machines \cup {NoId},
           invokeid : Machines \cup {NoId}, due : Nat]
Places == {"absent", "starting", "stepping", "dequeueing", "scheduled", "receiving",
           "terminating", "done"}

TypeOK ==
    /\ eQ \in [Machines -> Seq(Events)]
    /\ priority \in [Machines -> Nat]
    /\ at \in [Machines -> Places]
    /\ inside \subseteq Nested
    /\ invoked \subseteq Nested
    /\ now \in Nat

\* A machine runs once it is invoked; what is not is started when the root gets there.
InvokedRun ==
    /\ \A n \in invoked : at[n] # "absent"
    /\ at[Root] = "done" \/ \A n \in inside \ invoked : at[n] = "absent"

-----------------------------------------------------------------------------
(* The invariant of the schedule, as long as nothing has gone wrong. *)

HeadDue(q) == q # <<>> /\ Head(q).delay = 0
AllEmpty == \A n \in Machines : eQ[n] = <<>>

Clean == ~rotated /\ ~stray /\ \A n \in Machines : at[n] # "done"

\* The delay of an event is the time left until it is due.
DelaysExact == \A n \in Machines : \A e \in Range(eQ[n]) : e.due = now + e.delay

AbsentEmpty == \A n \in Machines : at[n] = "absent" => eQ[n] = <<>>

Priorities ==
    \A n \in Machines :
        /\ at[n] = "starting" => priority[n] = 20
        /\ at[n] = "stepping" => priority[n] >= 10
        /\ at[n] = "receiving" /\ eQ[n] # <<>> => priority[n] = 10
        /\ at[n] = "scheduled" => priority[n] \in {1, 10}

\* Who was given priority by the scheduler has an event to receive.
ScheduledDue == \A n \in Machines : at[n] = "scheduled" /\ priority[n] = 10 => HeadDue(eQ[n])

\* As long as there are events a machine with priority keeps the others from going on.
SomeoneGoesOn == AllEmpty \/ \E k \in Machines : CanGoOn(k) /\ priority[k] >= 10

\* Who waits for an event has one that is due, or there is none and no one who could send one.
ReceivingDue ==
    \A m \in Machines : at[m] = "receiving" =>
        \/ HeadDue(eQ[m])
        \/ AllEmpty /\ \A n \in Machines : at[n] \notin {"stepping", "starting"}

Timely ==
    /\ DelaysExact
    /\ AbsentEmpty
    /\ Priorities
    /\ ScheduledDue
    /\ SomeoneGoesOn
    /\ ReceivingDue

ScheduleInv ==
    /\ TypeOK
    /\ InvokedRun
    /\ QueuesInOrderUnlessRotated
    /\ Clean => Timely

-----------------------------------------------------------------------------
(* The queues. *)

(***************************************************************************)
(* An event is queued behind those that are due no later and in front of   *)
(* the first one that is due later.                                        *)
(***************************************************************************)
EnqueuedAt(i, p, q, e) ==
    /\ i \in 1 .. Len(q) + 1
    /\ Len(p) = Len(q) + 1
    /\ \A j \in 1 .. Len(q) + 1 : p[j] = IF j < i THEN q[j] ELSE IF j = i THEN e ELSE q[j - 1]
    /\ \A j \in 1 .. i - 1 : q[j].delay <= e.delay
    /\ i <= Len(q) => q[i].delay > e.delay

LEMMA EnqueuePlace ==
    ASSUME NEW q \in Seq(Events), NEW e \in Events
    PROVE  Enqueue(q, e) \in Seq(Events) /\ \E i : EnqueuedAt(i, Enqueue(q, e), q, e)
<1> DEFINE a == Append(q, e)
           I == {k \in 1 .. Len(q) : q[k].delay > e.delay}
           i == IF I # {} THEN Min(I) ELSE 0
<1>1. /\ a \in Seq(Events) /\ Len(a) = Len(q) + 1 /\ a[Len(q) + 1] = e
      /\ \A j \in 1 .. Len(q) : a[j] = q[j]
      /\ Len(q) \in Nat /\ \A j \in 1 .. Len(q) : q[j] \in Events
  OBVIOUS
<1>2. Front(a) = q /\ Last(a) = e
  <2>1. Front(a) \in Seq(Events) /\ Len(Front(a)) = Len(q) /\ \A j \in 1 .. Len(q) : Front(a)[j] = q[j]
    BY <1>1 DEF Front
  <2>2. QED
    BY <1>1, <2>1, SeqEqual DEF Last
<1> HIDE DEF a
<1>3. Enqueue(q, e) = IF i = 0 THEN a ELSE InsertAt(q, i, e)
  BY <1>2 DEF Enqueue, InsertWithDelay, SelectInSeq, a
<1>4. CASE I = {}
  <2>1. Enqueue(q, e) = a
    BY <1>3, <1>4
  <2>2. \A j \in 1 .. Len(q) : q[j].delay <= e.delay
    <3>1. ASSUME NEW j \in 1 .. Len(q)
          PROVE  q[j].delay <= e.delay
      <4>1. q[j].delay \in Nat /\ e.delay \in Nat
        BY <1>1 DEF Events
      <4>2. ~(q[j].delay > e.delay)
        BY <1>4
      <4>3. QED
        BY <4>1, <4>2
    <3>2. QED
      BY <3>1
  <2>3. EnqueuedAt(Len(q) + 1, a, q, e)
    BY <1>1, <2>2 DEF EnqueuedAt
  <2>4. QED
    BY <1>1, <2>1, <2>3
<1>5. CASE I # {}
  <2>1. i \in I /\ \A k \in I : i <= k
    <3>1. I \in SUBSET Nat
      OBVIOUS
    <3>2. \E m \in I : \A k \in I : m <= k
      BY <1>5, <3>1, LeastElement
    <3> HIDE DEF I
    <3>3. Min(I) \in I /\ \A k \in I : Min(I) <= k
      BY <3>2 DEF Min
    <3>4. QED
      BY <1>5, <3>3
  <2> HIDE DEF i
  <2>2. i \in 1 .. Len(q) /\ q[i].delay > e.delay
    BY <2>1
  <2>3. \A j \in 1 .. i - 1 : q[j].delay <= e.delay
    <3>1. ASSUME NEW j \in 1 .. i - 1
          PROVE  q[j].delay <= e.delay
      <4>1. j \in 1 .. Len(q) /\ j \notin I
        BY <1>1, <2>1, <2>2
      <4>2. q[j].delay \in Nat /\ e.delay \in Nat
        BY <1>1, <4>1 DEF Events
      <4>3. QED
        BY <4>1, <4>2
    <3>2. QED
      BY <3>1
  <2>4. Enqueue(q, e) = InsertAt(q, i, e)
    BY <1>3, <2>2
  <2> DEFINE l == SubSeq(q, 1, i - 1)
             r == SubSeq(q, i, Len(q))
             p == InsertAt(q, i, e)
  <2>5. /\ l \in Seq(Events) /\ Len(l) = i - 1 /\ \A j \in 1 .. i - 1 : l[j] = q[j]
        /\ r \in Seq(Events) /\ Len(r) = Len(q) - i + 1
        /\ \A j \in 1 .. Len(q) - i + 1 : r[j] = q[i + j - 1]
    BY <1>1, <2>2
  <2>6. p = l \o <<e>> \o r
    BY DEF InsertAt
  <2> HIDE DEF l, r, p
  <2>7. /\ p \in Seq(Events) /\ Len(p) = Len(q) + 1
        /\ \A j \in 1 .. Len(q) + 1 : p[j] = IF j < i THEN l[j] ELSE IF j = i THEN e ELSE r[j - i]
    <3> DEFINE m == l \o <<e>>
    <3>1. /\ m \in Seq(Events) /\ Len(m) = i /\ m[i] = e
          /\ \A j \in 1 .. i - 1 : m[j] = l[j]
      BY <1>1, <2>2, <2>5
    <3> HIDE DEF m
    <3>2. p = m \o r
      BY <2>6 DEF m
    <3>3. /\ p \in Seq(Events) /\ Len(p) = Len(m) + Len(r)
          /\ \A j \in 1 .. Len(m) + Len(r) : p[j] = IF j <= Len(m) THEN m[j] ELSE r[j - Len(m)]
      BY <2>5, <3>1, <3>2, ConcatProperties
    <3>4. Len(m) + Len(r) = Len(q) + 1
      BY <1>1, <2>2, <2>5, <3>1
    <3>5. \A j \in 1 .. Len(q) + 1 : p[j] = IF j <= i THEN m[j] ELSE r[j - i]
      BY <3>1, <3>3, <3>4
    <3>6. QED
      BY <1>1, <2>2, <3>1, <3>3, <3>4, <3>5
  <2>8. \A j \in 1 .. Len(q) + 1 : p[j] = IF j < i THEN q[j] ELSE IF j = i THEN e ELSE q[j - 1]
    <3>1. ASSUME NEW j \in 1 .. Len(q) + 1, j > i
          PROVE  r[j - i] = q[j - 1]
      <4>1. j - i \in 1 .. Len(q) - i + 1 /\ i + (j - i) - 1 = j - 1
        BY <1>1, <2>2, <3>1
      <4>2. QED
        BY <2>5, <4>1
    <3>2. ASSUME NEW j \in 1 .. Len(q) + 1, j < i
          PROVE  l[j] = q[j]
      BY <2>2, <2>5, <3>2
    <3>3. ASSUME NEW j \in 1 .. Len(q) + 1
          PROVE  p[j] = IF j < i THEN q[j] ELSE IF j = i THEN e ELSE q[j - 1]
      <4>1. j < i \/ j = i \/ j > i
        BY <2>2
      <4>2. p[j] = IF j < i THEN l[j] ELSE IF j = i THEN e ELSE r[j - i]
        BY <2>7
      <4>3. QED
        BY <2>2, <4>1, <4>2, <3>1, <3>2
    <3>4. QED
      BY <3>3
  <2>9. EnqueuedAt(i, p, q, e)
    BY <1>1, <2>2, <2>3, <2>7, <2>8 DEF EnqueuedAt
  <2>10. QED
    BY <2>4, <2>7, <2>9 DEF p
<1>6. QED
  BY <1>4, <1>5

(***************************************************************************)
(* An event that is queued joins those of the queue, and an ordered queue  *)
(* stays in order.                                                         *)
(***************************************************************************)
LEMMA EnqueueKeeps ==
    ASSUME NEW q \in Seq(Events), NEW e \in Events
    PROVE  /\ Enqueue(q, e) \in Seq(Events)
           /\ Enqueue(q, e) # <<>>
           /\ Range(Enqueue(q, e)) = Range(q) \cup {e}
           /\ InOrder(q) => InOrder(Enqueue(q, e))
<1> DEFINE p == Enqueue(q, e)
<1>1. PICK i : EnqueuedAt(i, p, q, e)
  BY EnqueuePlace
<1>2. p \in Seq(Events)
  BY EnqueuePlace
<1> HIDE DEF p
<1>3. /\ Len(q) \in Nat /\ DOMAIN q = 1 .. Len(q) /\ DOMAIN p = 1 .. Len(q) + 1
      /\ i \in 1 .. Len(q) + 1 /\ p[i] = e
      /\ \A j \in DOMAIN q : q[j].delay \in Nat
      /\ e.delay \in Nat
  <2>1. /\ Len(q) \in Nat /\ DOMAIN q = 1 .. Len(q) /\ DOMAIN p = 1 .. Len(p)
        /\ \A j \in DOMAIN q : q[j] \in Events
    BY <1>2
  <2>2. /\ i \in 1 .. Len(q) + 1 /\ Len(p) = Len(q) + 1
        /\ p[i] = IF i < i THEN q[i] ELSE IF i = i THEN e ELSE q[i - 1]
    BY <1>1 DEF EnqueuedAt
  <2>3. \A x \in Events : x.delay \in Nat
    BY DEF Events
  <2>4. QED
    BY <2>1, <2>2, <2>3
<1>4. \A j \in 1 .. Len(q) + 1 : p[j] = IF j < i THEN q[j] ELSE IF j = i THEN e ELSE q[j - 1]
  BY <1>1 DEF EnqueuedAt
<1>5. Range(p) = Range(q) \cup {e}
  <2>1. ASSUME NEW x \in Range(p)
        PROVE  x \in Range(q) \cup {e}
    <3>1. PICK j \in 1 .. Len(q) + 1 : x = p[j]
      BY <1>3 DEF Range
    <3>2. j < i => j \in DOMAIN q
      BY <1>3
    <3>3. j > i => j - 1 \in DOMAIN q
      BY <1>3
    <3>4. j < i \/ j = i \/ j > i
      BY <1>3
    <3>5. p[j] = IF j < i THEN q[j] ELSE IF j = i THEN e ELSE q[j - 1]
      BY <1>4
    <3>6. p[j] = e \/ \E k \in DOMAIN q : p[j] = q[k]
      BY <1>3, <3>2, <3>3, <3>4, <3>5
    <3>7. QED
      BY <3>1, <3>6 DEF Range
  <2>2. ASSUME NEW x \in Range(q)
        PROVE  x \in Range(p)
    <3>1. PICK j \in DOMAIN q : x = q[j]
      BY DEF Range
    <3>2. j < i => p[j] = q[j] /\ j \in DOMAIN p
      BY <1>3, <1>4
    <3>3. j >= i => p[j + 1] = q[j] /\ j + 1 \in DOMAIN p
      <4>1. j >= i => j + 1 \in 1 .. Len(q) + 1 /\ j + 1 > i /\ (j + 1) - 1 = j
        BY <1>3
      <4>2. QED
        BY <1>3, <1>4, <4>1
    <3>4. QED
      BY <1>3, <3>1, <3>2, <3>3 DEF Range
  <2>3. e \in Range(p)
    BY <1>3 DEF Range
  <2>4. QED
    BY <2>1, <2>2, <2>3
<1>6. ASSUME InOrder(q)
      PROVE  InOrder(p)
  <2> SUFFICES ASSUME NEW j \in DOMAIN p, NEW k \in DOMAIN p, j < k
               PROVE  p[j].delay <= p[k].delay
    BY DEF InOrder
  <2>1. \A a, b \in 1 .. Len(q) : a < b => q[a].delay <= q[b].delay
    BY <1>3, <1>6 DEF InOrder
  <2>2. \A a \in 1 .. Len(q) : a < i => q[a].delay <= e.delay
    BY <1>1, <1>3 DEF EnqueuedAt
  <2>3. \A a \in 1 .. Len(q) : a >= i => q[a].delay >= e.delay
    <3>1. ASSUME NEW a \in 1 .. Len(q), a >= i
          PROVE  q[a].delay >= e.delay
      <4>1. i \in 1 .. Len(q) /\ q[i].delay > e.delay
        BY <1>1, <1>3, <3>1 DEF EnqueuedAt
      <4>2. a = i \/ q[i].delay <= q[a].delay
        BY <2>1, <3>1, <4>1
      <4>3. QED
        BY <1>3, <4>1, <4>2
    <3>2. QED
      BY <3>1
  <2>4. CASE k < i
    <3>1. j \in 1 .. Len(q) /\ k \in 1 .. Len(q) /\ p[j] = q[j] /\ p[k] = q[k]
      BY <1>3, <1>4, <2>4
    <3>2. QED
      BY <2>1, <3>1
  <2>5. CASE k = i
    <3>1. j \in 1 .. Len(q) /\ p[j] = q[j] /\ p[k] = e /\ j < i
      BY <1>3, <1>4, <2>5
    <3>2. QED
      BY <2>2, <3>1
  <2>6. CASE k > i
    <3>1. k - 1 \in 1 .. Len(q) /\ p[k] = q[k - 1] /\ k - 1 >= i
      BY <1>3, <1>4, <2>6
    <3>2. CASE j < i
      <4>1. j \in 1 .. Len(q) /\ p[j] = q[j] /\ j < k - 1
        BY <1>3, <1>4, <2>6, <3>2
      <4>2. QED
        BY <2>1, <3>1, <4>1
    <3>3. CASE j = i
      <4>1. p[j] = e
        BY <1>3, <3>3
      <4>2. q[k - 1].delay >= e.delay
        BY <2>3, <3>1
      <4>3. QED
        BY <1>3, <3>1, <4>1, <4>2
    <3>4. CASE j > i
      <4>1. j - 1 \in 1 .. Len(q) /\ p[j] = q[j - 1] /\ j - 1 < k - 1
        BY <1>3, <1>4, <3>4
      <4>2. QED
        BY <2>1, <3>1, <4>1
    <3>5. QED
      BY <1>3, <3>2, <3>3, <3>4
  <2>7. QED
    BY <1>3, <2>4, <2>5, <2>6
<1>7. p # <<>>
  BY <1>3
<1>8. QED
  BY <1>2, <1>5, <1>6, <1>7 DEF p

(***************************************************************************)
(* An event of an ordered queue whose delay is over is at its head.        *)
(***************************************************************************)
LEMMA DueAtHead ==
    ASSUME NEW q \in Seq(Events), InOrder(q), NEW e \in Range(q), e.delay = 0
    PROVE  HeadDue(q)
<1>1. PICK i \in DOMAIN q : e = q[i]
  BY DEF Range
<1>2. DOMAIN q = 1 .. Len(q) /\ Len(q) \in Nat /\ \A j \in 1 .. Len(q) : q[j] \in Events
  OBVIOUS
<1>3. 1 \in DOMAIN q /\ q # <<>> /\ Head(q) = q[1]
  BY <1>1, <1>2
<1>4. q[1].delay <= q[i].delay
  <2>1. CASE i = 1
    BY <1>2, <1>3, <2>1 DEF Events
  <2>2. CASE 1 < i
    BY <1>1, <1>3, <2>2 DEF InOrder
  <2>3. QED
    BY <1>1, <1>2, <2>1, <2>2
<1>5. q[1].delay \in Nat
  BY <1>2, <1>3 DEF Events
<1>6. QED
  BY <1>1, <1>3, <1>4, <1>5 DEF HeadDue

(***************************************************************************)
(* The first n events of q but those at the places in drop, in q's order.  *)
(***************************************************************************)
IsRest(w, q, drop, n) ==
    /\ w \in Seq(Events)
    /\ Range(w) = {q[i] : i \in (1 .. n) \ drop}
    /\ InOrder(q) => InOrder(w)

LEMMA RestStep ==
    ASSUME NEW q \in Seq(Events), NEW drop, NEW n \in 1 .. Len(q), NEW w, IsRest(w, q, drop, n - 1)
    PROVE  IsRest(IF n \in drop THEN w ELSE Append(w, q[n]), q, drop, n)
<1>1. /\ w \in Seq(Events) /\ q[n] \in Events /\ DOMAIN q = 1 .. Len(q) /\ Len(q) \in Nat
      /\ Range(w) = {q[i] : i \in (1 .. n - 1) \ drop}
  BY DEF IsRest
<1>2. CASE n \in drop
  <2>1. (1 .. n) \ drop = (1 .. n - 1) \ drop
    BY <1>2
  <2>2. QED
    BY <1>2, <2>1 DEF IsRest
<1>3. CASE n \notin drop
  <2> DEFINE a == Append(w, q[n])
  <2>1. /\ a \in Seq(Events) /\ DOMAIN a = 1 .. Len(w) + 1 /\ DOMAIN w = 1 .. Len(w) /\ Len(w) \in Nat
        /\ a[Len(w) + 1] = q[n]
        /\ \A j \in 1 .. Len(w) : a[j] = w[j]
    BY <1>1
  <2> HIDE DEF a
  <2>2. Range(a) = Range(w) \cup {q[n]}
    <3>1. \A j \in 1 .. Len(w) + 1 : j \in 1 .. Len(w) \/ j = Len(w) + 1
      BY <2>1
    <3>2. Len(w) + 1 \in DOMAIN a /\ \A j \in 1 .. Len(w) : j \in DOMAIN a
      BY <2>1
    <3>3. QED
      BY <2>1, <3>1, <3>2 DEF Range
  <2>3. (1 .. n) \ drop = ((1 .. n - 1) \ drop) \cup {n}
    BY <1>3
  <2>4. Range(a) = {q[i] : i \in (1 .. n) \ drop}
    BY <1>1, <2>2, <2>3
  <2>5. ASSUME InOrder(q)
        PROVE  InOrder(a)
    <3>1. InOrder(w)
      BY <2>5 DEF IsRest
    <3>2. \A j \in 1 .. Len(w) : w[j].delay <= q[n].delay
      <4>1. ASSUME NEW j \in 1 .. Len(w)
            PROVE  w[j].delay <= q[n].delay
        <5>1. w[j] \in Range(w)
          BY <2>1 DEF Range
        <5>2. PICK i \in (1 .. n - 1) \ drop : w[j] = q[i]
          BY <1>1, <5>1
        <5>3. i \in DOMAIN q /\ n \in DOMAIN q /\ i < n
          BY <1>1
        <5>4. QED
          BY <2>5, <5>2, <5>3 DEF InOrder
      <4>2. QED
        BY <4>1
    <3> SUFFICES ASSUME NEW j \in DOMAIN a, NEW k \in DOMAIN a, j < k
                 PROVE  a[j].delay <= a[k].delay
      BY DEF InOrder
    <3>3. j \in 1 .. Len(w) /\ (k \in 1 .. Len(w) \/ k = Len(w) + 1)
      BY <2>1
    <3>4. CASE k \in 1 .. Len(w)
      BY <2>1, <3>1, <3>3, <3>4 DEF InOrder
    <3>5. CASE k = Len(w) + 1
      BY <2>1, <3>2, <3>3, <3>5
    <3>6. QED
      BY <3>3, <3>4, <3>5
  <2>6. IsRest(a, q, drop, n)
    BY <2>1, <2>4, <2>5 DEF IsRest
  <2>7. QED
    BY <1>3, <2>6 DEF a
<1>4. QED
  BY <1>2, <1>3

LEMMA WithoutKeeps ==
    ASSUME NEW q \in Seq(Events), NEW drop, NEW n \in 0 .. Len(q)
    PROVE  IsRest(Without(q, drop, n), q, drop, n)
<1> DEFINE V == Seq(Events)
           Turn(i, v) == IF i \in drop THEN v ELSE Append(v, q[i])
           Rec(f) == [i \in 0 .. n |-> IF i = 0 THEN <<>> ELSE Turn(i, f[i - 1])]
           pass == CHOOSE f : f = Rec(f)
           step == [p \in (1 .. n) \X V |-> Turn(p[1], p[2])]
<1>1. Without(q, drop, n) = pass[n]
  BY DEF Without
<1>2. n \in Nat /\ Len(q) \in Nat /\ \A i \in 1 .. n : q[i] \in Events
  OBVIOUS
<1>3. <<>> \in V
  OBVIOUS
<1>4. step \in [(1 .. n) \X V -> V]
  <2>1. ASSUME NEW p \in (1 .. n) \X V
        PROVE  Turn(p[1], p[2]) \in V
    <3>1. p[1] \in 1 .. n /\ p[2] \in V
      OBVIOUS
    <3>2. q[p[1]] \in Events
      BY <1>2, <3>1
    <3>3. Append(p[2], q[p[1]]) \in V
      BY <3>1, <3>2
    <3>4. QED
      BY <3>1, <3>3
  <2>2. QED
    BY <2>1
<1> HIDE DEF Turn
<1>5. PICK f : IsRecursive(f, n, V, <<>>, step)
  <2> HIDE DEF step, V
  <2>1. QED
    BY <1>2, <1>3, <1>4, FiniteRecursion
<1>6. ASSUME NEW i \in 1 .. n
      PROVE  f[i] = Turn(i, f[i - 1])
  <2>1. i - 1 \in 0 .. n
    BY <1>2
  <2>2. f[i - 1] \in V
    BY <1>5, <2>1 DEF IsRecursive
  <2>3. step[<<i, f[i - 1]>>] = Turn(i, f[i - 1])
    <3> HIDE DEF V
    <3>1. QED
      BY <2>2
  <2>4. QED
    BY <1>5, <2>3 DEF IsRecursive
<1>7. f = Rec(f)
  BY <1>2, <1>5, <1>6 DEF IsRecursive
<1>8. pass = Rec(pass)
  <2> HIDE DEF Rec
  <2>1. QED
    BY <1>7
<1>9. /\ pass[0] = <<>>
      /\ \A i \in 1 .. n : pass[i] = Turn(i, pass[i - 1])
  <2> HIDE DEF pass
  <2>1. QED
    BY <1>2, <1>8
<1> HIDE DEF pass
<1> DEFINE S == {i \in 0 .. n : IsRest(pass[i], q, drop, i)}
<1>10. 0 \in S
  <2>1. Range(<<>>) = {} /\ InOrder(<<>>)
    BY DEF Range, InOrder
  <2>2. (1 .. 0) \ drop = {}
    OBVIOUS
  <2>3. <<>> \in Seq(Events) /\ Range(<<>>) = {q[i] : i \in (1 .. 0) \ drop}
    BY <2>1, <2>2
  <2>4. IsRest(<<>>, q, drop, 0)
    BY <2>1, <2>3 DEF IsRest
  <2>5. QED
    BY <1>2, <1>9, <2>4
<1>11. ASSUME NEW i \in 0 .. n - 1, i \in S
       PROVE  i + 1 \in S
  <2>1. i + 1 \in 1 .. n /\ i + 1 \in 1 .. Len(q) /\ (i + 1) - 1 = i /\ i + 1 \in 0 .. n
    BY <1>2
  <2>2. pass[i + 1] = IF i + 1 \in drop THEN pass[i] ELSE Append(pass[i], q[i + 1])
    BY <1>9, <2>1 DEF Turn
  <2>3. IsRest(pass[i], q, drop, (i + 1) - 1)
    BY <1>11, <2>1
  <2>4. IsRest(pass[i + 1], q, drop, i + 1)
    BY <2>1, <2>2, <2>3, RestStep
  <2>5. QED
    BY <2>1, <2>4
<1>12. n \in S
  <2> HIDE DEF S
  <2>1. 0 .. n \subseteq S
    BY <1>2, <1>10, <1>11, IntervalInduction
  <2>2. QED
    BY <1>2, <2>1
<1>13. QED
  BY <1>1, <1>12

(***************************************************************************)
(* A <cancel> brings no event into a queue, and takes none out whose delay *)
(* is over.                                                                *)
(***************************************************************************)
LEMMA CancelKeeps ==
    ASSUME NEW q \in Seq(Events), NEW sendid, NEW source
    PROVE  /\ CancelSendIdOnQueue(sendid, source, q) \in Seq(Events)
           /\ Range(CancelSendIdOnQueue(sendid, source, q)) \subseteq Range(q)
           /\ \A e \in Range(q) : e.delay = 0 => e \in Range(CancelSendIdOnQueue(sendid, source, q))
<1> DEFINE cancelled == {i \in DOMAIN q : q[i].sendid = sendid /\ q[i].origin = source /\ q[i].delay # 0}
           Left(k) == Len(q) - Cardinality(cancelled \cap (1 .. k))
           Enough(k) == k >= Left(k) /\ \A j \in 0 .. k - 1 : j < Left(j)
           rounds == CHOOSE k \in 0 .. Len(q) : Enough(k)
           last == SubSeq(q, rounds + 1, Len(q))
           first == Without(q, cancelled, rounds)
           r == last \o first
<1>1. CancelSendIdOnQueue(sendid, source, q) = r
  BY DEF CancelSendIdOnQueue
<1>2. Len(q) \in Nat /\ DOMAIN q = 1 .. Len(q) /\ \A i \in 1 .. Len(q) : q[i] \in Events
  OBVIOUS
<1>3. ASSUME NEW k \in 0 .. Len(q)
      PROVE  Left(k) \in Int /\ Left(k) <= Len(q)
  <2> HIDE DEF cancelled
  <2>1. IsFiniteSet(cancelled \cap (1 .. k))
    BY FS_Interval, FS_Subset
  <2>2. Cardinality(cancelled \cap (1 .. k)) \in Nat
    BY <2>1, FS_CardinalityType
  <2>3. QED
    BY <1>2, <2>2
<1>4. rounds \in 0 .. Len(q)
  <2> DEFINE K == {k \in 0 .. Len(q) : k >= Left(k)}
  <2> HIDE DEF Left
  <2>1. Len(q) \in K /\ K \in SUBSET Nat
    BY <1>2, <1>3
  <2>2. PICK m \in K : \A k \in K : m <= k
    BY <2>1, LeastElement
  <2>3. ASSUME NEW j \in 0 .. m - 1
        PROVE  j < Left(j)
    <3>1. j \in 0 .. Len(q) /\ j \notin K
      BY <1>2, <2>1, <2>2
    <3>2. QED
      BY <1>3, <3>1
  <2>4. Enough(m) /\ m \in 0 .. Len(q)
    BY <2>2, <2>3
  <2> HIDE DEF Enough
  <2>5. QED
    BY <2>4
<1> HIDE DEF rounds
<1>5. /\ last \in Seq(Events) /\ Len(last) = Len(q) - rounds
      /\ \A j \in 1 .. Len(q) - rounds : last[j] = q[rounds + j]
  BY <1>2, <1>4
<1>6. IsRest(first, q, cancelled, rounds)
  BY <1>4, WithoutKeeps
<1> HIDE DEF last, first
<1>7. first \in Seq(Events) /\ Range(first) = {q[i] : i \in (1 .. rounds) \ cancelled}
  BY <1>6 DEF IsRest
<1>8. /\ r \in Seq(Events) /\ Len(r) = Len(last) + Len(first)
      /\ \A j \in 1 .. Len(last) + Len(first) :
            r[j] = IF j <= Len(last) THEN last[j] ELSE first[j - Len(last)]
  BY <1>5, <1>7, ConcatProperties
<1>9. Range(r) = Range(last) \cup Range(first)
  <2> HIDE DEF r
  <2>1. /\ DOMAIN r = 1 .. Len(last) + Len(first) /\ DOMAIN last = 1 .. Len(last)
        /\ DOMAIN first = 1 .. Len(first) /\ Len(last) \in Nat /\ Len(first) \in Nat
    BY <1>5, <1>7, <1>8
  <2>2. ASSUME NEW x \in Range(r)
        PROVE  x \in Range(last) \cup Range(first)
    <3>1. PICK j \in 1 .. Len(last) + Len(first) : x = r[j]
      BY <2>1 DEF Range
    <3>2. CASE j <= Len(last)
      BY <1>8, <2>1, <3>1, <3>2 DEF Range
    <3>3. CASE ~(j <= Len(last))
      <4>1. j - Len(last) \in DOMAIN first /\ x = first[j - Len(last)]
        BY <1>8, <2>1, <3>1, <3>3
      <4>2. QED
        BY <4>1 DEF Range
    <3>4. QED
      BY <3>2, <3>3
  <2>3. ASSUME NEW x \in Range(last)
        PROVE  x \in Range(r)
    <3>1. PICK j \in 1 .. Len(last) : x = last[j]
      BY <2>1 DEF Range
    <3>2. j \in DOMAIN r /\ r[j] = x
      BY <1>8, <2>1, <3>1
    <3>3. QED
      BY <3>2 DEF Range
  <2>4. ASSUME NEW x \in Range(first)
        PROVE  x \in Range(r)
    <3>1. PICK j \in 1 .. Len(first) : x = first[j]
      BY <2>1 DEF Range
    <3>2. Len(last) + j \in 1 .. Len(last) + Len(first) /\ ~(Len(last) + j <= Len(last))
          /\ (Len(last) + j) - Len(last) = j
      BY <2>1
    <3>3. Len(last) + j \in DOMAIN r /\ r[Len(last) + j] = x
      BY <1>8, <2>1, <3>1, <3>2
    <3>4. QED
      BY <3>3 DEF Range
  <2>5. QED
    BY <2>2, <2>3, <2>4
<1>10. Range(last) = {q[i] : i \in rounds + 1 .. Len(q)}
  <2>1. DOMAIN last = 1 .. Len(q) - rounds
    BY <1>5
  <2>2. ASSUME NEW x \in Range(last)
        PROVE  \E i \in rounds + 1 .. Len(q) : x = q[i]
    <3>1. PICK j \in 1 .. Len(q) - rounds : x = last[j]
      BY <2>1 DEF Range
    <3>2. rounds + j \in rounds + 1 .. Len(q)
      BY <1>2, <1>4
    <3>3. QED
      BY <1>5, <3>1, <3>2
  <2>3. ASSUME NEW i \in rounds + 1 .. Len(q)
        PROVE  q[i] \in Range(last)
    <3>1. i - rounds \in 1 .. Len(q) - rounds /\ rounds + (i - rounds) = i
      BY <1>2, <1>4
    <3>2. last[i - rounds] = q[i]
      BY <1>5, <3>1
    <3>3. QED
      BY <2>1, <3>1, <3>2 DEF Range
  <2>4. QED
    BY <2>2, <2>3
<1>11. Range(r) \subseteq Range(q)
  <2>1. \A i \in 1 .. rounds : i \in DOMAIN q
    BY <1>2, <1>4
  <2>2. \A i \in rounds + 1 .. Len(q) : i \in DOMAIN q
    BY <1>2, <1>4
  <2>3. QED
    BY <1>7, <1>9, <1>10, <2>1, <2>2 DEF Range
<1>12. ASSUME NEW e \in Range(q), e.delay = 0
       PROVE  e \in Range(r)
  <2>1. PICK i \in DOMAIN q : e = q[i]
    BY DEF Range
  <2>2. i \notin cancelled
    BY <1>12, <2>1
  <2>3. i \in 1 .. rounds \/ i \in rounds + 1 .. Len(q)
    BY <1>2, <1>4
  <2> HIDE DEF cancelled
  <2>4. QED
    BY <1>7, <1>9, <1>10, <2>1, <2>2, <2>3
<1>13. QED
  BY <1>1, <1>8, <1>11, <1>12

(***************************************************************************)
(* The end of a machine takes events out of a queue and keeps its order.   *)
(***************************************************************************)
LEMMA RemoveKeeps ==
    ASSUME NEW q \in Seq(Events), NEW invoker
    PROVE  /\ RemovePendingEventsFromInvokerOnQueue(invoker, q) \in Seq(Events)
           /\ InOrder(q) => InOrder(RemovePendingEventsFromInvokerOnQueue(invoker, q))
<1> DEFINE drop == {i \in DOMAIN q : q[i].delay # 0 /\ q[i].invokeid = invoker}
<1>1. Len(q) \in 0 .. Len(q)
  OBVIOUS
<1>2. IsRest(Without(q, drop, Len(q)), q, drop, Len(q))
  BY <1>1, WithoutKeeps
<1>3. QED
  BY <1>2 DEF IsRest, RemovePendingEventsFromInvokerOnQueue

(***************************************************************************)
(* Receiving the first event leaves the others in their order.             *)
(***************************************************************************)
LEMMA TailKeeps ==
    ASSUME NEW q \in Seq(Events), q # <<>>
    PROVE  /\ Head(q) \in Events /\ Head(q) \in Range(q)
           /\ Tail(q) \in Seq(Events)
           /\ Range(Tail(q)) \subseteq Range(q)
           /\ InOrder(q) => InOrder(Tail(q))
<1> DEFINE t == Tail(q)
<1>1. /\ Head(q) = q[1] /\ 1 \in DOMAIN q /\ Head(q) \in Events
      /\ t \in Seq(Events) /\ Len(t) = Len(q) - 1 /\ DOMAIN t = 1 .. Len(q) - 1
      /\ \A i \in 1 .. Len(q) - 1 : t[i] = q[i + 1]
      /\ DOMAIN q = 1 .. Len(q) /\ Len(q) \in Nat
  OBVIOUS
<1> HIDE DEF t
<1>2. \A i \in DOMAIN t : i + 1 \in DOMAIN q /\ t[i] = q[i + 1]
  BY <1>1
<1>3. Range(t) \subseteq Range(q)
  BY <1>2 DEF Range
<1>4. ASSUME InOrder(q)
      PROVE  InOrder(t)
  <2>1. ASSUME NEW i \in DOMAIN t, NEW j \in DOMAIN t, i < j
        PROVE  t[i].delay <= t[j].delay
    <3>1. i + 1 < j + 1
      BY <1>1, <2>1
    <3>2. QED
      BY <1>2, <1>4, <3>1 DEF InOrder
  <2>2. QED
    BY <2>1 DEF InOrder
<1>5. QED
  BY <1>1, <1>3, <1>4 DEF t, Range

(***************************************************************************)
(* Time passes for every event of an ordered queue if it does for the      *)
(* first one.                                                              *)
(***************************************************************************)
LEMMA AdvanceKeeps ==
    ASSUME NEW q \in Seq(Events), NEW d \in Nat
    PROVE  /\ AdvanceTime(d, q) \in Seq(Events)
           /\ DOMAIN AdvanceTime(d, q) = DOMAIN q
           /\ (InOrder(q) /\ (q # <<>> => d <= Head(q).delay)) =>
                 /\ \A i \in DOMAIN q : /\ AdvanceTime(d, q)[i].delay = q[i].delay - d
                                        /\ AdvanceTime(d, q)[i].due = q[i].due
                                        /\ d <= q[i].delay
                 /\ InOrder(AdvanceTime(d, q))
<1> DEFINE a == AdvanceTime(d, q)
           Later(e) == IF e.delay >= d THEN [e EXCEPT !.delay = @ - d] ELSE e
<1>1. Len(q) \in Nat /\ DOMAIN q = 1 .. Len(q) /\ \A i \in 1 .. Len(q) : q[i] \in Events
  OBVIOUS
<1>2. a = [i \in DOMAIN q |-> Later(q[i])]
  BY DEF AdvanceTime
<1>3. ASSUME NEW e \in Events
      PROVE  /\ Later(e) \in Events /\ e.delay \in Nat
             /\ e.delay >= d => Later(e).delay = e.delay - d /\ Later(e).due = e.due
  <2>1. e.delay \in Nat
    BY DEF Events
  <2>2. CASE e.delay >= d
    <3>1. Later(e) = [e EXCEPT !.delay = e.delay - d] /\ e.delay - d \in Nat
      BY <2>1, <2>2
    <3> HIDE DEF Later
    <3>2. QED
      BY <2>1, <3>1 DEF Events
  <2>3. CASE ~(e.delay >= d)
    BY <2>1, <2>3
  <2>4. QED
    BY <2>2, <2>3
<1> HIDE DEF Later, a
<1>4. a \in Seq(Events) /\ DOMAIN a = DOMAIN q
  <2>1. a \in [1 .. Len(q) -> Events]
    BY <1>1, <1>2, <1>3
  <2>2. QED
    BY <1>1, <2>1, SeqDef
<1>5. ASSUME InOrder(q), q # <<>> => d <= Head(q).delay
      PROVE  /\ \A i \in DOMAIN q : /\ a[i].delay = q[i].delay - d /\ a[i].due = q[i].due
                                    /\ d <= q[i].delay
             /\ InOrder(a)
  <2>1. ASSUME NEW i \in DOMAIN q
        PROVE  d <= q[i].delay
    <3>1. 1 \in DOMAIN q /\ q # <<>> /\ Head(q) = q[1] /\ i \in Nat /\ i >= 1
      BY <1>1
    <3>2. q[1].delay \in Nat /\ q[i].delay \in Nat
      BY <1>1, <1>3, <3>1
    <3>3. i = 1 \/ q[1].delay <= q[i].delay
      BY <1>5, <3>1 DEF InOrder
    <3>4. QED
      BY <1>5, <3>1, <3>2, <3>3
  <2>2. \A i \in DOMAIN q : a[i].delay = q[i].delay - d /\ a[i].due = q[i].due /\ q[i].delay \in Nat
    BY <1>1, <1>2, <1>3, <2>1
  <2>3. InOrder(a)
    BY <1>4, <1>5, <2>2 DEF InOrder
  <2>4. QED
    BY <2>1, <2>2, <2>3
<1>6. QED
  BY <1>4, <1>5 DEF a

(***************************************************************************)
(* The time that passes is what is left until the first of all events, and *)
(* none without an event.                                                  *)
(***************************************************************************)
LEMMA SmallestIsFirst ==
    ASSUME TypeOK
    PROVE  /\ SmallestDelay \in Nat
           /\ \A m \in Machines : eQ[m] # <<>> => SmallestDelay <= Head(eQ[m]).delay
           /\ AllEmpty \/ \E m \in Machines : eQ[m] # <<>> /\ Head(eQ[m]).delay = SmallestDelay
<1>1. \A m \in Machines : eQ[m] # <<>> => Head(eQ[m]) \in Events
  BY TailKeeps DEF TypeOK
<1>2. \A m \in Machines : eQ[m] # <<>> => Head(eQ[m]).delay \in Heads /\ Head(eQ[m]).delay \in Nat
  BY <1>1 DEF Heads, Events
<1>3. \A d \in Heads : \E m \in Machines : eQ[m] # <<>> /\ d = Head(eQ[m]).delay
  BY DEF Heads
<1>4. CASE Heads = {}
  <2>1. AllEmpty /\ SmallestDelay = 0
    BY <1>2, <1>4 DEF AllEmpty, SmallestDelay
  <2>2. QED
    BY <2>1 DEF AllEmpty
<1>5. CASE Heads # {}
  <2>1. Heads \in SUBSET Nat
    BY <1>2, <1>3
  <2>2. \E d \in Heads : \A e \in Heads : d <= e
    BY <1>5, <2>1, LeastElement
  <2>3. SmallestDelay \in Heads /\ \A e \in Heads : SmallestDelay <= e
    BY <1>5, <2>2 DEF SmallestDelay
  <2>4. QED
    BY <1>2, <1>3, <2>1, <2>3
<1>6. QED
  BY <1>4, <1>5

-----------------------------------------------------------------------------
(* The order of the queues. *)

(***************************************************************************)
(* No step but a <cancel> takes a queue out of order.                      *)
(***************************************************************************)
LEMMA QueueStep ==
    ASSUME TypeOK, QueuesInOrderUnlessRotated, [Next]_vars
    PROVE  TypeOK' /\ QueuesInOrderUnlessRotated'
<1> USE DEF TypeOK, QueuesInOrderUnlessRotated
<1>0. /\ \A m \in Machines : eQ[m] \in Seq(Events)
      /\ Root \in Machines
      /\ \A n \in Nested : n \in Machines
  BY DEF Machines
<1>1. ASSUME NEW m \in Machines, NEW t \in Machines, NEW d \in Delays,
             NEW id \in SendIds \cup {NoId}, Send(m, t, d, id)
      PROVE  TypeOK' /\ QueuesInOrderUnlessRotated'
  <2>1. Event(m, d, id) \in Events
    BY <1>0, ScheduleAssumption DEF Event, Events
  <2>2. /\ Enqueue(eQ[t], Event(m, d, id)) \in Seq(Events)
        /\ InOrder(eQ[t]) => InOrder(Enqueue(eQ[t], Event(m, d, id)))
    BY <1>0, <2>1, EnqueueKeeps
  <2>3. eQ' = [eQ EXCEPT ![t] = Enqueue(eQ[t], Event(m, d, id))]
        /\ UNCHANGED <<priority, at, inside, invoked, now, rotated>>
    BY <1>1 DEF Send
  <2>4. QED
    BY <2>2, <2>3
<1>2. ASSUME NEW m \in Machines, NEW id \in SendIds, Cancel(m, id)
      PROVE  TypeOK' /\ QueuesInOrderUnlessRotated'
  <2>1. /\ eQ' = [n \in Machines |-> CancelSendIdOnQueue(id, m, eQ[n])]
        /\ UNCHANGED <<priority, at, inside, invoked, now>>
    BY <1>2 DEF Cancel
  <2>2. TypeOK'
    BY <1>0, <2>1, CancelKeeps
  <2>3. QueuesInOrderUnlessRotated'
    BY <1>2 DEF Cancel
  <2>4. QED
    BY <2>2, <2>3
<1>3. ASSUME NEW m \in Machines, EnterFinal(m)
      PROVE  TypeOK' /\ QueuesInOrderUnlessRotated'
  BY <1>3 DEF EnterFinal
<1>4. ASSUME NEW n \in Nested, Enter(n) \/ Leave(n)
      PROVE  TypeOK' /\ QueuesInOrderUnlessRotated'
  BY <1>4 DEF Enter, Leave
<1>5. ASSUME NEW m \in Machines, ManageInvocations(m)
      PROVE  TypeOK' /\ QueuesInOrderUnlessRotated'
  BY <1>5 DEF ManageInvocations, Places
<1>6. ASSUME NEW m \in Machines, Start(m)
      PROVE  TypeOK' /\ QueuesInOrderUnlessRotated'
  BY <1>6 DEF Start, Places
<1>7. ASSUME NEW m \in Machines, ScheduleMachines(m)
      PROVE  TypeOK' /\ QueuesInOrderUnlessRotated'
  <2>1. SmallestDelay \in Nat /\ \A n \in Machines : eQ[n] # <<>> => SmallestDelay <= Head(eQ[n]).delay
    BY SmallestIsFirst
  <2>2. /\ eQ' = [n \in Machines |-> AdvanceTime(SmallestDelay, eQ[n])]
        /\ now' = now + SmallestDelay
        /\ at' = [at EXCEPT ![m] = "scheduled"]
        /\ priority' = [n \in Machines |-> IF at[n] \in {"absent", "starting", "done"}
                                           THEN priority[n] ELSE RescheduleProcess(n)]
        /\ UNCHANGED <<inside, invoked, rotated>>
    BY <1>7 DEF ScheduleMachines
  <2>3. ASSUME NEW n \in Machines
        PROVE  /\ AdvanceTime(SmallestDelay, eQ[n]) \in Seq(Events)
               /\ InOrder(eQ[n]) => InOrder(AdvanceTime(SmallestDelay, eQ[n]))
    BY <1>0, <2>1, AdvanceKeeps
  <2>4. \A n \in Machines : RescheduleProcess(n) \in Nat
    BY DEF RescheduleProcess
  <2> HIDE DEF QueuesInOrderUnlessRotated
  <2>5. TypeOK'
    BY <2>1, <2>2, <2>3, <2>4 DEF Places
  <2>6. QED
    BY <2>2, <2>3, <2>5 DEF QueuesInOrderUnlessRotated
<1>8. ASSUME NEW m \in Machines, Resume(m)
      PROVE  TypeOK' /\ QueuesInOrderUnlessRotated'
  BY <1>8 DEF Resume, Places
<1>9. ASSUME NEW m \in Machines, Receive(m)
      PROVE  TypeOK' /\ QueuesInOrderUnlessRotated'
  <2>1. /\ eQ[m] # <<>>
        /\ eQ' = [n \in Machines |-> IF n = m THEN Tail(eQ[m]) ELSE Forward(m, n)]
        /\ at' = [at EXCEPT ![m] = "stepping"]
        /\ UNCHANGED <<priority, inside, invoked, now, rotated>>
    BY <1>9 DEF Receive
  <2>2. /\ Head(eQ[m]) \in Events /\ Tail(eQ[m]) \in Seq(Events)
        /\ InOrder(eQ[m]) => InOrder(Tail(eQ[m]))
    BY <1>0, <2>1, TailKeeps
  <2>3. ASSUME NEW n \in Machines
        PROVE  Forward(m, n) \in Seq(Events) /\ (InOrder(eQ[n]) => InOrder(Forward(m, n)))
    <3>1. /\ Enqueue(eQ[n], Head(eQ[m])) \in Seq(Events)
          /\ InOrder(eQ[n]) => InOrder(Enqueue(eQ[n], Head(eQ[m])))
      BY <1>0, <2>2, EnqueueKeeps
    <3>2. QED
      BY <1>0, <3>1 DEF Forward
  <2>4. QED
    BY <2>1, <2>2, <2>3 DEF Places
<1>10. ASSUME NEW m \in Machines, TerminateMachine(m)
       PROVE  TypeOK' /\ QueuesInOrderUnlessRotated'
  <2> DEFINE kept(n) == RemovePendingEventsFromInvokerOnQueue(m, eQ[n])
             left(n) == IF n = Root /\ m # Root /\ final[m]
                        THEN Enqueue(kept(n), DoneInvoke(m)) ELSE kept(n)
  <2>1. /\ eQ' = [n \in Machines |-> left(n)]
        /\ at' = [at EXCEPT ![m] = "done"]
        /\ invoked' = IF m = Root THEN {} ELSE invoked
        /\ UNCHANGED <<priority, inside, now, rotated>>
    BY <1>10 DEF TerminateMachine
  <2>2. DoneInvoke(m) \in Events
    BY <1>0 DEF DoneInvoke, Events
  <2>3. ASSUME NEW n \in Machines
        PROVE  left(n) \in Seq(Events) /\ (InOrder(eQ[n]) => InOrder(left(n)))
    <3>1. kept(n) \in Seq(Events) /\ (InOrder(eQ[n]) => InOrder(kept(n)))
      BY <1>0, RemoveKeeps
    <3> HIDE DEF kept
    <3>2. /\ Enqueue(kept(n), DoneInvoke(m)) \in Seq(Events)
          /\ InOrder(kept(n)) => InOrder(Enqueue(kept(n), DoneInvoke(m)))
      BY <2>2, <3>1, EnqueueKeeps
    <3>3. QED
      BY <3>1, <3>2
  <2> HIDE DEF left
  <2>4. QED
    BY <2>1, <2>3 DEF Places
<1>11. CASE UNCHANGED vars
  BY <1>11 DEF vars
<1>12. QED
  BY <1>1, <1>2, <1>3, <1>4, <1>5, <1>6, <1>7, <1>8, <1>9, <1>10, <1>11 DEF Next

(***************************************************************************)
(* The program starts with empty queues.                                   *)
(***************************************************************************)
LEMMA QueueInit ==
    ASSUME Init
    PROVE  TypeOK /\ QueuesInOrderUnlessRotated
<1>1. TypeOK
  BY DEF Init, TypeOK, Places
<1>2. \A m \in Machines : eQ[m] = <<>>
  BY DEF Init
<1>3. InOrder(<<>>)
  BY DEF InOrder
<1>4. QED
  BY <1>1, <1>2, <1>3 DEF QueuesInOrderUnlessRotated

(***************************************************************************)
(* Every external queue of the program is in the order of the delays,      *)
(* whatever is sent, forwarded and removed and however much time passes:   *)
(* writeInsertWithDelay, writeAdvanceTime and                              *)
(* writeRemovePendingEventsFromInvoker keep it; only a <cancel> breaks it. *)
(***************************************************************************)
THEOREM QueuesOrdered == Spec => []QueuesInOrderUnlessRotated
<1>1. Init => TypeOK /\ QueuesInOrderUnlessRotated
  BY QueueInit
<1>2. TypeOK /\ QueuesInOrderUnlessRotated /\ [Next]_vars => TypeOK' /\ QueuesInOrderUnlessRotated'
  BY QueueStep
<1>3. QED
  BY <1>1, <1>2, PTL DEF Spec

-----------------------------------------------------------------------------
(* The schedule. *)

(***************************************************************************)
(* What is invoked runs, and what has gone wrong stays wrong: a machine    *)
(* that is done is never started again.                                    *)
(***************************************************************************)
LEMMA RunStep ==
    ASSUME TypeOK, InvokedRun, [Next]_vars
    PROVE  InvokedRun' /\ (Clean' => Clean)
<1> USE DEF TypeOK, InvokedRun, Clean
<1>0. /\ Root \in Machines /\ Root \notin Nested
      /\ \A n \in Nested : n \in Machines
      /\ inside \subseteq Nested /\ invoked \subseteq Nested
  BY ScheduleAssumption DEF Machines
<1>1. ASSUME NEW m \in Machines, NEW t \in Machines, NEW d \in Delays,
             NEW id \in SendIds \cup {NoId}, Send(m, t, d, id)
      PROVE  InvokedRun' /\ (Clean' => Clean)
  BY <1>1 DEF Send
<1>2. ASSUME NEW m \in Machines, NEW id \in SendIds, Cancel(m, id)
      PROVE  InvokedRun' /\ (Clean' => Clean)
  BY <1>2 DEF Cancel
<1>3. ASSUME NEW m \in Machines, EnterFinal(m)
      PROVE  InvokedRun' /\ (Clean' => Clean)
  BY <1>3 DEF EnterFinal
<1>4. ASSUME NEW n \in Nested, Enter(n) \/ Leave(n)
      PROVE  InvokedRun' /\ (Clean' => Clean)
  BY <1>4 DEF Enter, Leave
<1>5. ASSUME NEW m \in Machines, ManageInvocations(m)
      PROVE  InvokedRun' /\ (Clean' => Clean)
  <2> DEFINE run == {n \in inside \ invoked : m = Root}
  <2>1. /\ at[m] = "stepping"
        /\ at' = [n \in Machines |-> IF n = m THEN "dequeueing"
                                     ELSE IF n \in run THEN "starting" ELSE at[n]]
        /\ invoked' = IF m = Root THEN inside ELSE invoked
        /\ UNCHANGED <<inside, rotated, stray>>
    BY <1>5 DEF ManageInvocations
  <2>2. \A n \in run : at[n] = "absent"
    BY <2>1
  <2>3. Clean' => Clean
    BY <2>1, <2>2
  <2>4. \A n \in Machines : at[n] # "absent" => at'[n] # "absent"
    BY <2>1
  <2>5. CASE m = Root
    <3>1. ASSUME NEW n \in invoked'
          PROVE  at'[n] # "absent"
      <4>1. n \in inside /\ n \in Machines /\ n # m
        BY <1>0, <2>1, <2>5, <3>1
      <4>2. n \in run \/ n \in invoked
        BY <2>5, <4>1
      <4>3. QED
        BY <2>1, <2>4, <4>1, <4>2
    <3>2. inside' \ invoked' = {}
      BY <2>1, <2>5
    <3>3. QED
      BY <2>3, <3>1, <3>2
  <2>6. CASE m # Root
    <3>1. run = {} /\ invoked' = invoked
      BY <2>1, <2>6
    <3>2. \A n \in invoked : at'[n] # "absent"
      BY <1>0, <2>4
    <3>3. at[Root] = "done" => at'[Root] = "done"
      BY <1>0, <2>1, <2>6, <3>1
    <3>4. \A n \in inside \ invoked : at[n] = "absent" => at'[n] = "absent"
      BY <1>0, <2>1, <3>1
    <3>5. QED
      BY <2>1, <2>3, <3>1, <3>2, <3>3, <3>4
  <2>7. QED
    BY <2>5, <2>6
<1>6. ASSUME NEW m \in Machines, Start(m) \/ ScheduleMachines(m) \/ Resume(m) \/ Receive(m)
      PROVE  InvokedRun' /\ (Clean' => Clean)
  <2>1. /\ at[m] \notin {"absent", "done"}
        /\ \E p \in {"terminating", "stepping", "scheduled", "receiving"} : at' = [at EXCEPT ![m] = p]
        /\ UNCHANGED <<inside, invoked, rotated, stray>>
    BY <1>6 DEF Start, ScheduleMachines, Resume, Receive
  <2>2. PICK p \in {"terminating", "stepping", "scheduled", "receiving"} : at' = [at EXCEPT ![m] = p]
    BY <2>1
  <2>3. \A n \in Machines : at'[n] = IF n = m THEN p ELSE at[n]
    BY <2>2
  <2>4. QED
    BY <1>0, <2>1, <2>3
<1>7. ASSUME NEW m \in Machines, TerminateMachine(m)
      PROVE  InvokedRun' /\ (Clean' => Clean)
  <2>1. /\ at[m] \in {"terminating", "stepping"}
        /\ at' = [at EXCEPT ![m] = "done"]
        /\ invoked' = IF m = Root THEN {} ELSE invoked
        /\ UNCHANGED <<inside, rotated, stray>>
    BY <1>7 DEF TerminateMachine
  <2>2. \A n \in Machines : at'[n] = IF n = m THEN "done" ELSE at[n]
    BY <2>1
  <2>3. QED
    BY <1>0, <2>1, <2>2
<1>8. CASE UNCHANGED vars
  BY <1>8 DEF vars
<1>9. QED
  BY <1>1, <1>2, <1>3, <1>4, <1>5, <1>6, <1>7, <1>8 DEF Next

(***************************************************************************)
(* A queue that keeps the events that are due has one at its head if it    *)
(* had one.                                                                *)
(***************************************************************************)
LEMMA StaysDue ==
    ASSUME NEW q \in Seq(Events), NEW p \in Seq(Events), InOrder(p), HeadDue(q),
           \A e \in Range(q) : e.delay = 0 => e \in Range(p)
    PROVE  HeadDue(p)
<1>1. Head(q) \in Range(q) /\ Head(q).delay = 0
  BY TailKeeps DEF HeadDue
<1>2. QED
  BY <1>1, DueAtHead

(***************************************************************************)
(* A machine that is in the middle of its steps, or receives an event and  *)
(* goes on to step, may change the queues as long as it keeps the order    *)
(* and, of the other machines, the events that are due.                    *)
(***************************************************************************)
LEMMA SteppingKeeps ==
    ASSUME TypeOK, TypeOK', Timely, \A n \in Machines : InOrder(eQ'[n]),
           NEW k \in Machines,
           at[k] = "stepping" \/ (at[k] = "receiving" /\ eQ[k] # <<>>),
           at' = [at EXCEPT ![k] = "stepping"], priority' = priority, now' = now,
           \A n \in Machines : at'[n] # "stepping" =>
               \A e \in Range(eQ[n]) : e.delay = 0 => e \in Range(eQ'[n]),
           \A n \in Machines : \A e \in Range(eQ'[n]) : e.due = now + e.delay,
           \A n \in Machines : at[n] = "absent" => (eQ[n] = <<>> => eQ'[n] = <<>>)
    PROVE  Timely'
<1> USE DEF TypeOK
<1>1. \A n \in Machines : at'[n] = IF n = k THEN "stepping" ELSE at[n]
  OBVIOUS
<1>2. priority[k] >= 10 /\ priority[k] \in Nat
  BY DEF Timely, Priorities
<1>3. \A n \in Machines : HeadDue(eQ[n]) /\ at'[n] # "stepping" => HeadDue(eQ'[n])
  BY StaysDue
<1>4. \A n \in Machines : at'[n] = "receiving" => at[n] = "receiving" /\ HeadDue(eQ[n]) /\ HeadDue(eQ'[n])
  <2>1. ASSUME NEW n \in Machines, at'[n] = "receiving"
        PROVE  at[n] = "receiving" /\ HeadDue(eQ[n])
    <3>1. at[n] = "receiving"
      BY <1>1, <2>1
    <3>2. QED
      BY <3>1 DEF Timely, ReceivingDue, AllEmpty
  <2>2. QED
    BY <1>3, <2>1
<1>5. DelaysExact'
  BY DEF DelaysExact
<1>6. AbsentEmpty'
  BY <1>1 DEF Timely, AbsentEmpty
<1>7. Priorities'
  BY <1>1, <1>2, <1>4 DEF Timely, Priorities, HeadDue
<1>8. ScheduledDue'
  BY <1>1, <1>3 DEF Timely, ScheduledDue
<1>9. SomeoneGoesOn'
  BY <1>1, <1>2 DEF SomeoneGoesOn, CanGoOn, Blocked
<1>10. ReceivingDue'
  BY <1>4 DEF ReceivingDue
<1>11. QED
  BY <1>5, <1>6, <1>7, <1>8, <1>9, <1>10 DEF Timely

(***************************************************************************)
(* The steps of SteppingKeeps: <send>, <cancel> and the receipt of an      *)
(* event, which the root forwards to the machines it has invoked.          *)
(***************************************************************************)
LEMMA SendTimely ==
    ASSUME ScheduleInv, Clean, Clean', TypeOK', QueuesInOrderUnlessRotated',
           NEW m \in Machines, NEW t \in Machines, NEW d \in Delays,
           NEW id \in SendIds \cup {NoId}, Send(m, t, d, id)
    PROVE  Timely'
<1> DEFINE e == Event(m, d, id)
<1>1. /\ at[m] = "stepping" /\ at' = at /\ priority' = priority /\ now' = now
      /\ eQ' = [eQ EXCEPT ![t] = Enqueue(eQ[t], e)]
      /\ at[t] # "absent"
  BY DEF Send, Clean
<1>2. TypeOK /\ Timely
  BY DEF ScheduleInv
<1>3. e \in Events /\ e.due = now + e.delay
  BY <1>2, ScheduleAssumption DEF Event, Events, TypeOK
<1> HIDE DEF e
<1>4. \A n \in Machines : InOrder(eQ'[n])
  BY DEF QueuesInOrderUnlessRotated, Clean
<1>5. Range(Enqueue(eQ[t], e)) = Range(eQ[t]) \cup {e}
  BY <1>2, <1>3, EnqueueKeeps DEF TypeOK
<1>6. \A n \in Machines : eQ'[n] = IF n = t THEN Enqueue(eQ[t], e) ELSE eQ[n]
  BY <1>1, <1>2 DEF TypeOK
<1>7. \A n \in Machines : Range(eQ[n]) \subseteq Range(eQ'[n])
  BY <1>5, <1>6
<1>8. \A n \in Machines : \A x \in Range(eQ'[n]) : x.due = now + x.delay
  BY <1>2, <1>3, <1>5, <1>6 DEF Timely, DelaysExact
<1>9. at' = [at EXCEPT ![m] = "stepping"]
  BY <1>1, <1>2 DEF TypeOK
<1>10. \A n \in Machines : at[n] = "absent" => (eQ[n] = <<>> => eQ'[n] = <<>>)
  BY <1>1, <1>6
<1>11. QED
  BY <1>1, <1>2, <1>4, <1>7, <1>8, <1>9, <1>10, SteppingKeeps

LEMMA CancelTimely ==
    ASSUME ScheduleInv, Clean, Clean', TypeOK', QueuesInOrderUnlessRotated',
           NEW m \in Machines, NEW id \in SendIds, Cancel(m, id)
    PROVE  Timely'
<1>1. /\ at[m] = "stepping" /\ at' = at /\ priority' = priority /\ now' = now
      /\ eQ' = [n \in Machines |-> CancelSendIdOnQueue(id, m, eQ[n])]
  BY DEF Cancel
<1>2. TypeOK /\ Timely
  BY DEF ScheduleInv
<1>3. \A n \in Machines : InOrder(eQ'[n])
  BY DEF QueuesInOrderUnlessRotated, Clean
<1>4. ASSUME NEW n \in Machines
      PROVE  /\ Range(eQ'[n]) \subseteq Range(eQ[n])
             /\ \A e \in Range(eQ[n]) : e.delay = 0 => e \in Range(eQ'[n])
  <2>1. eQ[n] \in Seq(Events) /\ eQ'[n] = CancelSendIdOnQueue(id, m, eQ[n])
    BY <1>1, <1>2 DEF TypeOK
  <2>2. QED
    BY <2>1, CancelKeeps
<1>5. \A n \in Machines : \A x \in Range(eQ'[n]) : x.due = now + x.delay
  BY <1>2, <1>4 DEF Timely, DelaysExact
<1>6. at' = [at EXCEPT ![m] = "stepping"]
  BY <1>1, <1>2 DEF TypeOK
<1>7. ASSUME NEW n \in Machines, eQ[n] = <<>>
      PROVE  eQ'[n] = <<>>
  <2>1. Range(eQ'[n]) = {}
    BY <1>4, <1>7 DEF Range
  <2>2. eQ'[n] # <<>> => Head(eQ'[n]) \in Range(eQ'[n])
    BY TailKeeps DEF TypeOK
  <2>3. QED
    BY <2>1, <2>2
<1>8. QED
  BY <1>1, <1>2, <1>3, <1>4, <1>5, <1>6, <1>7, SteppingKeeps

LEMMA ReceiveTimely ==
    ASSUME ScheduleInv, Clean, Clean', TypeOK', QueuesInOrderUnlessRotated',
           NEW m \in Machines, Receive(m)
    PROVE  Timely'
<1> DEFINE e == Head(eQ[m])
<1>1. /\ at[m] = "receiving" /\ eQ[m] # <<>>
      /\ at' = [at EXCEPT ![m] = "stepping"] /\ priority' = priority /\ now' = now
      /\ eQ' = [n \in Machines |-> IF n = m THEN Tail(eQ[m]) ELSE Forward(m, n)]
  BY DEF Receive
<1>2. TypeOK /\ Timely /\ InvokedRun
  BY DEF ScheduleInv
<1>3. \A n \in Machines : InOrder(eQ'[n])
  BY DEF QueuesInOrderUnlessRotated, Clean
<1>4. /\ e \in Events /\ e \in Range(eQ[m]) /\ Range(Tail(eQ[m])) \subseteq Range(eQ[m])
      /\ eQ'[m] = Tail(eQ[m])
  BY <1>1, <1>2, TailKeeps DEF TypeOK
<1>5. ASSUME NEW n \in Machines, n # m
      PROVE  /\ Range(eQ[n]) \subseteq Range(eQ'[n]) /\ Range(eQ'[n]) \subseteq Range(eQ[n]) \cup {e}
             /\ at[n] = "absent" => eQ'[n] = eQ[n]
  <2>1. eQ[n] \in Seq(Events) /\ eQ'[n] = Forward(m, n)
    BY <1>1, <1>2, <1>5 DEF TypeOK
  <2>2. Range(Enqueue(eQ[n], e)) = Range(eQ[n]) \cup {e}
    BY <1>4, <2>1, EnqueueKeeps
  <2>3. n \in invoked => at[n] # "absent"
    BY <1>2 DEF InvokedRun
  <2>4. QED
    BY <2>1, <2>2, <2>3 DEF Forward
<1> HIDE DEF e
<1>6. \A x \in Range(eQ[m]) \cup {e} : x.due = now + x.delay
  BY <1>2, <1>4 DEF Timely, DelaysExact
<1>7. ASSUME NEW n \in Machines, NEW x \in Range(eQ'[n])
      PROVE  x.due = now + x.delay
  <2>1. CASE n = m
    BY <1>4, <1>6, <2>1
  <2>2. CASE n # m
    BY <1>2, <1>5, <1>6, <2>2 DEF Timely, DelaysExact
  <2>3. QED
    BY <2>1, <2>2
<1>8. ASSUME NEW n \in Machines, at'[n] # "stepping", NEW x \in Range(eQ[n])
      PROVE  x \in Range(eQ'[n])
  <2>1. n # m
    BY <1>1, <1>2, <1>8 DEF TypeOK
  <2>2. QED
    BY <1>5, <2>1
<1>9. \A n \in Machines : at[n] = "absent" => (eQ[n] = <<>> => eQ'[n] = <<>>)
  BY <1>1, <1>5
<1>10. QED
  BY <1>1, <1>2, <1>3, <1>7, <1>8, <1>9, SteppingKeeps

(***************************************************************************)
(* A machine that starts others or starts itself keeps everyone else from  *)
(* going on, and those that wait have an event that is due.                *)
(***************************************************************************)
LEMMA ManageTimely ==
    ASSUME ScheduleInv, Clean, NEW m \in Machines, ManageInvocations(m)
    PROVE  Timely'
<1> DEFINE run == {n \in inside \ invoked : m = Root}
<1>1. /\ at[m] = "stepping"
      /\ at' = [n \in Machines |-> IF n = m THEN "dequeueing"
                                   ELSE IF n \in run THEN "starting" ELSE at[n]]
      /\ priority' = [n \in Machines |-> IF n \in run THEN 20 ELSE priority[n]]
      /\ eQ' = eQ /\ now' = now
  BY DEF ManageInvocations
<1>2. TypeOK /\ Timely /\ InvokedRun /\ Root \in Machines
  BY DEF ScheduleInv, Machines
<1>3. \A n \in run : at[n] = "absent"
  BY <1>2 DEF InvokedRun, Clean
<1>4. m \notin run
  BY <1>1, <1>3
<1> HIDE DEF run
<1>5. /\ \A n \in Machines : at'[n] = IF n = m THEN "dequeueing" ELSE IF n \in run THEN "starting" ELSE at[n]
      /\ \A n \in Machines : priority'[n] = IF n \in run THEN 20 ELSE priority[n]
  BY <1>1
<1>6. priority[m] >= 10 /\ priority[m] \in Nat
  BY <1>1, <1>2 DEF Timely, Priorities, TypeOK
<1>7. \A n \in Machines : at[n] = "receiving" => HeadDue(eQ[n])
  BY <1>1, <1>2 DEF Timely, ReceivingDue
<1>8. DelaysExact'
  BY <1>1, <1>2 DEF Timely, DelaysExact
<1>9. AbsentEmpty'
  BY <1>1, <1>2, <1>5 DEF Timely, AbsentEmpty
<1>10. Priorities'
  BY <1>1, <1>2, <1>5 DEF Timely, Priorities
<1>11. ScheduledDue'
  BY <1>1, <1>2, <1>5 DEF Timely, ScheduledDue
<1>12. SomeoneGoesOn'
  BY <1>4, <1>5, <1>6 DEF SomeoneGoesOn, CanGoOn, Blocked
<1>13. ReceivingDue'
  BY <1>1, <1>5, <1>7 DEF ReceivingDue
<1>14. QED
  BY <1>8, <1>9, <1>10, <1>11, <1>12, <1>13 DEF Timely

LEMMA StartTimely ==
    ASSUME ScheduleInv, Clean, NEW m \in Machines, Start(m)
    PROVE  Timely'
<1>1. /\ at[m] = "starting" /\ priority' = priority /\ eQ' = eQ /\ now' = now
      /\ \E p \in {"terminating", "stepping"} : at' = [at EXCEPT ![m] = p]
  BY DEF Start
<1>2. TypeOK /\ Timely
  BY DEF ScheduleInv
<1>3. PICK p \in {"terminating", "stepping"} : \A n \in Machines : at'[n] = IF n = m THEN p ELSE at[n]
  BY <1>1, <1>2 DEF TypeOK
<1>4. priority[m] = 20
  BY <1>1, <1>2 DEF Timely, Priorities
<1>5. \A n \in Machines : at[n] = "receiving" => HeadDue(eQ[n])
  BY <1>1, <1>2 DEF Timely, ReceivingDue
<1>6. DelaysExact'
  BY <1>1, <1>2 DEF Timely, DelaysExact
<1>7. AbsentEmpty'
  BY <1>1, <1>2, <1>3 DEF Timely, AbsentEmpty
<1>8. Priorities'
  BY <1>1, <1>2, <1>3, <1>4 DEF Timely, Priorities
<1>9. ScheduledDue'
  BY <1>1, <1>2, <1>3 DEF Timely, ScheduledDue
<1>10. SomeoneGoesOn'
  BY <1>1, <1>3, <1>4 DEF SomeoneGoesOn, CanGoOn, Blocked
<1>11. ReceivingDue'
  BY <1>1, <1>3, <1>5 DEF ReceivingDue
<1>12. QED
  BY <1>6, <1>7, <1>8, <1>9, <1>10, <1>11 DEF Timely

(***************************************************************************)
(* Time passes up to the first event, and the machines that have it to     *)
(* receive are given priority.                                             *)
(***************************************************************************)
LEMMA ScheduleTimely ==
    ASSUME ScheduleInv, Clean, TypeOK', NEW m \in Machines, ScheduleMachines(m)
    PROVE  Timely'
<1> DEFINE s == SmallestDelay
<1>1. /\ at[m] = "dequeueing" /\ Runs(m) /\ now' = now + s
      /\ priority' = [n \in Machines |-> IF at[n] \in {"absent", "starting", "done"}
                                         THEN priority[n] ELSE RescheduleProcess(n)]
      /\ eQ' = [n \in Machines |-> AdvanceTime(s, eQ[n])]
      /\ at' = [at EXCEPT ![m] = "scheduled"]
  BY DEF ScheduleMachines
<1>2. TypeOK /\ Timely /\ \A n \in Machines : InOrder(eQ[n])
  BY DEF ScheduleInv, QueuesInOrderUnlessRotated, Clean
<1>3. /\ \A n \in Machines : at'[n] = IF n = m THEN "scheduled" ELSE at[n]
      /\ \A n \in Machines : priority'[n] = IF at[n] \in {"absent", "starting", "done"}
                                            THEN priority[n] ELSE RescheduleProcess(n)
      /\ \A n \in Machines : eQ'[n] = AdvanceTime(s, eQ[n])
      /\ \A n \in Machines : eQ[n] \in Seq(Events) /\ eQ'[n] \in Seq(Events)
  BY <1>1, <1>2 DEF TypeOK
<1>4. \A n \in Machines : at[n] # "stepping"
  BY <1>1 DEF Runs, Uninterrupted
<1>5. /\ s \in Nat
      /\ \A n \in Machines : eQ[n] # <<>> => s <= Head(eQ[n]).delay
      /\ AllEmpty \/ \E n \in Machines : eQ[n] # <<>> /\ Head(eQ[n]).delay = s
  BY <1>2, SmallestIsFirst
<1>6. \A n \in Machines : RescheduleProcess(n) = IF eQ[n] # <<>> /\ Head(eQ[n]).delay = s THEN 10 ELSE 1
  BY DEF RescheduleProcess
<1> HIDE DEF s
<1>7. ASSUME NEW n \in Machines
      PROVE  /\ DOMAIN eQ'[n] = DOMAIN eQ[n]
             /\ \A i \in DOMAIN eQ[n] : /\ eQ'[n][i].delay = eQ[n][i].delay - s
                                        /\ eQ'[n][i].due = eQ[n][i].due
                                        /\ eQ[n][i].delay \in Nat /\ s <= eQ[n][i].delay
  <2>1. \A i \in DOMAIN eQ[n] : eQ[n][i] \in Events
    BY <1>3
  <2>2. \A i \in DOMAIN eQ[n] : eQ[n][i].delay \in Nat
    BY <2>1 DEF Events
  <2>3. /\ DOMAIN AdvanceTime(s, eQ[n]) = DOMAIN eQ[n]
        /\ (InOrder(eQ[n]) /\ (eQ[n] # <<>> => s <= Head(eQ[n]).delay)) =>
              \A i \in DOMAIN eQ[n] : /\ AdvanceTime(s, eQ[n])[i].delay = eQ[n][i].delay - s
                                      /\ AdvanceTime(s, eQ[n])[i].due = eQ[n][i].due
                                      /\ s <= eQ[n][i].delay
    BY <1>3, <1>5, AdvanceKeeps
  <2>4. InOrder(eQ[n]) /\ (eQ[n] # <<>> => s <= Head(eQ[n]).delay)
    BY <1>2, <1>5
  <2>5. eQ'[n] = AdvanceTime(s, eQ[n])
    BY <1>3
  <2>6. QED
    BY <2>2, <2>3, <2>4, <2>5
<1>8. ASSUME NEW n \in Machines
      PROVE  /\ eQ'[n] = <<>> <=> eQ[n] = <<>>
             /\ HeadDue(eQ'[n]) <=> eQ[n] # <<>> /\ Head(eQ[n]).delay = s
             /\ HeadDue(eQ[n]) => HeadDue(eQ'[n])
  <2>1. /\ DOMAIN eQ[n] = 1 .. Len(eQ[n]) /\ DOMAIN eQ'[n] = 1 .. Len(eQ'[n])
        /\ Len(eQ[n]) \in Nat /\ Len(eQ'[n]) \in Nat
    BY <1>3
  <2>2. eQ[n] # <<>> <=> 1 \in DOMAIN eQ[n]
    BY <1>3, <2>1
  <2>3. eQ'[n] # <<>> <=> 1 \in DOMAIN eQ'[n]
    BY <1>3, <2>1
  <2>4. eQ[n] # <<>> => Head(eQ[n]) = eQ[n][1]
    BY <1>3
  <2>5. eQ'[n] # <<>> => Head(eQ'[n]) = eQ'[n][1]
    BY <1>3
  <2>6. eQ'[n] = <<>> <=> eQ[n] = <<>>
    BY <1>7, <2>2, <2>3
  <2>7. ASSUME eQ[n] # <<>>
        PROVE  /\ Head(eQ'[n]).delay = Head(eQ[n]).delay - s
               /\ Head(eQ[n]).delay \in Nat
    BY <1>7, <2>2, <2>4, <2>5, <2>6, <2>7
  <2>8. QED
    BY <1>5, <2>6, <2>7 DEF HeadDue
<1>9. \A n \in Machines : at[n] \notin {"absent", "starting", "done"} =>
         priority'[n] = IF HeadDue(eQ'[n]) THEN 10 ELSE 1
  BY <1>3, <1>6, <1>8
<1>10. DelaysExact'
  <2>1. ASSUME NEW n \in Machines, NEW e \in Range(eQ'[n])
        PROVE  e.due = now' + e.delay
    <3>1. PICK i \in DOMAIN eQ'[n] : e = eQ'[n][i]
      BY DEF Range
    <3>2. i \in DOMAIN eQ[n] /\ eQ[n][i] \in Range(eQ[n])
      BY <1>7, <3>1 DEF Range
    <3>3. eQ[n][i].due = now + eQ[n][i].delay
      BY <1>2, <3>2 DEF Timely, DelaysExact
    <3>4. now \in Nat
      BY <1>2 DEF TypeOK
    <3>5. QED
      BY <1>1, <1>5, <1>7, <3>1, <3>2, <3>3, <3>4
  <2>2. QED
    BY <2>1 DEF DelaysExact
<1>11. AbsentEmpty'
  BY <1>2, <1>3, <1>8 DEF Timely, AbsentEmpty
<1>12. Priorities'
  <2>1. ASSUME NEW n \in Machines, at'[n] = "starting"
        PROVE  priority'[n] = 20
    BY <1>2, <1>3, <2>1 DEF Timely, Priorities
  <2>2. ASSUME NEW n \in Machines, at'[n] = "receiving", eQ'[n] # <<>>
        PROVE  priority'[n] = 10
    <3>1. at[n] = "receiving" /\ ~AllEmpty
      BY <1>3, <1>8, <2>2 DEF AllEmpty
    <3>2. HeadDue(eQ[n])
      BY <1>2, <3>1 DEF Timely, ReceivingDue
    <3>3. QED
      BY <1>8, <1>9, <3>1, <3>2
  <2>3. ASSUME NEW n \in Machines, at'[n] = "scheduled"
        PROVE  priority'[n] \in {1, 10}
    BY <1>1, <1>3, <1>9, <2>3
  <2>4. \A n \in Machines : at'[n] # "stepping"
    BY <1>3, <1>4
  <2>5. QED
    BY <2>1, <2>2, <2>3, <2>4 DEF Priorities
<1>13. ScheduledDue'
  BY <1>1, <1>3, <1>9 DEF ScheduledDue
<1>14. SomeoneGoesOn'
  <2>1. CASE AllEmpty
    BY <1>8, <2>1 DEF AllEmpty, SomeoneGoesOn
  <2>2. CASE ~AllEmpty
    <3>1. PICK k \in Machines : eQ[k] # <<>> /\ Head(eQ[k]).delay = s
      BY <1>5, <2>2
    <3>2. HeadDue(eQ'[k]) /\ eQ'[k] # <<>>
      BY <1>8, <3>1
    <3>3. at[k] # "absent" /\ at[k] # "done"
      BY <1>2, <3>1 DEF Timely, AbsentEmpty, Clean
    <3>4. priority'[k] >= 10
      <4>1. CASE at[k] = "starting"
        BY <1>2, <1>3, <4>1 DEF Timely, Priorities
      <4>2. CASE at[k] # "starting"
        BY <1>9, <3>2, <3>3, <4>2
      <4>3. QED
        BY <4>1, <4>2
    <3>5. CanGoOn(k)'
      BY <1>3, <3>2, <3>3 DEF CanGoOn, Blocked
    <3>6. QED
      BY <3>4, <3>5 DEF SomeoneGoesOn
  <2>3. QED
    BY <2>1, <2>2
<1>15. ReceivingDue'
  <2>1. ASSUME NEW n \in Machines, at'[n] = "receiving"
        PROVE  \/ HeadDue(eQ'[n])
               \/ AllEmpty' /\ \A k \in Machines : at'[k] \notin {"stepping", "starting"}
    <3>1. \/ HeadDue(eQ[n])
          \/ AllEmpty /\ \A k \in Machines : at[k] \notin {"stepping", "starting"}
      BY <1>2, <1>3, <2>1 DEF Timely, ReceivingDue
    <3>2. AllEmpty => AllEmpty'
      BY <1>8 DEF AllEmpty
    <3>3. QED
      BY <1>3, <1>8, <3>1, <3>2
  <2>2. QED
    BY <2>1 DEF ReceivingDue
<1>16. QED
  BY <1>10, <1>11, <1>12, <1>13, <1>14, <1>15 DEF Timely

(***************************************************************************)
(* Who goes on without priority finds every queue empty.                   *)
(***************************************************************************)
LEMMA ResumeTimely ==
    ASSUME ScheduleInv, Clean, NEW m \in Machines, Resume(m)
    PROVE  Timely'
<1>1. /\ at[m] = "scheduled" /\ Runs(m) /\ eQ' = eQ /\ now' = now
      /\ priority' = [priority EXCEPT ![m] = 10]
      /\ \E p \in {"terminating", "receiving"} : at' = [at EXCEPT ![m] = p]
  BY DEF Resume
<1>2. TypeOK /\ Timely
  BY DEF ScheduleInv
<1>3. PICK p \in {"terminating", "receiving"} :
         /\ \A n \in Machines : at'[n] = IF n = m THEN p ELSE at[n]
         /\ \A n \in Machines : priority'[n] = IF n = m THEN 10 ELSE priority[n]
  BY <1>1, <1>2 DEF TypeOK
<1>4. \/ HeadDue(eQ[m])
      \/ AllEmpty /\ \A n \in Machines : at[n] \notin {"stepping", "starting"}
  <2>1. priority[m] \in {1, 10}
    BY <1>1, <1>2 DEF Timely, Priorities
  <2>2. CASE priority[m] = 10
    BY <1>1, <1>2, <2>2 DEF Timely, ScheduledDue
  <2>3. CASE priority[m] = 1
    <3>1. \A n \in Machines : CanGoOn(n) => priority[n] <= 1
      BY <1>1, <2>3 DEF Runs, Uninterrupted
    <3>2. AllEmpty
      <4>1. \A n \in Machines : priority[n] \in Nat
        BY <1>2 DEF TypeOK
      <4>2. QED
        BY <1>2, <3>1, <4>1 DEF Timely, SomeoneGoesOn
    <3>3. ASSUME NEW n \in Machines, at[n] \in {"stepping", "starting"}
          PROVE  FALSE
      <4>1. CanGoOn(n)
        BY <3>3 DEF CanGoOn, Blocked
      <4>2. priority[n] >= 10 /\ priority[n] \in Nat
        BY <1>2, <3>3 DEF Timely, Priorities, TypeOK
      <4>3. QED
        BY <3>1, <4>1, <4>2
    <3>4. QED
      BY <3>2, <3>3
  <2>4. QED
    BY <2>1, <2>2, <2>3
<1>5. DelaysExact'
  BY <1>1, <1>2 DEF Timely, DelaysExact
<1>6. AbsentEmpty'
  BY <1>1, <1>2, <1>3 DEF Timely, AbsentEmpty
<1>7. Priorities'
  BY <1>1, <1>2, <1>3 DEF Timely, Priorities
<1>8. ScheduledDue'
  BY <1>1, <1>2, <1>3 DEF Timely, ScheduledDue
<1>9. SomeoneGoesOn'
  <2>1. CASE AllEmpty
    BY <1>1, <2>1 DEF AllEmpty, SomeoneGoesOn
  <2>2. CASE HeadDue(eQ[m])
    <3>1. CanGoOn(m)'
      BY <1>1, <1>3, <2>2 DEF CanGoOn, Blocked, HeadDue
    <3>2. QED
      BY <1>3, <3>1 DEF SomeoneGoesOn
  <2>3. QED
    BY <1>4, <2>1, <2>2
<1>10. ReceivingDue'
  <2>1. AllEmpty' <=> AllEmpty
    BY <1>1 DEF AllEmpty
  <2>2. ASSUME NEW n \in Machines, at'[n] = "receiving"
        PROVE  \/ HeadDue(eQ[n])
               \/ AllEmpty /\ \A k \in Machines : at[k] \notin {"stepping", "starting"}
    <3>1. CASE n = m
      BY <1>4, <3>1
    <3>2. CASE n # m
      BY <1>2, <1>3, <2>2, <3>2 DEF Timely, ReceivingDue
    <3>3. QED
      BY <3>1, <3>2
  <2>3. QED
    BY <1>1, <1>3, <2>1, <2>2 DEF ReceivingDue
<1>11. QED
  BY <1>5, <1>6, <1>7, <1>8, <1>9, <1>10 DEF Timely

(***************************************************************************)
(* Every step keeps the schedule.                                          *)
(***************************************************************************)
LEMMA ScheduleStep ==
    ASSUME ScheduleInv, [Next]_vars
    PROVE  ScheduleInv'
<1>1. TypeOK' /\ QueuesInOrderUnlessRotated'
  BY QueueStep DEF ScheduleInv
<1>2. InvokedRun' /\ (Clean' => Clean)
  BY RunStep DEF ScheduleInv
<1> SUFFICES ASSUME Clean'
             PROVE  Timely'
  BY <1>1, <1>2 DEF ScheduleInv
<1>3. Clean /\ Timely
  BY <1>2 DEF ScheduleInv
<1>4. ASSUME UNCHANGED <<eQ, priority, at, now>>
      PROVE  Timely'
  BY <1>3, <1>4 DEF Timely, DelaysExact, AbsentEmpty, Priorities, ScheduledDue, SomeoneGoesOn,
     ReceivingDue, AllEmpty, CanGoOn, Blocked
<1>5. ASSUME NEW m \in Machines, NEW t \in Machines, NEW d \in Delays,
             NEW id \in SendIds \cup {NoId}, Send(m, t, d, id)
      PROVE  Timely'
  BY <1>1, <1>3, <1>5, SendTimely
<1>6. ASSUME NEW m \in Machines, NEW id \in SendIds, Cancel(m, id)
      PROVE  Timely'
  BY <1>1, <1>3, <1>6, CancelTimely
<1>7. ASSUME NEW m \in Machines, EnterFinal(m)
      PROVE  Timely'
  BY <1>4, <1>7 DEF EnterFinal
<1>8. ASSUME NEW n \in Nested, Enter(n) \/ Leave(n)
      PROVE  Timely'
  BY <1>4, <1>8 DEF Enter, Leave
<1>9. ASSUME NEW m \in Machines, ManageInvocations(m)
      PROVE  Timely'
  BY <1>3, <1>9, ManageTimely
<1>10. ASSUME NEW m \in Machines, Start(m)
       PROVE  Timely'
  BY <1>3, <1>10, StartTimely
<1>11. ASSUME NEW m \in Machines, ScheduleMachines(m)
       PROVE  Timely'
  BY <1>1, <1>3, <1>11, ScheduleTimely
<1>12. ASSUME NEW m \in Machines, Resume(m)
       PROVE  Timely'
  BY <1>3, <1>12, ResumeTimely
<1>13. ASSUME NEW m \in Machines, Receive(m)
       PROVE  Timely'
  BY <1>1, <1>3, <1>13, ReceiveTimely
<1>14. ASSUME NEW m \in Machines, TerminateMachine(m)
       PROVE  Timely'
  <2>1. at' = [at EXCEPT ![m] = "done"] /\ at \in [Machines -> Places]
    BY <1>14 DEF TerminateMachine, ScheduleInv, TypeOK
  <2>2. at'[m] = "done"
    BY <2>1
  <2>3. QED
    BY <2>2 DEF Clean
<1>15. CASE UNCHANGED vars
  BY <1>4, <1>15 DEF vars
<1>16. QED
  BY <1>5, <1>6, <1>7, <1>8, <1>9, <1>10, <1>11, <1>12, <1>13, <1>14, <1>15 DEF Next

(***************************************************************************)
(* The root starts in the middle of its steps and without events.          *)
(***************************************************************************)
LEMMA ScheduleInit ==
    ASSUME Init
    PROVE  ScheduleInv
<1>1. TypeOK /\ QueuesInOrderUnlessRotated
  BY QueueInit
<1>2. InvokedRun
  BY DEF Init, InvokedRun
<1>3. /\ \A n \in Machines : eQ[n] = <<>>
      /\ \A n \in Machines : at[n] = IF n = Root THEN "stepping" ELSE "absent"
      /\ \A n \in Machines : priority[n] = IF n = Root THEN 10 ELSE 0
  BY DEF Init
<1>4. DelaysExact
  BY <1>3 DEF DelaysExact, Range
<1>5. AllEmpty /\ AbsentEmpty /\ Priorities /\ ScheduledDue /\ ReceivingDue
  BY <1>3 DEF AllEmpty, AbsentEmpty, Priorities, ScheduledDue, ReceivingDue
<1>6. QED
  BY <1>1, <1>2, <1>4, <1>5 DEF ScheduleInv, Timely, SomeoneGoesOn

(***************************************************************************)
(* The invariant of the schedule: as long as no <cancel> has rotated a     *)
(* queue, no event was sent to a machine that does not run and no machine  *)
(* has ended, the delays are exact, whoever was given priority has an      *)
(* event that is due, and who waits has one or there is none               *)
(* (writeScheduleMachines, writeRescheduleProcess).                        *)
(***************************************************************************)
THEOREM ScheduleAlways == Spec => []ScheduleInv
<1>1. Init => ScheduleInv
  BY ScheduleInit
<1>2. ScheduleInv /\ [Next]_vars => ScheduleInv'
  BY ScheduleStep
<1>3. QED
  BY <1>1, <1>2, PTL DEF Spec

(***************************************************************************)
(* A machine receives an event when it is due and while no event that was  *)
(* due earlier waits in any queue, for any number of machines and any      *)
(* delays (writeScheduleMachines, writeFSMDequeueEvent).                   *)
(***************************************************************************)
THEOREM EventsInTime == Spec => ReceivedInTime
<1> DEFINE InTime(m) ==
               \/ rotated \/ stray
               \/ \E n \in Machines : at[n] = "done"
               \/ /\ Head(eQ[m]).due = now
                  /\ \A n \in Machines : \A i \in DOMAIN eQ[n] : eQ[n][i].due >= now
<1>1. ASSUME ScheduleInv, Next, NEW m \in Machines, at[m] = "receiving", at'[m] = "stepping"
      PROVE  InTime(m)
  <2>1. TypeOK /\ \A n \in Machines : at[n] \in Places
    BY <1>1 DEF ScheduleInv, TypeOK
  <2>2. eQ[m] # <<>>
    <3>1. ASSUME NEW k \in Machines, Receive(k)
          PROVE  eQ[m] # <<>>
      <4>1. at'[k] = "stepping" /\ eQ[k] # <<>> /\ \A n \in Machines : n # k => at'[n] = at[n]
        BY <2>1, <3>1 DEF Receive, TypeOK
      <4>2. QED
        BY <1>1, <4>1
    <3>2. ASSUME at' = at
          PROVE  FALSE
      BY <1>1, <3>2
    <3>3. ASSUME NEW k \in Machines,
                 Start(k) \/ ScheduleMachines(k) \/ Resume(k) \/ TerminateMachine(k)
          PROVE  FALSE
      <4>1. \/ at[k] = "starting" \/ at'[k] # "stepping"
        BY <2>1, <3>3 DEF Start, ScheduleMachines, Resume, TerminateMachine, TypeOK
      <4>2. \A n \in Machines : n # k => at'[n] = at[n]
        BY <2>1, <3>3 DEF Start, ScheduleMachines, Resume, TerminateMachine, TypeOK
      <4>3. QED
        BY <1>1, <4>1, <4>2
    <3>4. ASSUME NEW k \in Machines, ManageInvocations(k)
          PROVE  FALSE
      <4>1. at'[m] \in {"dequeueing", "starting", at[m]}
        BY <3>4 DEF ManageInvocations
      <4>2. QED
        BY <1>1, <4>1
    <3>5. QED
      BY <1>1, <3>1, <3>2, <3>3, <3>4 DEF Next, Send, Cancel, EnterFinal, Enter, Leave
  <2>3. ASSUME Clean
        PROVE  /\ Head(eQ[m]).due = now
               /\ \A n \in Machines : \A i \in DOMAIN eQ[n] : eQ[n][i].due >= now
    <3>1. Timely
      BY <1>1, <2>3 DEF ScheduleInv
    <3>2. HeadDue(eQ[m])
      BY <1>1, <2>2, <3>1 DEF Timely, ReceivingDue, AllEmpty
    <3>3. Head(eQ[m]) \in Range(eQ[m]) /\ now \in Nat
      BY <2>1, <2>2, TailKeeps DEF TypeOK
    <3>4. Head(eQ[m]).due = now
      BY <3>1, <3>2, <3>3 DEF Timely, DelaysExact, HeadDue
    <3>5. ASSUME NEW n \in Machines, NEW i \in DOMAIN eQ[n]
          PROVE  eQ[n][i].due >= now
      <4>1. eQ[n][i] \in Events /\ eQ[n][i] \in Range(eQ[n])
        BY <2>1 DEF TypeOK, Range
      <4>2. eQ[n][i].delay \in Nat
        BY <4>1 DEF Events
      <4>3. eQ[n][i].due = now + eQ[n][i].delay
        BY <3>1, <4>1 DEF Timely, DelaysExact
      <4>4. QED
        BY <3>3, <4>2, <4>3
    <3>6. QED
      BY <3>4, <3>5
  <2>4. QED
    BY <2>3 DEF Clean
<1>2. ScheduleInv /\ [Next]_vars =>
         [\A m \in Machines : (at[m] = "receiving" /\ at'[m] = "stepping") => InTime(m)]_vars
  BY <1>1
<1>3. QED
  BY <1>2, ScheduleAlways, PTL DEF Spec, ReceivedInTime
=============================================================================
