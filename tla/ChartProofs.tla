---------------------------- MODULE ChartProofs ----------------------------
(***************************************************************************)
(* What the operators of module Chart compute, for every chart.            *)
(***************************************************************************)
EXTENDS Chart, Issues, Induction, FiniteSetTheorems

Enabled(t, config, event, cond) ==
    Matches(t, config, event) /\ (Trans[t].guarded => cond[t] = "true")

(***************************************************************************)
(* What the pass over the transitions maintains: of the first n, those in  *)
(* set match the event, do not conflict, and pre-empt every enabled one    *)
(* that is missing.                                                        *)
(***************************************************************************)
SelectedUpto(n, set, config, event, cond) ==
    /\ set \subseteq {t \in 1 .. n : Enabled(t, config, event, cond)}
    /\ \A t, u \in set : t < u => u \notin Conflicts[t]
    /\ \A t \in 1 .. n :
          Enabled(t, config, event, cond) /\ t \notin set =>
              \E u \in set : u < t /\ t \in Conflicts[u]

(***************************************************************************)
(* The transitions are numbered from 1 to the length of their sequence.    *)
(***************************************************************************)
LEMMA LenTrans == Len(Trans) \in Nat /\ TransIdx = 1 .. Len(Trans)
  BY TransAssumption DEF TransIdx

Selections == [taken : SUBSET TransIdx, errors : Seq({ErrorExecution})]

(***************************************************************************)
(* Considering one transition adds at most that transition to what is      *)
(* selected, and at most an error.                                         *)
(***************************************************************************)
LEMMA ConsiderType ==
    ASSUME NEW t \in TransIdx, NEW sofar \in Selections, NEW config, NEW event, NEW cond
    PROVE  ConsiderTransition(t, sofar, config, event, cond) \in Selections
<1> DEFINE free == Matches(t, config, event) /\ \A u \in sofar.taken : t \notin Conflicts[u]
<1>1. [sofar EXCEPT !.taken = @ \cup {t}] \in Selections
  BY DEF Selections
<1>2. [sofar EXCEPT !.errors = Append(@, ErrorExecution)] \in Selections
  BY DEF Selections
<1>3. QED
  BY <1>1, <1>2 DEF ConsiderTransition

(***************************************************************************)
(* SelectTransitions is its pass over the transitions: a function that     *)
(* starts with nothing selected and considers one transition at a time.    *)
(***************************************************************************)
LEMMA SelectPass ==
    ASSUME NEW config, NEW event, NEW cond
    PROVE  \E pass \in [0 .. Len(Trans) -> Selections] :
              /\ SelectTransitions(config, event, cond) = pass[Len(Trans)]
              /\ pass[0] = NothingSelected
              /\ \A t \in TransIdx :
                    pass[t] = ConsiderTransition(t, pass[t - 1], config, event, cond)
<1> DEFINE N == Len(Trans)
           Rec(f) == [t \in 0 .. N |->
                         IF t = 0 THEN NothingSelected
                         ELSE ConsiderTransition(t, f[t - 1], config, event, cond)]
           pass == CHOOSE f : f = Rec(f)
           step == [p \in (1 .. N) \X Selections |->
                       ConsiderTransition(p[1], p[2], config, event, cond)]
<1>1. SelectTransitions(config, event, cond) = pass[N]
  BY DEF SelectTransitions
<1>2. N \in Nat /\ TransIdx = 1 .. N
  BY LenTrans
<1>3. NothingSelected \in Selections
  BY DEF NothingSelected, Selections
<1>4. step \in [(1 .. N) \X Selections -> Selections]
  BY <1>2, ConsiderType
<1>5. PICK f : IsRecursive(f, N, Selections, NothingSelected, step)
  <2> HIDE DEF step, N
  <2>1. QED
    BY <1>2, <1>3, <1>4, FiniteRecursion
<1>6. ASSUME NEW n \in 1 .. N
      PROVE  f[n] = ConsiderTransition(n, f[n - 1], config, event, cond)
  <2>1. n - 1 \in 0 .. N
    BY <1>2
  <2>2. f[n - 1] \in Selections
    BY <1>5, <2>1 DEF IsRecursive
  <2>3. step[<<n, f[n - 1]>>] = ConsiderTransition(n, f[n - 1], config, event, cond)
    BY <2>2
  <2>4. QED
    BY <1>5, <2>3 DEF IsRecursive
<1>7. f = Rec(f)
  BY <1>2, <1>5, <1>6 DEF IsRecursive
<1>8. pass = Rec(pass)
  <2> HIDE DEF Rec
  <2>1. QED
    BY <1>7
<1>9. /\ pass[0] = NothingSelected
      /\ \A t \in 1 .. N : pass[t] = ConsiderTransition(t, pass[t - 1], config, event, cond)
      /\ pass = [t \in 0 .. N |-> pass[t]]
  <2> HIDE DEF pass
  <2>1. QED
    BY <1>2, <1>8
<1>10. \A t \in 0 .. N : pass[t] \in Selections
  <2> HIDE DEF pass, N
  <2> DEFINE S == {n \in 0 .. N : pass[n] \in Selections}
  <2>1. 0 \in S
    BY <1>2, <1>3, <1>9
  <2>2. ASSUME NEW n \in 0 .. N - 1, n \in S
        PROVE  n + 1 \in S
    <3>1. n + 1 \in 1 .. N /\ n + 1 \in 0 .. N /\ (n + 1) - 1 = n
      BY <1>2
    <3>2. pass[n + 1] = ConsiderTransition(n + 1, pass[n], config, event, cond)
      BY <1>9, <3>1
    <3>3. QED
      BY <1>2, <2>2, <3>1, <3>2, ConsiderType
  <2> HIDE DEF S
  <2>3. 0 .. N \subseteq S
    BY <1>2, <2>1, <2>2, IntervalInduction
  <2>4. QED
    BY <2>3 DEF S
<1>11. pass \in [0 .. N -> Selections]
  <2> HIDE DEF pass, N
  <2>1. QED
    BY <1>9, <1>10
<1>12. QED
  <2> HIDE DEF pass
  <2>1. QED
    BY <1>1, <1>2, <1>9, <1>11

(***************************************************************************)
(* SELECT_TRANSITIONS selects an optimal set: transitions that are enabled *)
(* and do not conflict pairwise, such that an enabled transition is only   *)
(* passed over for an earlier one it conflicts with.                       *)
(***************************************************************************)
THEOREM SelectionOptimal ==
    ASSUME NEW config, NEW event, NEW cond
    PROVE  SelectedUpto(Len(Trans), SelectTransitions(config, event, cond).taken,
                        config, event, cond)
<1> DEFINE N == Len(Trans)
           Good(n, sel) == SelectedUpto(n, sel.taken, config, event, cond)
<1>1. PICK pass \in [0 .. N -> Selections] :
         /\ SelectTransitions(config, event, cond) = pass[N]
         /\ pass[0] = NothingSelected
         /\ \A t \in TransIdx :
               pass[t] = ConsiderTransition(t, pass[t - 1], config, event, cond)
  BY SelectPass
<1>2. N \in Nat /\ TransIdx = 1 .. N
  BY LenTrans
<1> DEFINE S == {n \in 0 .. N : Good(n, pass[n])}
<1> HIDE DEF N
<1>3. 0 \in S
  BY <1>1, <1>2 DEF SelectedUpto, NothingSelected
<1>4. ASSUME NEW n \in 0 .. N - 1, n \in S
      PROVE  n + 1 \in S
  <2> DEFINE t == n + 1
             old == pass[n].taken
             new == pass[t].taken
             free == Matches(t, config, event) /\ \A u \in old : t \notin Conflicts[u]
  <2>1. t \in 1 .. N /\ t \in 0 .. N /\ t - 1 = n /\ n \in 0 .. N /\ t \in TransIdx
    BY <1>2
  <2>2. pass[t] = ConsiderTransition(t, pass[n], config, event, cond)
    BY <1>1, <2>1
  <2>3. pass[n] \in Selections /\ old \subseteq TransIdx
    BY <1>1, <2>1 DEF Selections
  <2>4. SelectedUpto(n, old, config, event, cond)
    BY <1>4
  <2>5. CASE free /\ (Trans[t].guarded => cond[t] = "true")
    <3>1. new = old \cup {t}
      BY <2>2, <2>3, <2>5 DEF ConsiderTransition, Selections
    <3>2. QED
      BY <2>1, <2>3, <2>4, <2>5, <3>1 DEF SelectedUpto, Enabled
  <2>6. CASE ~(free /\ (Trans[t].guarded => cond[t] = "true"))
    <3>1. new = old
      BY <2>2, <2>3, <2>6 DEF ConsiderTransition, Selections
    <3>2. QED
      BY <2>1, <2>3, <2>4, <2>6, <3>1 DEF SelectedUpto, Enabled
  <2>7. QED
    BY <2>5, <2>6
<1> HIDE DEF S
<1>5. N \in S
  <2>1. 0 .. N \subseteq S
    BY <1>2, <1>3, <1>4, IntervalInduction
  <2>2. QED
    BY <1>2, <2>1
<1>6. QED
  BY <1>1, <1>5 DEF S, N

(***************************************************************************)
(* REMEMBER_HISTORY remembers proper states only.  For a state that a      *)
(* history is about whose parent is left it remembers whether the state is *)
(* active, for another one it remembers what it did before.                *)
(***************************************************************************)
Renewed(exit, n) == UNION {Completion[h] : h \in {i \in Histories : i < n /\ Parent[i] \in exit}}

LEMMA RememberedStates ==
    ASSUME NEW history \in SUBSET ProperStates, NEW config \in SUBSET ProperStates, NEW exit
    PROVE  /\ RememberHistory(history, config, exit) \in SUBSET ProperStates
           /\ RememberHistory(history, config, exit) =
                 (history \ Renewed(exit, NumStates)) \cup (config \cap Renewed(exit, NumStates))
<1> DEFINE N == NumStates
           V == SUBSET ProperStates
           Rec(f) == [i \in 0 .. N |->
                         IF i = 0 THEN history ELSE RememberAt(i - 1, f[i - 1], config, exit)]
           pass == CHOOSE f : f = Rec(f)
           step == [p \in (1 .. N) \X V |-> RememberAt(p[1] - 1, p[2], config, exit)]
<1>1. RememberHistory(history, config, exit) = pass[N]
  BY DEF RememberHistory
<1>2. N \in Nat
  BY ShapeAssumption
<1>3. ASSUME NEW h, NEW v \in V
      PROVE  RememberAt(h, v, config, exit) \in V
  BY DEF RememberAt
<1>4. step \in [(1 .. N) \X V -> V]
  BY <1>3
<1>5. PICK f : IsRecursive(f, N, V, history, step)
  <2> HIDE DEF step, N
  <2>1. QED
    BY <1>2, <1>4, FiniteRecursion
<1>6. ASSUME NEW n \in 1 .. N
      PROVE  f[n] = RememberAt(n - 1, f[n - 1], config, exit)
  <2>1. n - 1 \in 0 .. N
    BY <1>2
  <2>2. f[n - 1] \in V
    BY <1>5, <2>1 DEF IsRecursive
  <2>3. step[<<n, f[n - 1]>>] = RememberAt(n - 1, f[n - 1], config, exit)
    BY <2>2
  <2>4. QED
    BY <1>5, <2>3 DEF IsRecursive
<1>7. f = Rec(f)
  BY <1>2, <1>5, <1>6 DEF IsRecursive
<1>8. pass = Rec(pass)
  <2> HIDE DEF Rec
  <2>1. QED
    BY <1>7
<1>9. pass[0] = history /\ \A n \in 1 .. N : pass[n] = RememberAt(n - 1, pass[n - 1], config, exit)
  <2> HIDE DEF pass
  <2>1. QED
    BY <1>2, <1>8
<1> HIDE DEF pass, N, V
<1> DEFINE After(n) == (history \ Renewed(exit, n)) \cup (config \cap Renewed(exit, n))
           S == {n \in 0 .. N : pass[n] = After(n)}
<1>10. 0 \in S
  <2>1. \A h \in Histories : ~(h < 0)
    BY DEF Histories, States
  <2>2. Renewed(exit, 0) = {}
    BY <2>1 DEF Renewed
  <2>3. QED
    BY <1>2, <1>9, <2>2
<1>11. ASSUME NEW n \in 0 .. N - 1, n \in S
       PROVE  n + 1 \in S
  <2>1. n + 1 \in 1 .. N /\ n + 1 \in 0 .. N /\ (n + 1) - 1 = n /\ n \in States
    BY <1>2 DEF N, States
  <2>2. pass[n + 1] = RememberAt(n, After(n), config, exit)
    BY <1>9, <1>11, <2>1
  <2>3. \A h \in Histories : h < n + 1 <=> h < n \/ h = n
    BY DEF Histories, States
  <2>4. CASE IsHistory(n) /\ Parent[n] \in exit
    <3>1. n \in Histories
      BY <2>1, <2>4 DEF Histories
    <3>2. Renewed(exit, n + 1) = Renewed(exit, n) \cup Completion[n]
      BY <2>3, <2>4, <3>1 DEF Renewed
    <3>3. pass[n + 1] = (After(n) \ Completion[n]) \cup (Completion[n] \cap config)
      BY <2>2, <2>4 DEF RememberAt
    <3>4. QED
      BY <2>1, <3>2, <3>3
  <2>5. CASE ~(IsHistory(n) /\ Parent[n] \in exit)
    <3>1. ~(n \in Histories /\ Parent[n] \in exit)
      BY <2>5 DEF Histories
    <3>2. Renewed(exit, n + 1) = Renewed(exit, n)
      BY <2>3, <3>1 DEF Renewed
    <3>3. pass[n + 1] = After(n)
      BY <2>2, <2>5 DEF RememberAt
    <3>4. QED
      BY <2>1, <3>2, <3>3
  <2>6. QED
    BY <2>4, <2>5
<1> HIDE DEF S
<1>12. 0 .. N \subseteq S
  BY <1>2, <1>10, <1>11, IntervalInduction
<1>13. pass[N] = After(N)
  BY <1>2, <1>12 DEF S
<1>14. QED
  BY <1>1, <1>13 DEF N

-----------------------------------------------------------------------------
(* A microstep of a well-formed chart leads from a legal configuration to  *)
(* a legal one.  First, the tree of the states.                            *)

(***************************************************************************)
(* A non-empty set of naturals below a bound has a greatest element.       *)
(***************************************************************************)
LEMMA GreatestElement ==
    ASSUME NEW n \in Nat, NEW S \in SUBSET (0 .. n), S # {}
    PROVE  \E m \in S : \A k \in S : k <= m
<1> DEFINE R == {n - k : k \in S}
<1>1. R \in SUBSET Nat /\ R # {}
  <2>1. \A k \in S : n - k \in Nat
    OBVIOUS
  <2>2. PICK k \in S : TRUE
    OBVIOUS
  <2>3. n - k \in R
    OBVIOUS
  <2>4. QED
    BY <2>1, <2>3
<1>2. PICK r \in R : \A k \in R : r <= k
  BY <1>1, LeastElement
<1>3. PICK m \in S : r = n - m
  OBVIOUS
<1>4. ASSUME NEW k \in S
      PROVE  k <= m
  <2>1. n - k \in R
    OBVIOUS
  <2>2. r <= n - k
    BY <1>2, <2>1
  <2>3. QED
    BY <1>3, <2>2
<1>5. QED
  BY <1>4

(***************************************************************************)
(* The descendants of a state are states after it, and a state is an       *)
(* ancestor of its descendants.                                            *)
(***************************************************************************)
LEMMA Tables ==
    /\ NumStates \in Nat \ {0}
    /\ 0 \in States
    /\ States \subseteq Nat
    /\ \A s \in States : Descendants[s] = (s + 1) .. Last[s]
    /\ \A s \in States : Descendants[s] \subseteq States
    /\ \A s \in States : Ancestors[s] = {a \in States : s \in Descendants[a]}
    /\ \A s \in States : Children[s] = {c \in Descendants[s] : Parent[c] = s}
    /\ \A s \in States : ChildStates[s] = Children[s] \cap ProperStates
  BY ShapeAssumption DEF States, Descendants, Ancestors, Children, ChildStates

(***************************************************************************)
(* The ancestors of a state are the states it is nested in.                *)
(***************************************************************************)
LEMMA AncestorsAre ==
    /\ 0 \in States
    /\ \A s \in States : \A a : a \in Ancestors[s] <=> a \in States /\ s \in Descendants[a]
    /\ \A s \in States : \A a : a \in Descendants[s] => a \in States
  BY Tables

(***************************************************************************)
(* Nesting is transitive and goes forward in document order; <scxml> is    *)
(* around every other state; of two states around a third one is nested in *)
(* the other.                                                              *)
(***************************************************************************)
LEMMA Nested ==
    ASSUME NEW a \in States, NEW b \in States
    PROVE  /\ b \in Descendants[a] => a < b /\ Descendants[b] \subseteq Descendants[a]
           /\ b # 0 => b \in Descendants[0]
           /\ \A s \in States : s \in Descendants[a] /\ s \in Descendants[b] =>
                 a = b \/ a \in Descendants[b] \/ b \in Descendants[a]
<1>1. Descendants[a] = (a + 1) .. Last[a] /\ Descendants[b] = (b + 1) .. Last[b]
  BY Tables
<1>2. Descendants[0] = 1 .. Last[0] /\ Last[0] = NumStates - 1
  BY Tables, ShapeAssumption
<1>3. a \in Nat /\ b \in Nat /\ Last[a] \in Nat /\ Last[b] \in Nat /\ b <= NumStates - 1
  BY Tables, ShapeAssumption DEF States
<1>4. b \in Descendants[a] => Last[b] <= Last[a]
  BY ShapeAssumption
<1>5. b \in Descendants[a] => a < b /\ Descendants[b] \subseteq Descendants[a]
  BY <1>1, <1>3, <1>4
<1>6. b # 0 => b \in Descendants[0]
  BY <1>2, <1>3, Tables
<1>7. ASSUME NEW s \in States, s \in Descendants[a], s \in Descendants[b]
      PROVE  a = b \/ a \in Descendants[b] \/ b \in Descendants[a]
  <2>1. s \in Nat
    BY Tables
  <2>2. QED
    BY <1>1, <1>3, <1>7, <2>1
<1>8. QED
  BY <1>5, <1>6, <1>7

(***************************************************************************)
(* The parent of a state is its innermost ancestor.                        *)
(***************************************************************************)
LEMMA ParentInnermost ==
    ASSUME NEW s \in States, s # 0
    PROVE  /\ Parent[s] \in States
           /\ s \in Descendants[Parent[s]]
           /\ s \in Children[Parent[s]]
           /\ \A a \in States : s \in Descendants[a] => a = Parent[s] \/ Parent[s] \in Descendants[a]
<1>1. Ancestors[s] = {a \in States : s \in Descendants[a]}
  BY Tables
<1>2. 0 \in Ancestors[s]
  BY <1>1, Tables, Nested
<1>3. s \in Nat
  BY Tables
<1>4. Ancestors[s] \in SUBSET (0 .. s)
  <2>1. ASSUME NEW a \in Ancestors[s]
        PROVE  a \in 0 .. s
    <3>1. a \in States /\ s \in Descendants[a] /\ a \in Nat
      BY <1>1, Tables
    <3>2. a < s
      BY <3>1, Nested
    <3>3. QED
      BY <1>3, <3>1, <3>2
  <2>2. QED
    BY <2>1
<1>5. \E p \in Ancestors[s] : \A a \in Ancestors[s] : a <= p
  BY <1>2, <1>3, <1>4, GreatestElement
<1>6. Parent[s] = CHOOSE p \in Ancestors[s] : \A a \in Ancestors[s] : a <= p
  BY DEF Parent
<1>7. Parent[s] \in Ancestors[s] /\ \A a \in Ancestors[s] : a <= Parent[s]
  BY <1>5, <1>6
<1>8. Parent[s] \in States /\ s \in Descendants[Parent[s]]
  BY <1>1, <1>7
<1>9. ASSUME NEW a \in States, s \in Descendants[a]
      PROVE  a = Parent[s] \/ Parent[s] \in Descendants[a]
  <2>1. a <= Parent[s]
    BY <1>1, <1>7, <1>9
  <2>2. a = Parent[s] \/ a \in Descendants[Parent[s]] \/ Parent[s] \in Descendants[a]
    BY <1>8, <1>9, Nested
  <2>3. a \in Nat /\ Parent[s] \in Nat
    BY <1>8, Tables
  <2>4. a \in Descendants[Parent[s]] => Parent[s] < a
    BY <1>8, Nested
  <2>5. QED
    BY <2>1, <2>2, <2>3, <2>4
<1>10. s \in Children[Parent[s]]
  BY <1>8, Tables
<1>11. QED
  BY <1>8, <1>9, <1>10

(***************************************************************************)
(* Towards a descendant there is a child.                                  *)
(***************************************************************************)
LEMMA ChildTowards ==
    ASSUME NEW a \in States, NEW s \in Descendants[a]
    PROVE  \E c \in Children[a] : c = s \/ s \in Descendants[c]
<1> DEFINE S == {c \in Descendants[a] : c = s \/ s \in Descendants[c]}
<1>1. s \in S /\ S \in SUBSET Nat /\ S \subseteq States
  BY Tables
<1>2. PICK c \in S : \A k \in S : c <= k
  BY <1>1, LeastElement
<1>3. c \in States /\ c # 0 /\ c \in Descendants[a] /\ c \in Nat
  BY <1>1, <1>2, Tables, Nested
<1>4. Parent[c] \in States /\ c \in Descendants[Parent[c]]
      /\ (a = Parent[c] \/ Parent[c] \in Descendants[a])
  BY <1>3, ParentInnermost
<1>5. ASSUME Parent[c] \in Descendants[a]
      PROVE  FALSE
  <2>1. s \in Descendants[Parent[c]]
    BY <1>2, <1>3, <1>4, Nested
  <2>2. c <= Parent[c]
    BY <1>2, <1>5, <2>1
  <2>3. Parent[c] < c /\ Parent[c] \in Nat
    BY <1>3, <1>4, Nested, Tables
  <2>4. QED
    BY <1>3, <2>2, <2>3
<1>6. c \in Children[a]
  BY <1>3, <1>4, <1>5, Tables
<1>7. QED
  BY <1>2, <1>6

(***************************************************************************)
(* A child's ancestors are its parent and the ancestors of its parent.     *)
(***************************************************************************)
LEMMA AncestorsOfChild ==
    ASSUME NEW p \in States, NEW c \in Children[p]
    PROVE  /\ c \in States /\ c # 0 /\ Parent[c] = p
           /\ c \in Descendants[p]
           /\ p < c
           /\ Ancestors[c] = Ancestors[p] \cup {p}
<1>1. c \in States /\ Parent[c] = p /\ c \in Descendants[p]
  BY Tables
<1>2. p < c /\ c # 0
  BY <1>1, Tables, Nested
<1>3. Ancestors[c] \subseteq Ancestors[p] \cup {p}
  <2>1. ASSUME NEW a \in Ancestors[c]
        PROVE  a \in Ancestors[p] \cup {p}
    <3>1. a \in States /\ c \in Descendants[a]
      BY <1>1, Tables
    <3>2. a = p \/ p \in Descendants[a]
      BY <1>1, <1>2, <3>1, ParentInnermost
    <3>3. QED
      BY <3>1, <3>2, Tables
  <2>2. QED
    BY <2>1
<1>4. Ancestors[p] \cup {p} \subseteq Ancestors[c]
  <2>1. ASSUME NEW a \in States, p \in Descendants[a]
        PROVE  c \in Descendants[a]
    BY <1>1, <2>1, Nested
  <2>2. /\ Ancestors[p] = {a \in States : p \in Descendants[a]}
        /\ Ancestors[c] = {a \in States : c \in Descendants[a]}
    BY <1>1, Tables
  <2>3. QED
    BY <1>1, <2>1, <2>2
<1>5. QED
  BY <1>1, <1>2, <1>3, <1>4

(***************************************************************************)
(* A state with descendants is proper, and a pseudo state has none.        *)
(***************************************************************************)
LEMMA PseudoLeaf ==
    ASSUME NEW s \in States
    PROVE  /\ ~IsProper(s) => Descendants[s] = {}
           /\ Ancestors[s] \subseteq ProperStates
<1>1. ASSUME NEW a \in States, ~IsProper(a)
      PROVE  Descendants[a] = {}
  <2>1. Last[a] = a
    BY <1>1, TypeAssumption DEF IsProper
  <2>2. a \in Nat /\ Descendants[a] = (a + 1) .. a
    BY <2>1, Tables
  <2>3. QED
    BY <2>2
<1>2. QED
  BY <1>1, Tables DEF ProperStates

(***************************************************************************)
(* A set with the ancestors of its states is closed under ancestors.       *)
(***************************************************************************)
LEMMA WithAncestorsClosed ==
    ASSUME NEW set \in SUBSET States
    PROVE  /\ WithAncestors(set) \in SUBSET States
           /\ set \subseteq WithAncestors(set)
           /\ \A s \in WithAncestors(set) : Ancestors[s] \subseteq WithAncestors(set)
           /\ \A s \in WithAncestors(set) : s \in set \/ \E x \in set : x \in Descendants[s]
<1>1. \A s \in WithAncestors(set) : s \in set \/ \E x \in set : s \in Ancestors[x]
  BY DEF WithAncestors
<1>2. ASSUME NEW s \in WithAncestors(set)
      PROVE  s \in set \/ \E x \in set : s \in States /\ x \in Descendants[s]
  BY <1>1, Tables
<1>3. WithAncestors(set) \in SUBSET States
  BY <1>2
<1>4. ASSUME NEW s \in WithAncestors(set), NEW a \in Ancestors[s]
      PROVE  a \in WithAncestors(set)
  <2>1. s \in States /\ a \in States /\ s \in Descendants[a]
    BY <1>3, Tables
  <2>2. PICK x \in set : x = s \/ x \in Descendants[s]
    BY <1>2
  <2>3. x \in States /\ x \in Descendants[a]
    BY <2>1, <2>2, Nested
  <2>4. a \in Ancestors[x]
    BY <2>1, <2>3, Tables
  <2>5. QED
    BY <2>4 DEF WithAncestors
<1>5. QED
  BY <1>2, <1>3, <1>4 DEF WithAncestors

-----------------------------------------------------------------------------
(* The pass over the entry set. *)

(***************************************************************************)
(* A configuration c of which the states in d are left: d is a union of    *)
(* whole subtrees inside c, and what is kept is closed under ancestors and *)
(* keeps every child of a parallel state.                                  *)
(***************************************************************************)
Frame(c, d) ==
    /\ c \subseteq ProperStates
    /\ d \subseteq States
    /\ \A s \in d : Descendants[s] \subseteq d /\ Ancestors[s] \subseteq c \cup d
    /\ \A s \in c \ d : Ancestors[s] \subseteq c \ d
    /\ \A s \in c \ d : Type[s] = "parallel" => ChildStates[s] \subseteq c \ d

(***************************************************************************)
(* What the pass maintains of the entry set e, the states before i having  *)
(* been completed: it is closed under ancestors, a pseudo state in it is   *)
(* still ahead and alone in its parent, but for the regions of a parallel  *)
(* one, at most one child of a compound state is entered or kept, and the  *)
(* states before i are complete.                                           *)
(***************************************************************************)
InsideFrame(e, c, d) ==
    /\ e \subseteq c \cup d
    /\ \A s \in e : Ancestors[s] \subseteq e

PseudoAhead(i, e, d) ==
    \A s \in e :
        \/ IsProper(s)
        \/ /\ s >= i
           /\ Parent[s] \in d
           /\ e \cap Descendants[Parent[s]] \subseteq {s} \cup Regions(Parent[s])

OneChild(e, c, d) ==
    \A p \in States : Type[p] = "compound" =>
        \A x, y \in Children[p] \cap (e \cup (c \ d)) : x = y

Completed(i, e, c, d) ==
    \A s \in e : s < i =>
        /\ Type[s] = "parallel" => ChildStates[s] \subseteq e
        /\ Type[s] = "compound" =>
              e \cap Descendants[s] # {} \/ (c \ d) \cap Descendants[s] # {}

KeptCompleted(e, c, d) ==
    \A s \in c \ d : Type[s] = "compound" =>
        \/ e \cap Descendants[s] # {}
        \/ c \cap Descendants[s] # {} /\ c \cap d \cap Descendants[s] = {}

EntryInv(i, e, c, d) ==
    /\ InsideFrame(e, c, d)
    /\ PseudoAhead(i, e, d)
    /\ OneChild(e, c, d)
    /\ Completed(i, e, c, d)
    /\ KeptCompleted(e, c, d)

(***************************************************************************)
(* A state that is not entered, or is complete as it is, changes nothing.  *)
(***************************************************************************)
LEMMA NothingToComplete ==
    ASSUME NEW c, NEW d, NEW e, NEW i \in States, Frame(c, d), EntryInv(i, e, c, d),
           i \in e => /\ Type[i] \in {"atomic", "final", "compound"}
                      /\ Type[i] = "compound" =>
                            e \cap Descendants[i] # {} \/ (c \ d) \cap Descendants[i] # {}
    PROVE  EntryInv(i + 1, e, c, d)
<1>1. e \subseteq Nat /\ i \in Nat
  BY Tables DEF EntryInv, InsideFrame, Frame, ProperStates
<1>2. PseudoAhead(i + 1, e, d)
  <2> SUFFICES ASSUME NEW s \in e, ~IsProper(s)
               PROVE  /\ s >= i + 1
                      /\ Parent[s] \in d
                      /\ e \cap Descendants[Parent[s]] \subseteq {s} \cup Regions(Parent[s])
    BY DEF PseudoAhead
  <2>1. /\ s >= i
        /\ Parent[s] \in d
        /\ e \cap Descendants[Parent[s]] \subseteq {s} \cup Regions(Parent[s])
    BY DEF EntryInv, PseudoAhead
  <2>2. s # i
    BY DEF IsProper, Pseudo
  <2>3. QED
    BY <1>1, <2>1, <2>2
<1>3. Completed(i + 1, e, c, d)
  <2> SUFFICES ASSUME NEW s \in e, s < i + 1
               PROVE  /\ Type[s] = "parallel" => ChildStates[s] \subseteq e
                      /\ Type[s] = "compound" =>
                            e \cap Descendants[s] # {} \/ (c \ d) \cap Descendants[s] # {}
    BY DEF Completed
  <2>1. CASE s = i
    BY <2>1
  <2>2. CASE s # i
    <3>1. s < i
      BY <1>1, <2>2
    <3>2. QED
      BY <3>1 DEF EntryInv, Completed
  <2>3. QED
    BY <2>1, <2>2
<1>4. QED
  BY <1>2, <1>3 DEF EntryInv

(***************************************************************************)
(* A pseudo state that is still ahead is not in a parent of a state that   *)
(* is entered before.                                                      *)
(***************************************************************************)
LEMMA NoneBeforePseudo ==
    ASSUME NEW c, NEW d, NEW e, Frame(c, d), NEW i \in e, i \in States, EntryInv(i, e, c, d),
           NEW s \in e, ~IsProper(s), s # i
    PROVE  i \notin Descendants[Parent[s]]
<1> SUFFICES ASSUME i \in Descendants[Parent[s]]
             PROVE  FALSE
  OBVIOUS
<1>1. s \in States /\ s # 0 /\ s \in Nat /\ i \in Nat
  BY Tables, TypeAssumption DEF EntryInv, InsideFrame, Frame, ProperStates, IsProper, Pseudo
<1>2. s >= i /\ i \in Regions(Parent[s])
  BY DEF EntryInv, PseudoAhead
<1>3. Parent[s] \in States
  BY <1>1, ParentInnermost
<1>4. i \in ChildStates[Parent[s]]
  BY <1>2 DEF Regions
<1>5. i # 0 /\ Parent[i] = Parent[s] /\ IsProper(i)
  <2>1. i \in Children[Parent[s]] /\ i \in ProperStates
    BY <1>3, <1>4, Tables
  <2>2. QED
    BY <1>3, <2>1, AncestorsOfChild DEF ProperStates
<1>6. s < i
  BY <1>1, <1>5, TypeAssumption
<1>7. QED
  BY <1>1, <1>2, <1>6

(***************************************************************************)
(* With a parallel state its children are entered.                         *)
(***************************************************************************)
LEMMA CompleteParallel ==
    ASSUME NEW c, NEW d, NEW e, NEW i \in e, i \in States, WellFormedChart, Frame(c, d),
           EntryInv(i, e, c, d), Type[i] = "parallel"
    PROVE  EntryInv(i + 1, e \cup ChildStates[i], c, d)
<1> DEFINE f == e \cup ChildStates[i]
<1>1. e \subseteq States /\ i \in Nat
  BY Tables DEF EntryInv, InsideFrame, Frame, ProperStates
<1>2. ASSUME NEW x \in ChildStates[i]
      PROVE  /\ x \in States /\ x \in Children[i] /\ IsProper(x)
             /\ Parent[x] = i
             /\ i < x
             /\ x \in Descendants[i]
             /\ Ancestors[x] = Ancestors[i] \cup {i}
  <2>1. x \in Children[i] /\ IsProper(x)
    BY Tables DEF ProperStates
  <2>2. QED
    BY <2>1, AncestorsOfChild
<1>3. InsideFrame(f, c, d)
  <2>1. \A s \in e : Ancestors[s] \subseteq e
    BY DEF EntryInv, InsideFrame
  <2>2. \A x \in ChildStates[i] : Ancestors[x] \subseteq e
    BY <1>2, <2>1
  <2>3. ChildStates[i] \subseteq c \cup d
    <3>1. CASE i \in d
      BY <1>2, <3>1 DEF Frame
    <3>2. CASE i \in c \ d
      BY <3>2 DEF Frame
    <3>3. QED
      BY <3>1, <3>2 DEF EntryInv, InsideFrame
  <2>4. QED
    BY <2>1, <2>2, <2>3 DEF EntryInv, InsideFrame
<1>4. PseudoAhead(i + 1, f, d)
  <2> SUFFICES ASSUME NEW s \in f, ~IsProper(s)
               PROVE  /\ s >= i + 1
                      /\ Parent[s] \in d
                      /\ f \cap Descendants[Parent[s]] \subseteq {s} \cup Regions(Parent[s])
    BY DEF PseudoAhead
  <2>1. s \in e /\ s \in Nat /\ s # i
    BY <1>1, <1>2, Tables DEF IsProper, Pseudo
  <2>2. /\ s >= i
        /\ Parent[s] \in d
        /\ e \cap Descendants[Parent[s]] \subseteq {s} \cup Regions(Parent[s])
    BY <2>1 DEF EntryInv, PseudoAhead
  <2>3. Parent[s] \in States
    BY <2>2 DEF Frame
  <2>4. ASSUME NEW x \in ChildStates[i], x \in Descendants[Parent[s]]
        PROVE  x \in Regions(Parent[s])
    <3>1. Parent[s] \in Ancestors[x]
      BY <1>2, <2>3, <2>4, AncestorsAre, Tables
    <3>2. i \notin Descendants[Parent[s]]
      BY <2>1, NoneBeforePseudo
    <3>3. Parent[s] \notin Ancestors[i]
      BY <2>3, <3>2, Tables
    <3>4. Parent[s] = i
      BY <1>2, <3>1, <3>3
    <3>5. QED
      BY <3>4 DEF Regions
  <2>5. QED
    BY <1>1, <2>1, <2>2, <2>4
<1>5. OneChild(f, c, d)
  <2> SUFFICES ASSUME NEW p \in States, Type[p] = "compound",
                      NEW x \in Children[p] \cap (f \cup (c \ d)),
                      NEW y \in Children[p] \cap (f \cup (c \ d))
               PROVE  x = y
    BY DEF OneChild
  <2>1. Parent[x] = p /\ Parent[y] = p
    BY AncestorsOfChild
  <2>2. x \notin ChildStates[i] /\ y \notin ChildStates[i]
    BY <1>2, <2>1
  <2>3. QED
    BY <2>2 DEF EntryInv, OneChild
<1>6. Completed(i + 1, f, c, d)
  <2> SUFFICES ASSUME NEW s \in f, s < i + 1
               PROVE  /\ Type[s] = "parallel" => ChildStates[s] \subseteq f
                      /\ Type[s] = "compound" =>
                            f \cap Descendants[s] # {} \/ (c \ d) \cap Descendants[s] # {}
    BY DEF Completed
  <2>1. CASE s = i
    BY <2>1
  <2>2. CASE s # i
    <3>1. s \in Nat
      BY <1>1, <1>2, Tables
    <3>2. s \notin ChildStates[i]
      BY <1>1, <1>2, <3>1
    <3>3. s < i /\ s \in e
      BY <1>1, <2>2, <3>1, <3>2
    <3>4. QED
      BY <3>3 DEF EntryInv, Completed
  <2>3. QED
    BY <2>1, <2>2
<1>7. KeptCompleted(f, c, d)
  BY DEF EntryInv, KeptCompleted
<1>8. QED
  BY <1>3, <1>4, <1>5, <1>6, <1>7 DEF EntryInv

(***************************************************************************)
(* With a compound state of which nothing is entered or kept one child is  *)
(* entered, which may be its <initial> or a history.                       *)
(***************************************************************************)
LEMMA CompleteCompound ==
    ASSUME NEW c, NEW d, NEW e, NEW i \in e, i \in States, WellFormedChart, Frame(c, d),
           EntryInv(i, e, c, d), Type[i] = "compound",
           e \cap Descendants[i] = {},
           ~(c \cap Descendants[i] # {} /\ c \cap d \cap Descendants[i] = {}),
           NEW k \in Children[i]
    PROVE  EntryInv(i + 1, e \cup {k}, c, d)
<1> DEFINE f == e \cup {k}
<1>1. e \subseteq States /\ i \in Nat
  BY Tables DEF EntryInv, InsideFrame, Frame, ProperStates
<1>2. /\ k \in States /\ Parent[k] = i
      /\ i < k
      /\ k \in Descendants[i]
      /\ Ancestors[k] = Ancestors[i] \cup {i}
  BY AncestorsOfChild
<1>3. i \in d
  BY DEF EntryInv, KeptCompleted, InsideFrame
<1>4. Descendants[i] \subseteq d
  BY <1>3 DEF Frame
<1>5. InsideFrame(f, c, d)
  <2>1. \A s \in e : Ancestors[s] \subseteq e
    BY DEF EntryInv, InsideFrame
  <2>2. QED
    BY <1>2, <1>4, <2>1 DEF EntryInv, InsideFrame
<1>6. PseudoAhead(i + 1, f, d)
  <2> SUFFICES ASSUME NEW s \in f, ~IsProper(s)
               PROVE  /\ s >= i + 1
                      /\ Parent[s] \in d
                      /\ f \cap Descendants[Parent[s]] \subseteq {s} \cup Regions(Parent[s])
    BY DEF PseudoAhead
  <2>1. CASE s = k
    <3>1. k \in Nat /\ k >= i + 1
      BY <1>1, <1>2, Tables
    <3>2. QED
      BY <1>2, <1>3, <2>1, <3>1
  <2>2. CASE s # k
    <3>1. s \in e /\ s \in Nat /\ s # i
      BY <1>1, <2>2, Tables DEF IsProper, Pseudo
    <3>2. /\ s >= i
          /\ Parent[s] \in d
          /\ e \cap Descendants[Parent[s]] \subseteq {s} \cup Regions(Parent[s])
      BY <3>1 DEF EntryInv, PseudoAhead
    <3>3. Parent[s] \in States /\ s \in Descendants[Parent[s]]
      <4>1. s \in States /\ s # 0
        BY <1>1, <3>1, TypeAssumption DEF IsProper, Pseudo
      <4>2. QED
        BY <4>1, ParentInnermost
    <3>4. ASSUME k \in Descendants[Parent[s]]
          PROVE  FALSE
      <4>1. Parent[s] \in Ancestors[k]
        BY <1>2, <3>3, <3>4, Tables
      <4>2. CASE Parent[s] = i
        BY <3>1, <3>3, <4>2
      <4>3. CASE Parent[s] \in Ancestors[i]
        <5>1. i \in Descendants[Parent[s]]
          BY <4>3, Tables
        <5>2. QED
          BY <3>1, <5>1, NoneBeforePseudo
      <4>4. QED
        BY <1>2, <4>1, <4>2, <4>3
    <3>5. QED
      BY <1>1, <3>1, <3>2, <3>4
  <2>3. QED
    BY <2>1, <2>2
<1>7. OneChild(f, c, d)
  <2> SUFFICES ASSUME NEW p \in States, Type[p] = "compound",
                      NEW x \in Children[p] \cap (f \cup (c \ d)),
                      NEW y \in Children[p] \cap (f \cup (c \ d)),
                      x # y
               PROVE  FALSE
    BY DEF OneChild
  <2>1. Parent[x] = p /\ Parent[y] = p /\ x \in Descendants[p] /\ y \in Descendants[p]
    BY AncestorsOfChild
  <2>2. p # i
    BY <1>2, <1>4, <2>1
  <2>3. x # k /\ y # k
    BY <1>2, <2>1, <2>2
  <2>4. QED
    BY <2>3 DEF EntryInv, OneChild
<1>8. Completed(i + 1, f, c, d)
  <2> SUFFICES ASSUME NEW s \in f, s < i + 1
               PROVE  /\ Type[s] = "parallel" => ChildStates[s] \subseteq f
                      /\ Type[s] = "compound" =>
                            f \cap Descendants[s] # {} \/ (c \ d) \cap Descendants[s] # {}
    BY DEF Completed
  <2>1. CASE s = i
    BY <1>2, <2>1
  <2>2. CASE s # i
    <3>1. s \in Nat /\ k \in Nat
      BY <1>1, <1>2, Tables
    <3>2. s < i /\ s \in e
      BY <1>1, <1>2, <2>2, <3>1
    <3>3. QED
      BY <3>2 DEF EntryInv, Completed
  <2>3. QED
    BY <2>1, <2>2
<1>9. KeptCompleted(f, c, d)
  BY DEF EntryInv, KeptCompleted
<1>10. QED
  BY <1>5, <1>6, <1>7, <1>8, <1>9 DEF EntryInv

(***************************************************************************)
(* States of p that a pseudo state i of p can be replaced by: they come    *)
(* after it, with what is around them they are in the set or are regions   *)
(* of p, and ask for one child of a compound state; a pseudo state among   *)
(* them is alone in its parent.                                            *)
(***************************************************************************)
Replaces(set, i, p) ==
    /\ set \subseteq Descendants[p]
    /\ \A s \in set : s > i
    /\ \A s \in set : Ancestors[s] \cap Descendants[p] \subseteq set \cup Regions(p)
    /\ \A q \in States : Type[q] = "compound" => \A x, y \in Children[q] \cap set : x = y
    /\ Type[p] = "compound" => set # {}
    /\ \A s \in set : IsProper(s) \/ (Type[p] = "compound" /\ set \cap Descendants[Parent[s]] \subseteq {s})

(***************************************************************************)
(* A pseudo state is replaced by such states.                              *)
(***************************************************************************)
LEMMA FollowPseudo ==
    ASSUME NEW c, NEW d, NEW e, NEW i \in e, i \in States, Frame(c, d),
           EntryInv(i, e, c, d), ~IsProper(i), NEW set, Replaces(set, i, Parent[i])
    PROVE  EntryInv(i + 1, (e \ {i}) \cup set, c, d)
<1> DEFINE p == Parent[i]
           f == (e \ {i}) \cup set
<1>1. e \subseteq States /\ i \in Nat /\ i # 0
  BY Tables, TypeAssumption DEF EntryInv, InsideFrame, Frame, ProperStates, IsProper, Pseudo
<1>2. p \in States /\ i \in Descendants[p] /\ p < i
  BY <1>1, ParentInnermost, Nested
<1>3. p \in d /\ e \cap Descendants[p] \subseteq {i} \cup Regions(p)
  BY DEF EntryInv, PseudoAhead
<1>4. Descendants[p] \subseteq d /\ d \subseteq States
  BY <1>3 DEF Frame
<1>5. Descendants[i] = {}
  BY PseudoLeaf
<1>6. set \subseteq Descendants[p] /\ set \subseteq States /\ \A x \in set : x > i
  BY <1>4 DEF Replaces
<1>7. p \in e /\ Ancestors[p] \subseteq e
  <2>1. p \in Ancestors[i] /\ Ancestors[i] \subseteq e
    BY <1>2, Tables DEF EntryInv, InsideFrame
  <2>2. QED
    BY <2>1 DEF EntryInv, InsideFrame
<1>8. Regions(p) \subseteq e /\ \A s \in Regions(p) : IsProper(s) /\ s \in Children[p]
  <2>1. Type[p] = "parallel" => ChildStates[p] \subseteq e
    BY <1>2, <1>7 DEF EntryInv, Completed
  <2>2. \A s \in ChildStates[p] : IsProper(s) /\ s \in Children[p]
    BY <1>2, Tables DEF ProperStates
  <2>3. QED
    BY <2>1, <2>2 DEF Regions
<1>9. InsideFrame(f, c, d)
  <2>1. ASSUME NEW s \in e \ {i}
        PROVE  Ancestors[s] \subseteq e \ {i}
    <3>1. Ancestors[s] \subseteq e
      BY DEF EntryInv, InsideFrame
    <3>2. i \notin Ancestors[s]
      BY <1>1, <1>5, Tables
    <3>3. QED
      BY <3>1, <3>2
  <2>2. ASSUME NEW s \in set, NEW a \in Ancestors[s]
        PROVE  a \in f
    <3>1. a \in States /\ s \in Descendants[a] /\ s \in Descendants[p] /\ s \in States
      BY <1>6, Tables
    <3>2. a = p \/ a \in Descendants[p] \/ p \in Descendants[a]
      BY <1>2, <3>1, Nested
    <3>3. CASE a = p
      BY <1>1, <1>2, <1>7, <3>3
    <3>4. CASE a \in Descendants[p]
      <4>1. a \in set \cup Regions(p)
        BY <3>4 DEF Replaces
      <4>2. QED
        BY <1>8, <4>1
    <3>5. CASE p \in Descendants[a]
      <4>1. a \in Ancestors[p]
        BY <1>2, <3>1, <3>5, Tables
      <4>2. a # i
        BY <1>5, <3>5
      <4>3. QED
        BY <1>7, <4>1, <4>2
    <3>6. QED
      BY <3>2, <3>3, <3>4, <3>5
  <2>3. f \subseteq c \cup d
    BY <1>4, <1>6 DEF EntryInv, InsideFrame
  <2>4. QED
    BY <2>1, <2>2, <2>3 DEF InsideFrame
<1>10. PseudoAhead(i + 1, f, d)
  <2> SUFFICES ASSUME NEW s \in f, ~IsProper(s)
               PROVE  /\ s >= i + 1
                      /\ Parent[s] \in d
                      /\ f \cap Descendants[Parent[s]] \subseteq {s} \cup Regions(Parent[s])
    BY DEF PseudoAhead
  <2> DEFINE q == Parent[s]
  <2>1. s \in States /\ s \in Nat /\ s # 0
    BY <1>1, <1>6, Tables, TypeAssumption DEF IsProper, Pseudo
  <2>2. q \in States /\ s \in Descendants[q] /\ Descendants[s] = {}
    BY <2>1, ParentInnermost, PseudoLeaf
  <2>3. CASE s \in e \ {i}
    <3>1. /\ s >= i
          /\ q \in d
          /\ e \cap Descendants[q] \subseteq {s} \cup Regions(q)
      BY <2>3 DEF EntryInv, PseudoAhead
    <3>2. i \notin Descendants[q]
      BY <2>3, NoneBeforePseudo
    <3>3. q \in e
      <4>1. q \in Ancestors[s] /\ Ancestors[s] \subseteq e
        BY <2>1, <2>2, <2>3, Tables DEF EntryInv, InsideFrame
      <4>2. QED
        BY <4>1
    <3>4. ASSUME NEW x \in set, x \in Descendants[q]
          PROVE  FALSE
      <4>1. p = q \/ p \in Descendants[q] \/ q \in Descendants[p]
        BY <1>2, <1>6, <2>2, <3>4, Nested
      <4>2. p \notin Descendants[q]
        BY <1>1, <1>2, <2>2, <3>2, Nested
      <4>3. q \notin Descendants[p]
        <5>1. ASSUME q \in Descendants[p]
              PROVE  FALSE
          <6>1. s \in Descendants[p]
            BY <1>2, <2>2, <5>1, Nested
          <6>2. QED
            BY <1>3, <1>8, <2>3, <6>1
        <5>2. QED
          BY <5>1
      <4>4. QED
        BY <1>2, <3>2, <4>1, <4>2, <4>3
    <3>5. QED
      BY <1>1, <2>1, <2>3, <3>1, <3>4
  <2>4. CASE s \in set
    <3>1. Type[p] = "compound" /\ set \cap Descendants[q] \subseteq {s}
      BY <2>4 DEF Replaces
    <3>2. q = p \/ q \in Descendants[p]
      BY <1>2, <1>6, <2>1, <2>4, ParentInnermost
    <3>3. Descendants[q] \subseteq Descendants[p]
      BY <1>2, <2>2, <3>2, Nested
    <3>4. e \cap Descendants[p] \subseteq {i}
      BY <1>3, <3>1 DEF Regions
    <3>5. q \in d
      BY <1>3, <1>4, <3>2
    <3>6. s >= i + 1
      BY <1>1, <1>6, <2>1, <2>4
    <3>7. QED
      BY <3>1, <3>3, <3>4, <3>5, <3>6
  <2>5. QED
    BY <2>3, <2>4
<1>11. OneChild(f, c, d)
  <2> SUFFICES ASSUME NEW q \in States, Type[q] = "compound",
                      NEW x \in Children[q] \cap (f \cup (c \ d)),
                      NEW y \in Children[q] \cap (f \cup (c \ d))
               PROVE  x = y
    BY DEF OneChild
  <2>1. ASSUME NEW a \in Children[q], a \in set,
               NEW b \in Children[q], b \in (e \ {i}) \cup (c \ d)
        PROVE  FALSE
    <3>1. /\ a \in States /\ a # 0 /\ Parent[a] = q
          /\ b \in States /\ b \in Descendants[q] /\ Parent[b] = q
      BY AncestorsOfChild
    <3>2. p = q \/ q \in Descendants[p]
      BY <1>2, <1>6, <2>1, <3>1, ParentInnermost
    <3>3. b \in Descendants[p]
      BY <1>2, <3>1, <3>2, Nested
    <3>4. b \in Regions(p)
      BY <1>3, <1>4, <2>1, <3>3
    <3>5. Parent[b] = p /\ Type[p] = "parallel"
      <4>1. Type[p] = "parallel"
        BY <3>4 DEF Regions
      <4>2. b \in Children[p]
        BY <1>8, <3>4
      <4>3. QED
        BY <1>2, <4>1, <4>2, AncestorsOfChild
    <3>6. QED
      BY <3>1, <3>5
  <2>2. CASE x \in e \cup (c \ d) /\ y \in e \cup (c \ d)
    BY <2>2 DEF EntryInv, OneChild
  <2>3. CASE x \in set /\ y \in set
    BY <2>3 DEF Replaces
  <2>4. QED
    BY <2>1, <2>2, <2>3
<1>12. ASSUME NEW s \in States, Type[s] = "compound", e \cap Descendants[s] # {}
       PROVE  f \cap Descendants[s] # {}
  <2>1. CASE i \in Descendants[s]
    <3>1. s = p \/ p \in Descendants[s]
      BY <1>1, <2>1, ParentInnermost
    <3>2. CASE s = p
      BY <1>6, <1>12, <3>2 DEF Replaces
    <3>3. CASE p \in Descendants[s]
      BY <1>1, <1>2, <1>7, <3>3
    <3>4. QED
      BY <3>1, <3>2, <3>3
  <2>2. CASE i \notin Descendants[s]
    BY <1>12, <2>2
  <2>3. QED
    BY <2>1, <2>2
<1>13. Completed(i + 1, f, c, d)
  <2> SUFFICES ASSUME NEW s \in f, s < i + 1
               PROVE  /\ Type[s] = "parallel" => ChildStates[s] \subseteq f
                      /\ Type[s] = "compound" =>
                            f \cap Descendants[s] # {} \/ (c \ d) \cap Descendants[s] # {}
    BY DEF Completed
  <2>1. s \in States /\ s \in Nat
    BY <1>1, <1>6, Tables
  <2>2. s \in e \ {i} /\ s < i
    BY <1>1, <1>6, <2>1
  <2>3. i \notin ChildStates[s]
    BY <1>1, <2>1, Tables DEF ProperStates
  <2>4. QED
    BY <1>12, <2>1, <2>2, <2>3 DEF EntryInv, Completed
<1>14. KeptCompleted(f, c, d)
  <2>1. c \subseteq States
    BY DEF Frame, ProperStates
  <2>2. QED
    BY <1>12, <2>1 DEF EntryInv, KeptCompleted
<1>15. QED
  BY <1>9, <1>10, <1>11, <1>13, <1>14 DEF EntryInv

(***************************************************************************)
(* The proper states in a state come after its pseudo states, and its      *)
(* <initial> comes before everything else in it.                           *)
(***************************************************************************)
LEMMA PseudoFirst ==
    ASSUME NEW i \in States, ~IsProper(i), NEW x \in Descendants[Parent[i]],
           \/ IsProper(x)
           \/ Type[i] = "initial" /\ IsHistory(x)
    PROVE  x > i
<1> DEFINE p == Parent[i]
<1>1. i \in Nat /\ i # 0
  BY Tables, TypeAssumption DEF IsProper, Pseudo
<1>2. p \in States /\ i \in Descendants[p]
  BY <1>1, ParentInnermost
<1>3. x \in States /\ x \in Nat
  BY <1>2, Tables
<1>4. PICK k \in Children[p] : k = x \/ x \in Descendants[k]
  BY <1>2, ChildTowards
<1>5. k \in States /\ k # 0 /\ Parent[k] = p /\ k \in Nat
  BY <1>2, AncestorsOfChild, Tables
<1>6. IsProper(k) \/ (k = x /\ Type[i] = "initial" /\ IsHistory(k))
  BY <1>4, <1>5, PseudoLeaf
<1>7. i < k
  BY <1>1, <1>5, <1>6, TypeAssumption
<1>8. k <= x
  BY <1>3, <1>4, <1>5, Nested
<1>9. QED
  BY <1>1, <1>3, <1>5, <1>7, <1>8

(***************************************************************************)
(* An <initial> is replaced by the targets of its transition and their     *)
(* ancestors.                                                              *)
(***************************************************************************)
LEMMA FollowInitial ==
    ASSUME NEW c, NEW d, NEW e, NEW i \in e, i \in States, WellFormedChart, Frame(c, d),
           EntryInv(i, e, c, d), Type[i] = "initial",
           NEW set, set # {}, set \subseteq Descendants[Parent[i]], Compatible(set)
    PROVE  EntryInv(i + 1, (e \ {i}) \cup WithAncestors(set), c, d)
<1> DEFINE p == Parent[i]
           w == WithAncestors(set)
           a == w \cap Descendants[p]
<1>1. i # 0 /\ ~IsProper(i) /\ Type[p] = "compound"
  BY TypeAssumption DEF WellFormedChart, IsProper, Pseudo
<1>2. p \in States /\ i \in Descendants[p]
  BY <1>1, ParentInnermost
<1>3. set \subseteq States
  BY DEF Compatible, ProperStates, Histories
<1>4. /\ w \subseteq States
      /\ set \subseteq w
      /\ \A s \in w : Ancestors[s] \subseteq w
      /\ \A s \in w : s \in set \/ \E x \in set : x \in Descendants[s]
  BY <1>3, WithAncestorsClosed
<1>5. \A s \in w : IsProper(s) \/ s \in set \cap Histories
  <2>1. \A s \in set : IsProper(s) \/ s \in Histories
    BY DEF Compatible, ProperStates
  <2>2. QED
    BY <1>4, <2>1, PseudoLeaf
<1>6. \A s \in a : s > i
  BY <1>1, <1>5, PseudoFirst DEF Histories
<1>7. ASSUME NEW s \in a
      PROVE  IsProper(s) \/ a \cap Descendants[Parent[s]] \subseteq {s}
  BY <1>5 DEF Compatible
<1>8. Replaces(a, i, p)
  <2>1. \A s \in a : Ancestors[s] \cap Descendants[p] \subseteq a
    BY <1>4
  <2>2. \A q \in States : Type[q] = "compound" => \A x, y \in Children[q] \cap a : x = y
    BY DEF Compatible
  <2>3. a # {}
    BY <1>4
  <2>4. QED
    BY <1>1, <1>6, <1>7, <2>1, <2>2, <2>3 DEF Replaces
<1>9. (e \ {i}) \cup w = (e \ {i}) \cup a
  <2>1. ASSUME NEW x \in w, x \notin Descendants[p]
        PROVE  x \in e \ {i}
    <3>1. p \in Ancestors[i] /\ Ancestors[i] \subseteq e /\ Ancestors[p] \subseteq e
      <4>1. p \in Ancestors[i] /\ Ancestors[i] \subseteq e
        BY <1>2, Tables DEF EntryInv, InsideFrame
      <4>2. QED
        BY <4>1 DEF EntryInv, InsideFrame
    <3>2. PICK y \in set : y = x \/ y \in Descendants[x]
      BY <1>4
    <3>3. x = p \/ p \in Descendants[x]
      BY <1>2, <1>3, <1>4, <2>1, <3>2, Nested
    <3>4. x = p \/ x \in Ancestors[p]
      BY <1>2, <1>4, <3>3, Tables
    <3>5. QED
      BY <1>2, <2>1, <3>1, <3>4
  <2>2. QED
    BY <2>1
<1> HIDE DEF a, w
<1>10. EntryInv(i + 1, (e \ {i}) \cup a, c, d)
  BY <1>1, <1>8, FollowPseudo
<1>11. QED
  BY <1>9, <1>10 DEF w

(***************************************************************************)
(* Min of a non-empty set of states is its least element.                  *)
(***************************************************************************)
LEMMA MinOfStates ==
    ASSUME NEW S \in SUBSET States, S # {}
    PROVE  Min(S) \in S
<1>1. \E x \in S : \A y \in S : x <= y
  BY Tables, LeastElement
<1>2. QED
  BY <1>1 DEF Min

(***************************************************************************)
(* The completion of a parallel state are its children, that of a compound *)
(* state one child, or what the attribute of <scxml> names, that of a      *)
(* history the states it remembers if they are active.                     *)
(***************************************************************************)
LEMMA CompletionOf ==
    ASSUME WellFormedChart, NEW s \in States
    PROVE  /\ Type[s] = "parallel" => Completion[s] = ChildStates[s]
           /\ Type[s] = "compound" =>
                 \/ \E k \in Children[s] : Completion[s] = {k}
                 \/ s = 0 /\ Completion[0] = InitialAttr[0] /\ InitialAttr[0] # {}
           /\ IsHistory(s) => Completion[s] = HistoryCompletion(s)
<1>1. IsHistory(s) => Completion[s] = HistoryCompletion(s)
  BY DEF Completion, IsHistory
<1>2. ASSUME Type[s] = "parallel"
      PROVE  Completion[s] = ChildStates[s]
  BY <1>2 DEF Completion, IsHistory
<1>3. ASSUME Type[s] = "compound", InitialAttr[s] # {}
      PROVE  Completion[s] = InitialAttr[s]
  BY <1>3 DEF Completion, IsHistory
<1>4. ASSUME Type[s] = "compound", InitialAttr[s] = {}
      PROVE  \E k \in Children[s] : Completion[s] = {k}
  <2> DEFINE initials == {k \in Children[s] : Type[k] = "initial"}
  <2>1. Completion[s] = DefaultChild(s)
    BY <1>4 DEF Completion, IsHistory
  <2>2. DefaultChild(s) = IF initials # {} THEN {Min(initials)} ELSE {Min(ChildStates[s])}
    BY DEF DefaultChild
  <2>3. Children[s] \in SUBSET States /\ ChildStates[s] \in SUBSET States
    BY Tables DEF ProperStates
  <2>4. CASE initials # {}
    <3>1. Min(initials) \in initials
      BY <2>3, <2>4, MinOfStates
    <3>2. QED
      BY <2>1, <2>2, <2>4, <3>1
  <2>5. CASE initials = {}
    <3>1. Min(ChildStates[s]) \in ChildStates[s]
      BY <1>4, <2>3, MinOfStates, TypeAssumption
    <3>2. Min(ChildStates[s]) \in Children[s]
      BY <3>1, Tables
    <3>3. QED
      BY <2>1, <2>2, <2>5, <3>2
  <2>6. QED
    BY <2>4, <2>5
<1>5. ASSUME Type[s] = "compound", InitialAttr[s] # {}, s # 0
      PROVE  \E k \in Children[s] : Completion[s] = {k}
  <2>1. PICK k \in Children[s] : InitialAttr[s] = {k}
    BY <1>5 DEF WellFormedChart
  <2>2. QED
    BY <1>3, <1>5, <2>1
<1>6. QED
  BY <1>1, <1>2, <1>3, <1>4, <1>5

\* What is entered around the targets of the default transition of h.
AroundDefault(h, targets) == IF Type[h] = "deep" THEN Ancestors[Min(targets)] ELSE {}

EntrySets == [entry : SUBSET States, taken : SUBSET TransIdx]

(***************************************************************************)
(* What completing the state s makes of the entry set of e, where c is the *)
(* configuration, hist what is remembered and x the states that are left.  *)
(***************************************************************************)
StateCompleted(f, s, e, c, hist, x) ==
    /\ f \in EntrySets
    /\ Type[s] = "parallel" => f.entry = e.entry \cup ChildStates[s]
    /\ Type[s] = "initial" =>
          \E set \in SUBSET Descendants[Parent[s]] :
              /\ set # {} /\ Compatible(set)
              /\ f.entry = (e.entry \ {s}) \cup WithAncestors(set)
    /\ IsHistory(s) =>
          IF Completion[s] \cap hist # {} \/ Parent[s] \in c
          THEN f.entry = e.entry \cup (Completion[s] \cap hist)
          ELSE \E t \in TransIdx :
                  /\ DefaultTransitions(s) = {t}
                  /\ f.entry = e.entry \cup Trans[t].target \cup AroundDefault(s, Trans[t].target)
    /\ Type[s] = "compound" =>
          IF \/ e.entry \cap Descendants[s] # {}
             \/ c \cap Descendants[s] # {} /\ x \cap Descendants[s] = {}
          THEN f.entry = e.entry
          ELSE s # 0 =>
                 \E k \in Children[s] : f.entry = e.entry \cup {k}
    /\ Type[s] \in {"atomic", "final"} => f.entry = e.entry

(***************************************************************************)
(* What completing one state does to the entry set.                        *)
(***************************************************************************)
LEMMA CompleteStateCases ==
    ASSUME WellFormedChart, NEW s \in States, NEW e \in EntrySets, NEW c, NEW hist, NEW x
    PROVE  StateCompleted(CompleteState(s, e, c, hist, x), s, e, c, hist, x)
<1> DEFINE f == CompleteState(s, e, c, hist, x)
<1>1. Type[s] \in Types
  BY TypeAssumption
<1>2. CASE Type[s] = "parallel"
  <2>1. f = [e EXCEPT !.entry = @ \cup Completion[s]]
    BY <1>2 DEF CompleteState, IsHistory
  <2>2. Completion[s] = ChildStates[s] /\ ChildStates[s] \in SUBSET States
    BY <1>2, CompletionOf, Tables DEF ProperStates
  <2> HIDE DEF f
  <2>3. f \in EntrySets /\ f.entry = e.entry \cup ChildStates[s]
    BY <2>1, <2>2 DEF EntrySets
  <2>4. QED
    BY <1>2, <2>3 DEF f, StateCompleted, IsHistory
<1>3. CASE Type[s] = "initial"
  <2>1. f = EnterInitial(s, e)
    BY <1>3 DEF CompleteState, IsHistory
  <2>2. PICK t \in TransIdx :
           /\ DefaultTransitions(s) = {t}
           /\ Trans[t].target # {}
           /\ Trans[t].target \subseteq Descendants[Parent[s]]
    BY <1>3 DEF WellFormedChart
  <2>3. TargetSet({t}) = Trans[t].target
    BY DEF TargetSet
  <2>4. f = [entry |-> (e.entry \ {s}) \cup WithAncestors(Trans[t].target), taken |-> e.taken \cup {t}]
    BY <2>1, <2>2, <2>3 DEF EnterInitial
  <2>5. Compatible(Trans[t].target)
    BY DEF WellFormedChart
  <2>6. WithAncestors(Trans[t].target) \in SUBSET States
    BY <2>5, WithAncestorsClosed DEF Compatible, ProperStates, Histories
  <2> HIDE DEF f
  <2>7. f \in EntrySets /\ f.entry = (e.entry \ {s}) \cup WithAncestors(Trans[t].target)
    BY <2>4, <2>6 DEF EntrySets
  <2>8. QED
    BY <1>3, <2>2, <2>5, <2>7 DEF f, StateCompleted, IsHistory
<1>4. CASE Type[s] = "compound"
  <2> DEFINE done == \/ e.entry \cap Descendants[s] # {}
                     \/ c \cap Descendants[s] # {} /\ x \cap Descendants[s] = {}
             below == {k \in Completion[s] : k > s}
             around == IF Completion[s] \cap Descendants[s] = {} /\ below # {}
                       THEN Ancestors[Min(below)] ELSE {}
  <2>1. f = EnterCompound(s, e, c, x)
    BY <1>4 DEF CompleteState, IsHistory
  <2>2. f = IF done THEN e ELSE [e EXCEPT !.entry = @ \cup Completion[s] \cup around]
    BY <2>1 DEF EnterCompound
  <2>3. Completion[s] \cap Descendants[s] # {} /\ Completion[s] \subseteq States
    <3>1. \A k \in Children[s] : k \in Descendants[s] /\ k \in States
      BY Tables
    <3>2. InitialAttr[0] \subseteq Descendants[0] /\ InitialAttr[0] \subseteq States
      BY Tables, Nested DEF WellFormedChart, Compatible, ProperStates, Histories
    <3>3. QED
      BY <1>4, <3>1, <3>2, CompletionOf
  <2>4. around = {}
    BY <2>3
  <2> HIDE DEF f, done, around
  <2>5. f = IF done THEN e ELSE [e EXCEPT !.entry = @ \cup Completion[s]]
    BY <2>2, <2>4
  <2>6. f \in EntrySets
    BY <2>3, <2>5 DEF EntrySets
  <2>7. f.entry = IF done THEN e.entry ELSE e.entry \cup Completion[s]
    BY <2>5 DEF EntrySets
  <2>8. ASSUME ~done, s # 0
        PROVE  \E k \in Children[s] :
                  f.entry = e.entry \cup {k}
    BY <1>4, <2>7, <2>8, CompletionOf
  <2>9. QED
    BY <1>4, <2>6, <2>7, <2>8 DEF f, done, StateCompleted, IsHistory
<1>5. CASE Type[s] \in {"atomic", "final"}
  <2>1. f = e
    BY <1>5 DEF CompleteState, IsHistory
  <2>2. QED
    BY <1>5, <2>1 DEF StateCompleted, IsHistory
<1>6. CASE IsHistory(s)
  <2> DEFINE known == Completion[s] \cap hist
  <2>1. f = EnterHistory(s, e, c, hist)
    BY <1>6 DEF CompleteState, IsHistory
  <2>2. ~IsProper(s) /\ s # 0
    BY <1>6, TypeAssumption DEF IsHistory, IsProper, Pseudo
  <2>3. Parent[s] \in States /\ Descendants[Parent[s]] \subseteq States
    BY <2>2, ParentInnermost, Tables
  <2>4. known \subseteq States
    <3>1. Completion[s] = HistoryCompletion(s)
      BY <1>6, CompletionOf
    <3>2. HistoryCompletion(s) \subseteq Descendants[Parent[s]]
      BY <2>3, Tables DEF HistoryCompletion
    <3>3. QED
      BY <2>3, <3>1, <3>2
  <2>5. CASE known # {} \/ Parent[s] \in c
    <3>1. f = [e EXCEPT !.entry = @ \cup known]
      BY <2>1, <2>5 DEF EnterHistory
    <3> HIDE DEF f, known
    <3>2. f \in EntrySets /\ f.entry = e.entry \cup known
      BY <2>4, <3>1 DEF EntrySets
    <3>3. QED
      BY <1>6, <2>5, <3>2 DEF f, known, StateCompleted, IsHistory
  <2>6. CASE ~(known # {} \/ Parent[s] \in c)
    <3>1. DefaultFits(s)
      BY <1>6 DEF WellFormedChart, Histories
    <3>2. PICK t \in TransIdx :
             /\ DefaultTransitions(s) = {t}
             /\ Trans[t].target # {}
             /\ Trans[t].target \subseteq Descendants[Parent[s]] \cap ProperStates
      BY <3>1 DEF DefaultFits
    <3> DEFINE set == Trans[t].target
               below == {k \in set : k > s}
    <3>3. Min({t}) = t
      BY LenTrans DEF Min
    <3>4. below = set
      BY <2>2, <3>2, PseudoFirst DEF ProperStates
    <3>5. f = [entry |-> e.entry \cup set
                           \cup IF Type[s] = "deep" /\ below # {} THEN Ancestors[Min(below)] ELSE {},
               taken |-> e.taken \cup {t}]
      BY <2>1, <2>6, <3>2, <3>3 DEF EnterHistory
    <3> HIDE DEF f, below, set
    <3>6. f = [entry |-> e.entry \cup set \cup AroundDefault(s, set), taken |-> e.taken \cup {t}]
      BY <3>2, <3>4, <3>5 DEF AroundDefault, set
    <3>7. set \in SUBSET States /\ set # {}
      BY <2>3, <3>2 DEF set
    <3>8. Min(set) \in set
      BY <3>7, MinOfStates
    <3>9. AroundDefault(s, set) \subseteq States
      BY <3>7, <3>8, Tables DEF AroundDefault
    <3>10. f \in EntrySets /\ f.entry = e.entry \cup set \cup AroundDefault(s, set)
      BY <3>6, <3>7, <3>9 DEF EntrySets
    <3>11. QED
      BY <1>6, <2>6, <3>2, <3>10 DEF f, set, StateCompleted, IsHistory
  <2>7. QED
    BY <2>5, <2>6
<1>7. QED
  BY <1>1, <1>2, <1>3, <1>4, <1>5, <1>6 DEF Types, Pseudo, IsHistory

(***************************************************************************)
(* What a history h remembers, when it can be entered as it is: states of  *)
(* its parent with what is around them, one child of the parent if that is *)
(* compound and all regions if it is parallel, and for a deep history the  *)
(* same further down.                                                      *)
(***************************************************************************)
Whole(h, known) ==
    /\ known \subseteq Descendants[Parent[h]] \cap ProperStates
    /\ \A s \in known : Ancestors[s] \cap Descendants[Parent[h]] \subseteq known
    /\ \A q \in States : Type[q] = "compound" => \A x, y \in Children[q] \cap known : x = y
    /\ \A s \in known \cup {Parent[h]} : s = Parent[h] \/ Type[h] = "deep" =>
          /\ Type[s] = "compound" => ChildStates[s] \cap known # {}
          /\ Type[s] = "parallel" => ChildStates[s] \subseteq known

(***************************************************************************)
(* What is remembered when the states d of the configuration c are left:   *)
(* something for every history whose parent is left, and something or      *)
(* nothing for one whose parent is not active.                             *)
(***************************************************************************)
Remembered(c, d, hist) ==
    /\ hist \subseteq ProperStates
    /\ \A h \in Histories : Parent[h] \notin c \ d =>
          \/ Completion[h] \cap hist = {} /\ Parent[h] \notin c
          \/ Whole(h, Completion[h] \cap hist)

(***************************************************************************)
(* A history can be replaced by what it remembers.                         *)
(***************************************************************************)
LEMMA KnownReplaces ==
    ASSUME NEW h \in Histories, NEW known, Whole(h, known)
    PROVE  Replaces(known, h, Parent[h])
<1>1. h \in States /\ ~IsProper(h)
  BY DEF Histories, IsHistory, IsProper, Pseudo
<1>2. known \subseteq Descendants[Parent[h]] /\ \A s \in known : IsProper(s)
  BY DEF Whole, ProperStates
<1>3. \A s \in known : s > h
  BY <1>1, <1>2, PseudoFirst
<1>4. QED
  BY <1>2, <1>3 DEF Whole, Replaces

(***************************************************************************)
(* A history can be replaced by the targets of its default transition and  *)
(* what is entered around them.                                            *)
(***************************************************************************)
LEMMA DefaultReplaces ==
    ASSUME WellFormedChart, NEW h \in Histories, NEW t \in TransIdx, DefaultTransitions(h) = {t}
    PROVE  LET set == Trans[t].target \cup AroundDefault(h, Trans[t].target)
           IN /\ set \subseteq ProperStates
              /\ set \ Descendants[Parent[h]] \subseteq Ancestors[h]
              /\ Replaces(set \cap Descendants[Parent[h]], h, Parent[h])
<1> DEFINE p == Parent[h]
           targets == Trans[t].target
           around == AroundDefault(h, targets)
           a == (targets \cup around) \cap Descendants[p]
<1>1. h \in States /\ ~IsProper(h) /\ h # 0
  BY TypeAssumption DEF Histories, IsHistory, IsProper, Pseudo
<1>2. p \in States /\ h \in Descendants[p] /\ Descendants[p] \subseteq States
  BY <1>1, ParentInnermost, Tables
<1>3. /\ targets # {}
      /\ targets \subseteq Descendants[p] \cap ProperStates
      /\ \A s \in targets : Ancestors[s] \subseteq Ancestors[h] \cup Regions(p) \cup around
  <2>1. \E u \in TransIdx :
           /\ DefaultTransitions(h) = {u}
           /\ Trans[u].target # {}
           /\ Trans[u].target \subseteq Descendants[Parent[h]] \cap ProperStates
           /\ \A s \in Trans[u].target :
                 Ancestors[s] \subseteq Ancestors[h] \cup Regions(Parent[h]) \cup AroundDefault(h, Trans[u].target)
    BY DEF WellFormedChart, DefaultFits, AroundDefault
  <2>2. QED
    BY <2>1
<1>4. Compatible(targets)
  BY DEF WellFormedChart
<1> DEFINE m == Min(targets)
<1>5. m \in targets /\ m \in States /\ m \in Descendants[p]
  BY <1>2, <1>3, MinOfStates
<1>6. around = {} \/ around = Ancestors[m]
  BY DEF AroundDefault
<1> HIDE DEF targets, around, m
<1>7. around \subseteq ProperStates /\ around \subseteq States
  BY <1>5, <1>6, PseudoLeaf, Tables
<1>8. ASSUME NEW x \in around
      PROVE  x \in Ancestors[h] \/ x \in Descendants[p]
  <2>1. x \in States /\ m \in Descendants[x]
    BY <1>5, <1>6, <1>7, Tables
  <2>2. x = p \/ x \in Descendants[p] \/ p \in Descendants[x]
    BY <1>2, <1>5, <2>1, Nested
  <2>3. x = p \/ p \in Descendants[x] => h \in Descendants[x]
    BY <1>1, <1>2, <2>1, Nested
  <2>4. QED
    BY <1>1, <2>1, <2>2, <2>3, Tables
<1>9. Ancestors[h] \cap Descendants[p] = {}
  <2>1. ASSUME NEW x \in Ancestors[h], x \in Descendants[p]
        PROVE  FALSE
    <3>1. x \in States /\ h \in Descendants[x]
      BY <1>1, Tables
    <3>2. x = p \/ p \in Descendants[x]
      BY <1>1, <3>1, ParentInnermost
    <3>3. p < x /\ p \in Nat /\ x \in Nat
      BY <1>2, <2>1, <3>1, Nested, Tables
    <3>4. x < p
      BY <1>2, <3>1, <3>2, <3>3, Nested
    <3>5. QED
      BY <3>3, <3>4
  <2>2. QED
    BY <2>1
<1>10. ASSUME NEW s \in a
       PROVE  Ancestors[s] \cap Descendants[p] \subseteq a \cup Regions(p)
  <2>1. CASE s \in targets
    BY <1>3, <1>9, <2>1
  <2>2. CASE s \in around
    <3>1. s \in States /\ m \in Descendants[s] /\ around = Ancestors[m]
      BY <1>5, <1>6, <1>7, <2>2, Tables
    <3>2. Ancestors[s] \subseteq Ancestors[m]
      <4>1. ASSUME NEW x \in Ancestors[s]
            PROVE  x \in Ancestors[m]
        <5>1. x \in States /\ s \in Descendants[x]
          BY <3>1, Tables
        <5>2. m \in Descendants[x]
          BY <3>1, <5>1, Nested
        <5>3. QED
          BY <1>5, <5>1, <5>2, Tables
      <4>2. QED
        BY <4>1
    <3>3. QED
      BY <3>1, <3>2
  <2>3. QED
    BY <2>1, <2>2
<1>11. a \subseteq WithAncestors(targets)
  BY <1>5, <1>6 DEF WithAncestors
<1>12. \A q \in States : Type[q] = "compound" => \A x, y \in Children[q] \cap a : x = y
  BY <1>4, <1>11 DEF Compatible
<1>13. \A s \in a : IsProper(s)
  BY <1>3, <1>7 DEF ProperStates
<1>14. \A s \in a : s > h
  BY <1>1, <1>13, PseudoFirst
<1>15. a # {}
  BY <1>3
<1>16. Replaces(a, h, p)
  BY <1>10, <1>12, <1>13, <1>14, <1>15 DEF Replaces
<1>17. QED
  BY <1>3, <1>7, <1>8, <1>16 DEF targets, around

(***************************************************************************)
(* The entry set without the histories the pass has been at: the code      *)
(* leaves them in it, where nothing looks at them.                         *)
(***************************************************************************)
Ahead(i, e) == {s \in e : IsHistory(s) => s >= i}

(***************************************************************************)
(* What is ahead after the state i.                                        *)
(***************************************************************************)
LEMMA AheadNext ==
    ASSUME NEW i \in States, NEW e \in SUBSET States, NEW set \in SUBSET States,
           \A x \in set : IsHistory(x) => x > i
    PROVE  /\ Ahead(i + 1, (e \ {i}) \cup set) = (Ahead(i, e) \ {i}) \cup set
           /\ IsHistory(i) => Ahead(i + 1, e \cup set) = (Ahead(i, e) \ {i}) \cup set
           /\ i \notin e \/ ~IsHistory(i) => Ahead(i + 1, e \cup set) = Ahead(i, e) \cup set
           /\ Ahead(i, e) \cap Descendants[i] = e \cap Descendants[i]
<1>1. i \in Nat /\ e \subseteq Nat /\ set \subseteq Nat
  BY Tables
<1>2. \A x \in set : IsHistory(x) => x >= i + 1
  BY <1>1
<1>3. \A x \in e : x # i => (x >= i <=> x >= i + 1)
  BY <1>1
<1>4. ~(i >= i + 1)
  BY <1>1
<1>5. \A x \in e \cap Descendants[i] : x >= i
  BY <1>1, Nested
<1>6. QED
  BY <1>2, <1>3, <1>4, <1>5 DEF Ahead

(***************************************************************************)
(* Completing one state maintains the invariant of the pass and takes no   *)
(* proper state out of the entry set.  <scxml> is never completed: a       *)
(* microstep that enters it has a target inside it.                        *)
(***************************************************************************)
LEMMA CompleteStateKeeps ==
    ASSUME WellFormedChart, NEW s \in States, NEW e \in EntrySets, NEW c, NEW d, NEW hist,
           Frame(c, d), Remembered(c, d, hist),
           EntryInv(s, Ahead(s, e.entry), c, d), s \in e.entry,
           s = 0 => e.entry \cap Descendants[0] # {}
    PROVE  LET f == CompleteState(s, e, c, hist, c \cap d)
           IN /\ EntryInv(s + 1, Ahead(s + 1, f.entry), c, d)
              /\ e.entry \cap ProperStates \subseteq f.entry
<1> DEFINE f == CompleteState(s, e, c, hist, c \cap d)
           x == c \cap d
           ahead == Ahead(s, e.entry)
<1>0. StateCompleted(f, s, e, c, hist, x)
  BY CompleteStateCases
<1>1. Type[s] \in Types /\ e.entry \in SUBSET States /\ s \in Nat
  BY TypeAssumption, Tables DEF EntrySets
<1> HIDE DEF f
<1>2. s \in ahead
  BY <1>1 DEF Ahead
<1>3. ASSUME NEW set \in SUBSET States, \A k \in set : IsHistory(k) => k > s
      PROVE  /\ Ahead(s + 1, (e.entry \ {s}) \cup set) = (ahead \ {s}) \cup set
             /\ IsHistory(s) => Ahead(s + 1, e.entry \cup set) = (ahead \ {s}) \cup set
             /\ ~IsHistory(s) => Ahead(s + 1, e.entry \cup set) = ahead \cup set
             /\ ahead \cap Descendants[s] = e.entry \cap Descendants[s]
  <2> DEFINE e0 == e.entry
  <2>1. e0 \in SUBSET States
    BY <1>1
  <2> HIDE DEF e0
  <2>2. /\ Ahead(s + 1, (e0 \ {s}) \cup set) = (Ahead(s, e0) \ {s}) \cup set
        /\ IsHistory(s) => Ahead(s + 1, e0 \cup set) = (Ahead(s, e0) \ {s}) \cup set
        /\ s \notin e0 \/ ~IsHistory(s) => Ahead(s + 1, e0 \cup set) = Ahead(s, e0) \cup set
        /\ Ahead(s, e0) \cap Descendants[s] = e0 \cap Descendants[s]
    BY <1>3, <2>1, AheadNext
  <2>3. QED
    BY <2>2 DEF e0
<1>4. EntryInv(s, ahead, c, d)
  OBVIOUS
<1> HIDE DEF ahead
<1>5. CASE Type[s] = "parallel"
  <2>1. f.entry = e.entry \cup ChildStates[s]
    BY <1>0, <1>5 DEF StateCompleted
  <2>2. EntryInv(s + 1, ahead \cup ChildStates[s], c, d)
    BY <1>2, <1>4, <1>5, CompleteParallel
  <2>3. ChildStates[s] \in SUBSET States /\ ~IsHistory(s)
        /\ \A k \in ChildStates[s] : ~IsHistory(k)
    BY <1>5, Tables DEF ProperStates, IsProper, IsHistory, Pseudo
  <2>4. Ahead(s + 1, f.entry) = ahead \cup ChildStates[s]
    BY <1>3, <2>1, <2>3
  <2>5. QED
    BY <2>1, <2>2, <2>4 DEF f
<1>6. CASE Type[s] = "initial"
  <2>1. PICK set \in SUBSET Descendants[Parent[s]] :
           /\ set # {} /\ Compatible(set)
           /\ f.entry = (e.entry \ {s}) \cup WithAncestors(set)
    BY <1>0, <1>6 DEF StateCompleted
  <2>2. EntryInv(s + 1, (ahead \ {s}) \cup WithAncestors(set), c, d)
    BY <1>2, <1>4, <1>6, <2>1, FollowInitial
  <2>3. ~IsProper(s) /\ s \notin ProperStates
    BY <1>6 DEF ProperStates, IsProper, Pseudo
  <2>4. set \in SUBSET States
    BY <2>1 DEF Compatible, ProperStates, Histories
  <2>5. /\ WithAncestors(set) \in SUBSET States
        /\ \A k \in WithAncestors(set) : k \in set \/ \E y \in set : y \in Descendants[k]
    BY <2>4, WithAncestorsClosed
  <2>6. ASSUME NEW k \in WithAncestors(set), IsHistory(k)
        PROVE  k > s
    <3>1. ~IsProper(k)
      BY <2>6 DEF IsHistory, IsProper, Pseudo
    <3>2. k \in set
      BY <2>5, <3>1, PseudoLeaf
    <3>3. QED
      BY <1>6, <2>1, <2>3, <2>6, <3>2, PseudoFirst
  <2>7. Ahead(s + 1, f.entry) = (ahead \ {s}) \cup WithAncestors(set)
    BY <1>3, <2>1, <2>5, <2>6
  <2>8. QED
    BY <2>1, <2>2, <2>3, <2>7 DEF f
<1>7. CASE Type[s] = "compound"
  <2>1. /\ Ahead(s + 1, e.entry \cup {}) = ahead \cup {}
        /\ ahead \cap Descendants[s] = e.entry \cap Descendants[s]
        /\ \A k \in Children[s] : Ahead(s + 1, e.entry \cup {k}) = ahead \cup {k}
    <3>1. ~IsHistory(s)
      BY <1>7 DEF IsHistory
    <3>2. \A k \in Children[s] : {k} \in SUBSET States /\ k > s
      BY <1>1, AncestorsOfChild, Tables
    <3>3. {} \in SUBSET States
      OBVIOUS
    <3>4. QED
      BY <1>3, <3>1, <3>2, <3>3
  <2>2. CASE \/ e.entry \cap Descendants[s] # {}
             \/ c \cap Descendants[s] # {} /\ x \cap Descendants[s] = {}
    <3>1. f.entry = e.entry
      BY <1>0, <1>7, <2>2 DEF StateCompleted
    <3>2. ahead \cap Descendants[s] # {} \/ (c \ d) \cap Descendants[s] # {}
      BY <2>1, <2>2
    <3>3. EntryInv(s + 1, ahead, c, d)
      BY <1>4, <1>7, <3>2, NothingToComplete
    <3>4. Ahead(s + 1, f.entry) = ahead
      BY <2>1, <3>1
    <3>5. QED
      BY <3>1, <3>3, <3>4 DEF f
  <2>3. CASE ~(\/ e.entry \cap Descendants[s] # {}
               \/ c \cap Descendants[s] # {} /\ x \cap Descendants[s] = {})
    <3>1. s # 0
      BY <2>3
    <3>2. PICK k \in Children[s] : f.entry = e.entry \cup {k}
      BY <1>0, <1>7, <2>3, <3>1 DEF StateCompleted
    <3>3. EntryInv(s + 1, ahead \cup {k}, c, d)
      BY <1>2, <1>4, <1>7, <2>1, <2>3, <3>2, CompleteCompound
    <3>4. Ahead(s + 1, f.entry) = ahead \cup {k}
      BY <2>1, <3>2
    <3>5. QED
      BY <3>2, <3>3, <3>4 DEF f
  <2>4. QED
    BY <2>2, <2>3
<1>8. CASE Type[s] \in {"atomic", "final"}
  <2>1. f.entry = e.entry
    BY <1>0, <1>8 DEF StateCompleted
  <2>2. EntryInv(s + 1, ahead, c, d)
    BY <1>4, <1>8, NothingToComplete
  <2>3. Ahead(s + 1, e.entry \cup {}) = ahead \cup {}
    <3>1. ~IsHistory(s) /\ {} \in SUBSET States
      BY <1>8 DEF IsHistory
    <3>2. QED
      BY <1>3, <3>1
  <2>4. QED
    BY <2>1, <2>2, <2>3 DEF f
<1>9. CASE IsHistory(s)
  <2> DEFINE p == Parent[s]
             known == Completion[s] \cap hist
  <2>1. ~IsProper(s) /\ s \in Histories /\ Descendants[s] = {}
    BY <1>9, PseudoLeaf DEF Histories, IsHistory, IsProper, Pseudo
  <2>2. p \in d
    BY <1>2, <1>4, <2>1 DEF EntryInv, PseudoAhead
  <2>3. (known = {} /\ p \notin c) \/ Whole(s, known)
    BY <2>1, <2>2 DEF Remembered
  <2>4. ASSUME NEW set, set \subseteq ProperStates, f.entry = e.entry \cup set,
               set \ Descendants[p] \subseteq Ancestors[s], Replaces(set \cap Descendants[p], s, p)
        PROVE  EntryInv(s + 1, Ahead(s + 1, f.entry), c, d)
    <3>1. EntryInv(s + 1, (ahead \ {s}) \cup (set \cap Descendants[p]), c, d)
      BY <1>2, <1>4, <2>1, <2>4, FollowPseudo
    <3>2. set \in SUBSET States /\ \A k \in set : ~IsHistory(k)
      BY <2>4 DEF ProperStates, IsProper, IsHistory, Pseudo
    <3>3. Ahead(s + 1, f.entry) = (ahead \ {s}) \cup set
      BY <1>9, <1>3, <2>4, <3>2
    <3>4. Ancestors[s] \subseteq ahead \ {s}
      <4>1. Ancestors[s] \subseteq ahead
        BY <1>2, <1>4 DEF EntryInv, InsideFrame
      <4>2. s \notin Ancestors[s]
        BY <2>1, Tables
      <4>3. QED
        BY <4>1, <4>2
    <3>5. (ahead \ {s}) \cup set = (ahead \ {s}) \cup (set \cap Descendants[p])
      BY <2>4, <3>4
    <3>6. QED
      BY <3>1, <3>3, <3>5
  <2>5. CASE known # {} \/ p \in c
    <3>1. f.entry = e.entry \cup known
      BY <1>0, <1>9, <2>5 DEF StateCompleted
    <3>2. Whole(s, known)
      BY <2>3, <2>5
    <3> HIDE DEF known
    <3>3. Replaces(known, s, p) /\ known \subseteq ProperStates /\ known \subseteq Descendants[p]
      BY <2>1, <3>2, KnownReplaces DEF Whole
    <3>4. known \cap Descendants[p] = known /\ known \ Descendants[p] \subseteq Ancestors[s]
      BY <3>3
    <3>5. EntryInv(s + 1, Ahead(s + 1, f.entry), c, d)
      BY <2>4, <3>1, <3>3, <3>4
    <3>6. QED
      BY <3>1, <3>5 DEF f
  <2>6. CASE ~(known # {} \/ p \in c)
    <3>1. PICK t \in TransIdx :
             /\ DefaultTransitions(s) = {t}
             /\ f.entry = e.entry \cup Trans[t].target \cup AroundDefault(s, Trans[t].target)
      BY <1>0, <1>9, <2>6 DEF StateCompleted
    <3> DEFINE set == Trans[t].target \cup AroundDefault(s, Trans[t].target)
    <3>2. /\ set \subseteq ProperStates
          /\ set \ Descendants[p] \subseteq Ancestors[s]
          /\ Replaces(set \cap Descendants[p], s, p)
      BY <2>1, <3>1, DefaultReplaces
    <3>3. f.entry = e.entry \cup set
      BY <3>1
    <3> HIDE DEF set
    <3>4. EntryInv(s + 1, Ahead(s + 1, f.entry), c, d)
      BY <2>4, <3>2, <3>3
    <3>5. QED
      BY <3>3, <3>4 DEF f
  <2>7. QED
    BY <2>5, <2>6
<1>10. QED
  BY <1>1, <1>5, <1>6, <1>7, <1>8, <1>9 DEF Types, Pseudo, IsHistory

EntryStep(s, e, c, hist, x) ==
    IF s \in e.entry THEN CompleteState(s, e, c, hist, x) ELSE e

IsEntryPass(pass, targets, taken, c, hist, x) ==
    /\ pass \in [0 .. NumStates -> EntrySets]
    /\ EstablishEntrySet(targets, taken, c, hist, x) = pass[NumStates]
    /\ pass[0] = [entry |-> WithAncestors(targets), taken |-> taken]
    /\ \A s \in States : pass[s + 1] = EntryStep(s, pass[s], c, hist, x)

(***************************************************************************)
(* EstablishEntrySet is its pass over the states.                          *)
(***************************************************************************)
LEMMA EntryPass ==
    ASSUME WellFormedChart, NEW targets \in SUBSET States, NEW taken \in SUBSET TransIdx,
           NEW c, NEW hist, NEW x
    PROVE  \E pass : IsEntryPass(pass, targets, taken, c, hist, x)
<1> DEFINE N == NumStates
           e0 == [entry |-> WithAncestors(targets), taken |-> taken]
           Rec(f) == [i \in 0 .. N |->
                         IF i = 0 THEN e0
                         ELSE LET e == f[i - 1]
                              IN IF i - 1 \in e.entry
                                 THEN CompleteState(i - 1, e, c, hist, x)
                                 ELSE e]
           pass == CHOOSE f : f = Rec(f)
           step == [p \in (1 .. N) \X EntrySets |-> EntryStep(p[1] - 1, p[2], c, hist, x)]
<1>1. EstablishEntrySet(targets, taken, c, hist, x) = pass[N]
  BY DEF EstablishEntrySet
<1>2. N \in Nat /\ States = 0 .. N - 1
  BY Tables DEF States
<1>3. e0 \in EntrySets
  BY WithAncestorsClosed DEF EntrySets
<1>4. ASSUME NEW i \in 1 .. N, NEW e \in EntrySets
      PROVE  EntryStep(i - 1, e, c, hist, x) \in EntrySets
  <2>1. i - 1 \in States
    BY <1>2
  <2>2. QED
    <3>1. StateCompleted(CompleteState(i - 1, e, c, hist, x), i - 1, e, c, hist, x)
      BY <2>1, CompleteStateCases
    <3>2. QED
      BY <3>1 DEF EntryStep, StateCompleted
<1>5. step \in [(1 .. N) \X EntrySets -> EntrySets]
  BY <1>4
<1>6. PICK f : IsRecursive(f, N, EntrySets, e0, step)
  <2> HIDE DEF step, N, e0
  <2>1. QED
    BY <1>2, <1>3, <1>5, FiniteRecursion
<1>7. ASSUME NEW n \in 1 .. N
      PROVE  f[n] = EntryStep(n - 1, f[n - 1], c, hist, x)
  <2>1. n - 1 \in 0 .. N
    BY <1>2
  <2>2. f[n - 1] \in EntrySets
    BY <1>6, <2>1 DEF IsRecursive
  <2>3. step[<<n, f[n - 1]>>] = EntryStep(n - 1, f[n - 1], c, hist, x)
    BY <2>2
  <2>4. QED
    BY <1>6, <2>3 DEF IsRecursive
<1>8. f = Rec(f)
  <2>1. f = [i \in 0 .. N |-> f[i]] /\ f[0] = e0
    <3> HIDE DEF step, N, e0
    <3>1. QED
      BY <1>6 DEF IsRecursive
  <2>2. Rec(f) = [i \in 0 .. N |-> IF i = 0 THEN e0 ELSE EntryStep(i - 1, f[i - 1], c, hist, x)]
    BY DEF EntryStep
  <2> HIDE DEF Rec, e0
  <2>3. \A i \in 0 .. N : f[i] = IF i = 0 THEN e0 ELSE EntryStep(i - 1, f[i - 1], c, hist, x)
    BY <1>2, <1>7, <2>1
  <2>4. QED
    BY <2>1, <2>2, <2>3
<1>9. pass = Rec(pass)
  <2> HIDE DEF Rec
  <2>1. QED
    BY <1>8
<1>10. /\ pass[0] = e0
       /\ \A n \in 1 .. N : pass[n] = EntryStep(n - 1, pass[n - 1], c, hist, x)
       /\ pass = [n \in 0 .. N |-> pass[n]]
  <2> HIDE DEF pass, e0
  <2>1. QED
    BY <1>2, <1>9 DEF EntryStep
<1> HIDE DEF pass, N, e0
<1>11. \A n \in 0 .. N : pass[n] \in EntrySets
  <2> DEFINE S == {n \in 0 .. N : pass[n] \in EntrySets}
  <2>1. 0 \in S
    BY <1>2, <1>3, <1>10
  <2>2. ASSUME NEW n \in 0 .. N - 1, n \in S
        PROVE  n + 1 \in S
    <3>1. n + 1 \in 1 .. N /\ n + 1 \in 0 .. N /\ (n + 1) - 1 = n
      BY <1>2
    <3>2. pass[n + 1] = EntryStep(n, pass[n], c, hist, x)
      BY <1>10, <3>1
    <3>3. EntryStep(n, pass[n], c, hist, x) \in EntrySets
      BY <1>4, <2>2, <3>1
    <3>4. QED
      BY <3>1, <3>2, <3>3
  <2> HIDE DEF S
  <2>3. 0 .. N \subseteq S
    BY <1>2, <2>1, <2>2, IntervalInduction
  <2>4. QED
    BY <2>3 DEF S
<1>12. pass \in [0 .. N -> EntrySets]
  BY <1>10, <1>11
<1>13. \A s \in States : pass[s + 1] = EntryStep(s, pass[s], c, hist, x)
  <2>1. ASSUME NEW s \in States
        PROVE  pass[s + 1] = EntryStep(s, pass[s], c, hist, x)
    <3>1. s + 1 \in 1 .. N /\ (s + 1) - 1 = s
      BY <1>2
    <3>2. QED
      BY <1>10, <3>1
  <2>2. QED
    BY <2>1
<1>14. IsEntryPass(pass, targets, taken, c, hist, x)
  BY <1>1, <1>10, <1>12, <1>13 DEF e0, N, IsEntryPass
<1>15. QED
  BY <1>14

(***************************************************************************)
(* ESTABLISH_ENTRYSET maintains the invariant of its pass to the end, and  *)
(* enters the targets and their ancestors.                                 *)
(***************************************************************************)
LEMMA EntrySetComplete ==
    ASSUME WellFormedChart, NEW targets \in SUBSET States, NEW taken \in SUBSET TransIdx,
           NEW c, NEW d, NEW hist, Frame(c, d), Remembered(c, d, hist),
           EntryInv(0, WithAncestors(targets), c, d),
           0 \in WithAncestors(targets) => WithAncestors(targets) \cap Descendants[0] # {}
    PROVE  LET e == EstablishEntrySet(targets, taken, c, hist, c \cap d).entry
           IN /\ e \subseteq States
              /\ EntryInv(NumStates, Ahead(NumStates, e), c, d)
              /\ WithAncestors(targets) \cap ProperStates \subseteq e
<1> DEFINE x == c \cap d
           N == NumStates
           w == WithAncestors(targets) \cap ProperStates
<1>0. PICK pass : IsEntryPass(pass, targets, taken, c, hist, x)
  <2> HIDE DEF x
  <2>1. QED
    BY EntryPass
<1>1. /\ pass \in [0 .. N -> EntrySets]
      /\ EstablishEntrySet(targets, taken, c, hist, x) = pass[N]
      /\ pass[0] = [entry |-> WithAncestors(targets), taken |-> taken]
      /\ \A s \in States : pass[s + 1] = EntryStep(s, pass[s], c, hist, x)
  BY <1>0 DEF IsEntryPass
<1>2. N \in Nat /\ States = 0 .. N - 1
  BY Tables DEF States
<1> DEFINE S == {n \in 0 .. N : EntryInv(n, Ahead(n, pass[n].entry), c, d) /\ w \subseteq pass[n].entry}
<1> HIDE DEF N
<1>3. pass[0].entry = WithAncestors(targets)
  BY <1>1
<1>4. 0 \in S
  <2>1. WithAncestors(targets) \subseteq Nat
    BY WithAncestorsClosed, Tables
  <2>2. Ahead(0, WithAncestors(targets)) = WithAncestors(targets)
    BY <2>1 DEF Ahead
  <2>3. QED
    BY <1>2, <1>3, <2>2
<1> HIDE DEF w
<1>5. ASSUME NEW n \in 0 .. N - 1, n \in S
      PROVE  n + 1 \in S
  <2>1. n \in States /\ n \in 0 .. N /\ n + 1 \in 0 .. N
    BY <1>2
  <2>2. /\ pass[n] \in EntrySets
        /\ EntryInv(n, Ahead(n, pass[n].entry), c, d)
        /\ w \subseteq pass[n].entry
    BY <1>1, <1>5, <2>1
  <2>3. pass[n + 1] = EntryStep(n, pass[n], c, hist, x)
    BY <1>1, <2>1
  <2>4. CASE n \in pass[n].entry
    <3>1. n = 0 => pass[n].entry \cap Descendants[0] # {}
      BY <1>3, <2>4
    <3>2. /\ EntryInv(n + 1, Ahead(n + 1, CompleteState(n, pass[n], c, hist, x).entry), c, d)
          /\ pass[n].entry \cap ProperStates \subseteq CompleteState(n, pass[n], c, hist, x).entry
      BY <2>1, <2>2, <2>4, <3>1, CompleteStateKeeps
    <3>3. w \subseteq ProperStates
      BY DEF w
    <3>4. pass[n + 1] = CompleteState(n, pass[n], c, hist, x)
      BY <2>3, <2>4 DEF EntryStep
    <3>5. QED
      BY <2>1, <2>2, <3>2, <3>3, <3>4
  <2>5. CASE n \notin pass[n].entry
    <3> DEFINE e == pass[n].entry
    <3>1. e \in SUBSET States /\ {} \in SUBSET States
      BY <2>2 DEF EntrySets
    <3>2. n \notin Ahead(n, e)
      BY <2>5 DEF Ahead
    <3>3. EntryInv(n + 1, Ahead(n, e), c, d)
      <4> HIDE DEF e
      <4>1. QED
        BY <2>1, <2>2, <3>2, NothingToComplete DEF e
    <3>4. Ahead(n + 1, e \cup {}) = Ahead(n, e) \cup {}
      <4>1. n \notin e
        BY <2>5
      <4>2. e \subseteq Nat /\ n \in Nat
        BY <2>1, <3>1, Tables
      <4> HIDE DEF e
      <4>3. \A y \in e : y >= n + 1 <=> y >= n
        BY <4>1, <4>2
      <4>4. QED
        BY <4>3 DEF Ahead
    <3>5. EntryInv(n + 1, Ahead(n + 1, e), c, d)
      BY <3>3, <3>4
    <3>6. QED
      BY <2>1, <2>2, <2>3, <2>5, <3>5 DEF EntryStep
  <2>6. QED
    BY <2>4, <2>5
<1> HIDE DEF S
<1>6. N \in S
  <2>1. 0 .. N \subseteq S
    BY <1>2, <1>4, <1>5, IntervalInduction
  <2>2. QED
    BY <1>2, <2>1
<1>7. pass[N].entry \subseteq States
  BY <1>1, <1>2 DEF EntrySets
<1>8. QED
  BY <1>1, <1>6, <1>7 DEF S, N, w

(***************************************************************************)
(* Once every state is completed, what is kept and what is entered make up *)
(* a legal configuration.                                                  *)
(***************************************************************************)
LEMMA CompletedIsLegal ==
    ASSUME NEW c, NEW d, NEW e, Frame(c, d), EntryInv(NumStates, e, c, d), 0 \in e \cup (c \ d)
    PROVE  /\ e \subseteq ProperStates
           /\ LegalConfiguration((c \ d) \cup e)
<1> DEFINE k == c \ d
           new == k \cup e
<1>1. e \subseteq States /\ k \subseteq ProperStates /\ \A s \in States : s < NumStates
  BY Tables DEF EntryInv, InsideFrame, Frame, ProperStates, States
<1>2. e \subseteq ProperStates
  <2>1. ASSUME NEW s \in e, ~IsProper(s)
        PROVE  FALSE
    <3>1. s >= NumStates
      BY <2>1 DEF EntryInv, PseudoAhead
    <3>2. s \in Nat /\ s < NumStates /\ NumStates \in Nat
      BY <1>1, Tables
    <3>3. QED
      BY <3>1, <3>2
  <2>2. QED
    BY <1>1, <2>1 DEF ProperStates
<1>3. new \subseteq ProperStates /\ new \subseteq States
  BY <1>1, <1>2 DEF ProperStates
<1>4. \A s \in new : Ancestors[s] \subseteq new
  BY DEF EntryInv, InsideFrame, Frame
<1>5. ASSUME NEW s \in new \ {0}
      PROVE  Parent[s] \in new
  <2>1. Parent[s] \in States /\ s \in Descendants[Parent[s]] /\ s \in States
    BY <1>3, ParentInnermost
  <2>2. Parent[s] \in Ancestors[s]
    BY <2>1, Tables
  <2>3. QED
    BY <1>4, <2>2
<1>6. ASSUME NEW s \in new, Type[s] = "compound"
      PROVE  Cardinality(ChildStates[s] \cap new) = 1
  <2>1. s \in States
    BY <1>3
  <2>2. new \cap Descendants[s] # {}
    <3>1. CASE s \in e
      BY <1>1, <1>6, <3>1 DEF EntryInv, Completed
    <3>2. CASE s \in k
      BY <1>6, <3>2 DEF EntryInv, KeptCompleted
    <3>3. QED
      BY <3>1, <3>2
  <2>3. PICK y \in new : y \in Descendants[s]
    BY <2>2
  <2>4. PICK x \in Children[s] : x = y \/ y \in Descendants[x]
    BY <2>1, <2>3, ChildTowards
  <2>5. x \in States
    BY <2>1, AncestorsOfChild
  <2>6. x \in new
    BY <1>3, <1>4, <2>3, <2>4, <2>5, Tables
  <2>7. x \in ChildStates[s] \cap new
    BY <1>3, <2>1, <2>4, <2>6, Tables
  <2>8. ASSUME NEW z \in ChildStates[s] \cap new
        PROVE  z = x
    <3>1. z \in Children[s]
      BY <2>1, Tables
    <3>2. QED
      BY <1>6, <2>1, <2>4, <2>6, <3>1 DEF EntryInv, OneChild
  <2>9. ChildStates[s] \cap new = {x}
    BY <2>7, <2>8
  <2>10. QED
    BY <2>9, FS_Singleton
<1>7. ASSUME NEW s \in new, Type[s] = "parallel"
      PROVE  ChildStates[s] \subseteq new
  <2>1. CASE s \in e
    BY <1>1, <1>7, <2>1 DEF EntryInv, Completed
  <2>2. CASE s \in k
    BY <1>7, <2>2 DEF Frame
  <2>3. QED
    BY <2>1, <2>2
<1>8. LegalConfiguration(new)
  BY <1>3, <1>5, <1>6, <1>7 DEF LegalConfiguration
<1>9. QED
  BY <1>2, <1>8

-----------------------------------------------------------------------------
(* Where the transitions of a selected set take place. *)

(***************************************************************************)
(* In a legal configuration the ancestors of an active state are active,   *)
(* and one child of an active compound state.                              *)
(***************************************************************************)
LEMMA LegalMeans ==
    ASSUME NEW c, LegalConfiguration(c)
    PROVE  /\ c \subseteq ProperStates /\ c \subseteq States /\ 0 \in c
           /\ \A s \in c : Ancestors[s] \subseteq c
           /\ \A s \in c : Type[s] = "parallel" => ChildStates[s] \subseteq c
           /\ \A s \in c : Type[s] = "compound" => \E x : ChildStates[s] \cap c = {x}
<1>1. c \subseteq ProperStates /\ c \subseteq States /\ 0 \in c
  BY DEF LegalConfiguration, ProperStates
<1>2. ASSUME NEW s \in c
      PROVE  Ancestors[s] \subseteq c
  <2> SUFFICES ASSUME Ancestors[s] \ c # {}
               PROVE  FALSE
    OBVIOUS
  <2>1. s \in States /\ s \in Nat
    BY <1>1, Tables
  <2> DEFINE S == {a \in c : \E b \in Ancestors[s] \ c : b \in Ancestors[a]}
  <2>2. s \in S /\ S \in SUBSET Nat
    BY <1>1, Tables
  <2>3. PICK a \in S : \A k \in S : a <= k
    BY <2>2, LeastElement
  <2>4. PICK b \in Ancestors[s] \ c : b \in Ancestors[a]
    BY <2>3
  <2>5. a \in c /\ a \in States /\ b \in States /\ a \in Descendants[b] /\ a \in Nat
    BY <1>1, <2>1, <2>3, <2>4, Tables
  <2>6. a # 0
    BY <2>5, Nested, Tables
  <2>7. Parent[a] \in c /\ Parent[a] \in States /\ a \in Descendants[Parent[a]] /\ Parent[a] < a
    BY <1>1, <2>5, <2>6, ParentInnermost, Nested DEF LegalConfiguration
  <2>8. Parent[a] \in Descendants[b]
    BY <2>4, <2>5, <2>6, <2>7, ParentInnermost
  <2>9. b \in Ancestors[Parent[a]]
    BY <2>5, <2>7, <2>8, Tables
  <2>10. Parent[a] \in S
    BY <2>4, <2>7, <2>9
  <2>11. a <= Parent[a] /\ Parent[a] \in Nat
    BY <2>3, <2>7, <2>10, Tables
  <2>12. QED
    BY <2>5, <2>7, <2>11
<1>3. IsFiniteSet(States)
  <2>1. 0 \in Int /\ NumStates - 1 \in Int
    BY Tables
  <2>2. QED
    BY <2>1, FS_Interval DEF States
<1>4. ASSUME NEW s \in c, Type[s] = "compound"
      PROVE  \E x : ChildStates[s] \cap c = {x}
  <2>1. IsFiniteSet(ChildStates[s] \cap c)
    <3>1. ChildStates[s] \cap c \subseteq States
      BY <1>1
    <3>2. QED
      BY <1>3, <3>1, FS_Subset
  <2>2. Cardinality(ChildStates[s] \cap c) = 1
    BY <1>4 DEF LegalConfiguration
  <2>3. QED
    BY <2>1, <2>2, FS_Singleton
<1>5. QED
  BY <1>1, <1>2, <1>4 DEF LegalConfiguration

(***************************************************************************)
(* The elements of a sequence are of its type.                             *)
(***************************************************************************)
LEMMA ElementOfSeq ==
    ASSUME NEW S, NEW q \in Seq(S), NEW i \in 1 .. Len(q)
    PROVE  q[i] \in S
  OBVIOUS

(***************************************************************************)
(* The fields of a transition.                                             *)
(***************************************************************************)
LEMMA TransFields ==
    ASSUME NEW t \in TransIdx
    PROVE  /\ Trans[t].source \in States \ {0}
           /\ Trans[t].target \in SUBSET (States \ {0})
<1> DEFINE R == [source : States \ {0}, target : SUBSET (States \ {0}), internal : BOOLEAN,
                 events : SUBSET [name : STRING, of : Nat],
                 guarded : BOOLEAN, raises : Seq([name : STRING, of : Nat])]
<1>1. Trans \in Seq(R) /\ t \in 1 .. Len(Trans)
  BY TransAssumption, LenTrans
<1> HIDE DEF R
<1>2. Trans[t] \in R
  BY <1>1, ElementOfSeq
<1>3. QED
  BY <1>2 DEF R

(***************************************************************************)
(* The domain of a transition is a compound state around its source, or    *)
(* the source itself, and around its targets.                              *)
(***************************************************************************)
LEMMA DomainAround ==
    ASSUME NEW t \in TransIdx, ~IsDefault(t)
    PROVE  /\ TransitionDomain(t) \in States
           /\ Type[TransitionDomain(t)] = "compound"
           /\ Trans[t].target \subseteq Descendants[TransitionDomain(t)]
           /\ \/ Trans[t].source = TransitionDomain(t)
              \/ TransitionDomain(t) \in Ancestors[Trans[t].source]
<1> DEFINE src == Trans[t].source
           set == Trans[t].target
           around == {a \in Ancestors[src] : Type[a] = "compound" /\ set \subseteq Descendants[a]}
<1>1. src \in States /\ src # 0 /\ set \subseteq States \ {0}
  BY TransFields
<1>2. SourceState(t) = src
  BY DEF IsDefault, SourceState, IsProper, Pseudo
<1>3. 0 \in Ancestors[src] /\ Type[0] = "compound" /\ set \subseteq Descendants[0]
  <2>1. \A s \in States \ {0} : s \in Descendants[0]
    BY Tables, Nested
  <2>2. QED
    BY <1>1, <2>1, Tables, TypeAssumption
<1>4. around \cup {0} \in SUBSET States
  <2>1. Ancestors[src] \in SUBSET States
    BY <1>1, Tables
  <2>2. 0 \in States
    BY <1>1, Tables
  <2>3. around \subseteq Ancestors[src]
    OBVIOUS
  <2> HIDE DEF around
  <2>4. QED
    BY <2>1, <2>2, <2>3
<1>5. Max(around \cup {0}) \in around \cup {0}
  <2>1. around \cup {0} \in SUBSET (0 .. NumStates - 1)
    BY <1>4 DEF States
  <2>2. NumStates - 1 \in Nat
    BY Tables
  <2> DEFINE S == around \cup {0}
  <2> HIDE DEF around
  <2>3. \E m \in S : \A k \in S : k <= m
    BY <2>1, <2>2, GreatestElement
  <2>4. S \in SUBSET Nat
    BY <2>1
  <2>5. \E m \in S : \A k \in S : m >= k
    BY <2>3, <2>4
  <2>6. QED
    BY <2>5 DEF Max
<1>6. Max(around \cup {0}) \in around
  BY <1>3, <1>5
<1>7. FindLCCA(src, set) \in around
  BY <1>6 DEF FindLCCA
<1> HIDE DEF around
<1>8. \/ TransitionDomain(t) = src /\ Type[src] = "compound" /\ set \subseteq Descendants[src]
      \/ TransitionDomain(t) = FindLCCA(src, set)
  BY <1>2 DEF TransitionDomain
<1>9. QED
  BY <1>1, <1>4, <1>7, <1>8 DEF around

(***************************************************************************)
(* The transitions of a selected set that move, and what they leave.       *)
(***************************************************************************)
Moving(taken) == {t \in taken : Trans[t].target # {}}
Left(taken) == UNION {Descendants[TransitionDomain(t)] : t \in Moving(taken)}

(***************************************************************************)
(* A set of transitions as SELECT_TRANSITIONS gives it: of active states,  *)
(* and without a conflict.                                                 *)
(***************************************************************************)
Selected(taken, c) ==
    /\ taken \subseteq TransIdx
    /\ \A t \in taken : ~IsDefault(t) /\ Trans[t].source \in c
    /\ \A t, u \in taken : t < u => u \notin Conflicts[t]

(***************************************************************************)
(* Transitions that do not conflict have domains of which neither is in    *)
(* the other.                                                              *)
(***************************************************************************)
LEMMA DomainsApart ==
    ASSUME NEW c, NEW taken, Selected(taken, c), NEW t \in Moving(taken), NEW u \in Moving(taken),
           NEW x \in Descendants[TransitionDomain(t)], x \in Descendants[TransitionDomain(u)]
    PROVE  t = u
<1> DEFINE Dom(v) == TransitionDomain(v)
<1> SUFFICES ASSUME t # u
             PROVE  FALSE
  OBVIOUS
<1>1. t \in taken /\ u \in taken /\ t \in TransIdx /\ u \in TransIdx /\ t \in Nat /\ u \in Nat
      /\ Trans[t].target # {} /\ Trans[u].target # {}
  BY LenTrans DEF Selected, Moving
<1>2. Dom(t) \in States /\ Type[Dom(t)] = "compound" /\ Dom(u) \in States /\ Type[Dom(u)] = "compound"
  BY <1>1, DomainAround DEF Selected
<1>3. ExitSet[t] \cap ExitSet[u] = {}
  <2>1. CASE t < u
    BY <1>1, <2>1 DEF Selected, Conflicts
  <2>2. CASE u < t
    BY <1>1, <2>2 DEF Selected, Conflicts
  <2>3. QED
    BY <1>1, <2>1, <2>2
<1>4. /\ ExitSet[t] = Descendants[Dom(t)] \cap ProperStates
      /\ ExitSet[u] = Descendants[Dom(u)] \cap ProperStates
  BY <1>1 DEF ExitSet
<1>5. Dom(t) = Dom(u) \/ Dom(t) \in Descendants[Dom(u)] \/ Dom(u) \in Descendants[Dom(t)]
  <2>1. x \in States
    BY <1>2, Tables
  <2>2. QED
    BY <1>2, <2>1, Nested
<1>6. \/ Descendants[Dom(t)] \subseteq Descendants[Dom(u)]
      \/ Descendants[Dom(u)] \subseteq Descendants[Dom(t)]
  BY <1>2, <1>5, Nested
<1>7. ASSUME NEW v \in States, Type[v] = "compound"
      PROVE  Descendants[v] \cap ProperStates # {}
  <2>1. PICK k \in ChildStates[v] : TRUE
    BY <1>7, TypeAssumption
  <2>2. k \in Descendants[v] /\ k \in ProperStates
    BY <1>7, <2>1, Tables
  <2>3. QED
    BY <2>2
<1>8. QED
  BY <1>2, <1>3, <1>4, <1>6, <1>7

(***************************************************************************)
(* What a selected set leaves is a frame of the configuration, and its     *)
(* targets with their ancestors satisfy the invariant of the pass.         *)
(***************************************************************************)
LEMMA SelectedFrame ==
    ASSUME WellFormedChart, NEW c, LegalConfiguration(c), NEW taken, Selected(taken, c)
    PROVE  /\ Frame(c, Left(taken))
           /\ EntryInv(0, WithAncestors(TargetSet(taken)), c, Left(taken))
           /\ ExitedStates(taken, c) = c \cap Left(taken)
           /\ TargetSet(taken) \in SUBSET (States \ {0})
<1> DEFINE Dom(t) == TransitionDomain(t)
           d == Left(taken)
           set == TargetSet(taken)
           w == WithAncestors(set)
<1>1. /\ c \subseteq ProperStates /\ c \subseteq States /\ 0 \in c
      /\ \A s \in c : Ancestors[s] \subseteq c
      /\ \A s \in c : Type[s] = "parallel" => ChildStates[s] \subseteq c
      /\ \A s \in c : Type[s] = "compound" => \E x : ChildStates[s] \cap c = {x}
  BY LegalMeans
<1>2. ASSUME NEW t \in Moving(taken)
      PROVE  /\ t \in taken /\ t \in TransIdx /\ Trans[t].target # {}
             /\ Dom(t) \in States /\ Type[Dom(t)] = "compound"
             /\ Dom(t) \in c
             /\ Trans[t].target \subseteq Descendants[Dom(t)]
             /\ Descendants[Dom(t)] \subseteq States
             /\ Compatible(Trans[t].target)
             /\ \A h \in Trans[t].target \cap Histories : Parent[h] \in Descendants[Dom(t)]
  <2>1. t \in taken /\ t \in TransIdx /\ Trans[t].target # {} /\ ~IsDefault(t) /\ Trans[t].source \in c
    BY DEF Moving, Selected
  <2>2. \A h \in Trans[t].target \cap Histories : Parent[h] \in Descendants[Dom(t)]
    BY <2>1 DEF WellFormedChart, ExitSet
  <2>3. QED
    BY <1>1, <2>1, <2>2, DomainAround, Tables DEF WellFormedChart
<1>3. \A x : x \in d <=> \E t \in Moving(taken) : x \in Descendants[Dom(t)]
  BY DEF Left
<1>4. \A x : x \in set <=> \E t \in Moving(taken) : x \in Trans[t].target
  BY DEF TargetSet, Moving
<1> HIDE DEF d, set, w
<1>5. d \subseteq States /\ set \subseteq d /\ set \subseteq (ProperStates \cup Histories) \ {0}
      /\ set \subseteq States \ {0}
  <2>1. d \subseteq States
    BY <1>2, <1>3
  <2>2. set \subseteq d
    BY <1>2, <1>3, <1>4
  <2>3. set \subseteq (ProperStates \cup Histories) \ {0}
    BY <1>2, <1>4 DEF Compatible
  <2>4. QED
    BY <2>1, <2>2, <2>3
\* What is above a state that is left is left or is the domain or above it, and active.
<1>6. ASSUME NEW t \in Moving(taken), NEW x \in Descendants[Dom(t)], NEW a \in Ancestors[x]
      PROVE  a \in Descendants[Dom(t)] \/ a \in c
  <2>1. a \in States /\ x \in Descendants[a] /\ x \in States
    BY <1>2, AncestorsAre
  <2>2. a = Dom(t) \/ a \in Descendants[Dom(t)] \/ Dom(t) \in Descendants[a]
    BY <1>2, <2>1, Nested
  <2>3. Dom(t) \in Descendants[a] => a \in c
    <3>1. Dom(t) \in States /\ Dom(t) \in c
      BY <1>2
    <3>2. Dom(t) \in Descendants[a] => a \in Ancestors[Dom(t)]
      BY <2>1, <3>1, Tables
    <3>3. Ancestors[Dom(t)] \subseteq c
      BY <1>1, <3>1
    <3>4. QED
      BY <3>2, <3>3
  <2>4. QED
    BY <1>2, <2>2, <2>3
\* The parent of a state that is left is the domain or is left.
<1>7. ASSUME NEW t \in Moving(taken), NEW p \in States, NEW k \in Children[p], k \in Descendants[Dom(t)]
      PROVE  p = Dom(t) \/ p \in Descendants[Dom(t)]
  <2>1. k \in States /\ k # 0 /\ Parent[k] = p
    BY AncestorsOfChild
  <2>2. QED
    BY <1>2, <1>7, <2>1, ParentInnermost
<1>8. \A s \in d : Descendants[s] \subseteq d /\ Ancestors[s] \subseteq c \cup d
  <2>1. ASSUME NEW s \in d
        PROVE  Descendants[s] \subseteq d /\ Ancestors[s] \subseteq c \cup d
    <3>1. PICK t \in Moving(taken) : s \in Descendants[Dom(t)]
      BY <1>3
    <3>2. Descendants[s] \subseteq Descendants[Dom(t)]
      BY <1>2, <1>5, <3>1, Nested
    <3>3. QED
      BY <1>3, <1>6, <3>1, <3>2
  <2>2. QED
    BY <2>1
<1>9. ASSUME NEW s \in c \ d, NEW a \in Ancestors[s]
      PROVE  a \in c \ d
  <2>1. a \in States /\ s \in Descendants[a] /\ a \in c
    BY <1>1, Tables
  <2>2. QED
    BY <1>8, <2>1
<1>10. ASSUME NEW s \in c \ d, Type[s] = "parallel", NEW k \in ChildStates[s]
       PROVE  k \in c \ d
  <2>1. k \in c /\ s \in States /\ k \in Children[s]
    BY <1>1, <1>10, Tables
  <2>2. ASSUME k \in d
        PROVE  FALSE
    <3>1. PICK t \in Moving(taken) : k \in Descendants[Dom(t)]
      BY <1>3, <2>2
    <3>2. s = Dom(t) \/ s \in Descendants[Dom(t)]
      BY <1>7, <2>1, <3>1
    <3>3. QED
      BY <1>2, <1>3, <1>10, <3>2
  <2>3. QED
    BY <2>1, <2>2
<1>11. Frame(c, d)
  BY <1>1, <1>5, <1>8, <1>9, <1>10 DEF Frame
<1>12. /\ w \subseteq States
       /\ set \subseteq w
       /\ \A s \in w : Ancestors[s] \subseteq w
       /\ \A s \in w : s \in set \/ \E x \in set : x \in Descendants[s]
  BY <1>5, WithAncestorsClosed DEF w
<1>13. InsideFrame(w, c, d)
  <2>1. ASSUME NEW s \in w
        PROVE  s \in c \cup d
    <3>1. CASE s \in set
      BY <1>5, <3>1
    <3>2. CASE \E x \in set : x \in Descendants[s]
      <4>1. PICK x \in set : x \in Descendants[s]
        BY <3>2
      <4>2. x \in d /\ s \in Ancestors[x]
        BY <1>5, <1>12, <4>1, Tables
      <4>3. QED
        BY <1>8, <4>2
    <3>3. QED
      BY <1>12, <3>1, <3>2
  <2>2. QED
    BY <1>12, <2>1 DEF InsideFrame
\* What is entered in the domain of a transition is entered for its own targets.
<1>14. ASSUME NEW t \in Moving(taken), NEW z \in w, z \in Descendants[Dom(t)]
       PROVE  z \in WithAncestors(Trans[t].target)
  <2>1. PICK v \in set : v = z \/ v \in Descendants[z]
    BY <1>12
  <2>2. PICK r \in Moving(taken) : v \in Trans[r].target
    BY <1>4
  <2>3. v \in Descendants[Dom(r)] /\ v \in Descendants[Dom(t)] /\ v \in States
    BY <1>2, <1>12, <1>14, <2>1, <2>2, Nested
  <2>4. r = t
    BY <2>3, DomainsApart
  <2>5. v = z \/ z \in Ancestors[v]
    BY <1>12, <2>1, <2>3, Tables
  <2>6. QED
    BY <2>2, <2>4, <2>5 DEF WithAncestors
<1>15. PseudoAhead(0, w, d)
  <2> SUFFICES ASSUME NEW s \in w, ~IsProper(s)
               PROVE  /\ s >= 0
                      /\ Parent[s] \in d
                      /\ w \cap Descendants[Parent[s]] \subseteq {s}
    BY DEF PseudoAhead
  <2>1. s \in States /\ s >= 0 /\ Descendants[s] = {}
    BY <1>12, PseudoLeaf, Tables
  <2>2. s \in set /\ s \in Histories
    BY <1>5, <1>12, <2>1 DEF ProperStates
  <2>3. PICK t \in Moving(taken) : s \in Trans[t].target
    BY <1>4, <2>2
  <2>4. Parent[s] \in Descendants[Dom(t)]
    BY <1>2, <2>2, <2>3
  <2>5. Parent[s] \in d
    BY <1>3, <2>4
  <2>6. Descendants[Parent[s]] \subseteq Descendants[Dom(t)]
    BY <1>2, <1>5, <2>4, <2>5, Nested
  <2>7. w \cap Descendants[Parent[s]] \subseteq WithAncestors(Trans[t].target)
    BY <1>14, <2>6
  <2>8. WithAncestors(Trans[t].target) \cap Descendants[Parent[s]] = {s}
    BY <1>2, <2>2, <2>3 DEF Compatible
  <2>9. QED
    BY <2>1, <2>5, <2>7, <2>8
<1>16. OneChild(w, c, d)
  <2> SUFFICES ASSUME NEW p \in States, Type[p] = "compound",
                      NEW x \in Children[p] \cap (w \cup (c \ d)),
                      NEW y \in Children[p] \cap (w \cup (c \ d))
               PROVE  x = y
    BY DEF OneChild
  \* A child that is left and one that is kept have different parents.
  <2>1. ASSUME NEW a \in Children[p], NEW b \in Children[p], a \in d, b \in c \ d
        PROVE  FALSE
    <3>1. PICK t \in Moving(taken) : a \in Descendants[Dom(t)]
      BY <1>3, <2>1
    <3>2. p = Dom(t) \/ p \in Descendants[Dom(t)]
      BY <1>7, <2>1, <3>1
    <3>3. Descendants[p] \subseteq Descendants[Dom(t)] /\ b \in Descendants[p]
      <4>1. Dom(t) \in States
        BY <1>2
      <4>2. Descendants[p] \subseteq Descendants[Dom(t)]
        BY <3>2, <4>1, Nested
      <4>3. b \in Descendants[p]
        BY AncestorsOfChild
      <4>4. QED
        BY <4>2, <4>3
    <3>4. QED
      BY <1>3, <2>1, <3>3
  <2>2. CASE x \in c \ d /\ y \in c \ d
    <3>1. p \in c
      <4>1. p \in Ancestors[x]
        BY AncestorsOfChild
      <4>2. QED
        BY <1>1, <2>2, <4>1
    <3>2. x \in ChildStates[p] \cap c /\ y \in ChildStates[p] \cap c
      BY <1>1, <2>2, Tables
    <3>3. PICK z : ChildStates[p] \cap c = {z}
      BY <1>1, <3>1
    <3>4. QED
      BY <3>2, <3>3
  <2>3. CASE x \in d /\ y \in d
    <3>1. PICK t \in Moving(taken) : x \in Descendants[Dom(t)]
      BY <1>3, <2>3
    <3>2. PICK u \in Moving(taken) : y \in Descendants[Dom(u)]
      BY <1>3, <2>3
    <3>3. p = Dom(t) \/ p \in Descendants[Dom(t)]
      BY <1>7, <3>1
    <3>4. p = Dom(u) \/ p \in Descendants[Dom(u)]
      BY <1>7, <3>2
    <3>5. x \in Descendants[Dom(u)]
      <4>1. Dom(u) \in States
        BY <1>2
      <4>2. Descendants[p] \subseteq Descendants[Dom(u)]
        BY <3>4, <4>1, Nested
      <4>3. x \in Descendants[p]
        BY AncestorsOfChild
      <4>4. QED
        BY <4>2, <4>3
    <3>6. t = u
      BY <3>1, <3>5, DomainsApart
    <3>7. x \in w /\ y \in w
      BY <2>3
    <3>8. /\ x \in Children[p] \cap WithAncestors(Trans[t].target)
          /\ y \in Children[p] \cap WithAncestors(Trans[t].target)
      BY <1>14, <3>1, <3>2, <3>6, <3>7
    <3>9. QED
      BY <1>2, <3>8 DEF Compatible
  <2>4. x \in d \/ x \in c \ d
    BY <1>13 DEF InsideFrame
  <2>5. y \in d \/ y \in c \ d
    BY <1>13 DEF InsideFrame
  <2>6. QED
    BY <2>1, <2>2, <2>3, <2>4, <2>5
<1>17. Completed(0, w, c, d)
  <2>1. \A s \in w : s \in Nat
    BY <1>12, Tables
  <2>2. QED
    BY <2>1 DEF Completed
<1>18. KeptCompleted(w, c, d)
  <2> SUFFICES ASSUME NEW s \in c \ d, Type[s] = "compound"
               PROVE  \/ w \cap Descendants[s] # {}
                      \/ c \cap Descendants[s] # {} /\ c \cap d \cap Descendants[s] = {}
    BY DEF KeptCompleted
  <2>1. s \in States
    BY <1>1
  <2>2. c \cap Descendants[s] # {}
    <3>1. PICK x : ChildStates[s] \cap c = {x}
      BY <1>1
    <3>2. x \in Descendants[s] /\ x \in c
      BY <2>1, <3>1, Tables
    <3>3. QED
      BY <3>2
  <2>3. ASSUME NEW x \in c \cap d \cap Descendants[s]
        PROVE  w \cap Descendants[s] # {}
    <3>1. PICK t \in Moving(taken) : x \in Descendants[Dom(t)]
      BY <1>3, <2>3
    <3>2. s \notin Descendants[Dom(t)]
      BY <1>3, <3>1
    <3>3. Dom(t) = s \/ Dom(t) \in Descendants[s]
      BY <1>1, <1>2, <2>1, <2>3, <3>1, <3>2, Nested
    <3>4. Trans[t].target \subseteq Descendants[s]
      BY <1>2, <2>1, <3>3, Nested
    <3>5. PICK y \in Trans[t].target : TRUE
      BY <1>2
    <3>6. y \in set
      BY <1>4, <3>5
    <3>7. QED
      BY <1>12, <3>4, <3>5, <3>6
  <2>4. QED
    BY <2>2, <2>3
<1>19. EntryInv(0, w, c, d)
  BY <1>13, <1>15, <1>16, <1>17, <1>18 DEF EntryInv
<1>20. ExitedStates(taken, c) = c \cap d
  <2>1. ASSUME NEW t \in taken
        PROVE  ExitSet[t] = IF t \in Moving(taken) THEN Descendants[Dom(t)] \cap ProperStates ELSE {}
    BY DEF ExitSet, Moving, Selected
  <2> DEFINE exits == UNION {ExitSet[t] : t \in taken}
  <2>2. \A x : x \in exits <=> x \in d /\ x \in ProperStates
    <3>1. \A x : x \in exits <=> \E t \in taken : x \in ExitSet[t]
      OBVIOUS
    <3>2. Moving(taken) \subseteq taken
      BY DEF Moving
    <3> HIDE DEF exits
    <3>3. QED
      BY <1>3, <2>1, <3>1, <3>2
  <2>3. ExitedStates(taken, c) = exits \cap c
    BY DEF ExitedStates
  <2> HIDE DEF exits
  <2>4. QED
    BY <1>1, <2>2, <2>3
<1>21. QED
  BY <1>5, <1>11, <1>19, <1>20 DEF d, set, w

(***************************************************************************)
(* The microstep that enters the chart leaves nothing and starts from the  *)
(* completion of <scxml>.                                                  *)
(***************************************************************************)
LEMMA InitialFrame ==
    ASSUME WellFormedChart
    PROVE  /\ Frame({}, States)
           /\ EntryInv(0, WithAncestors(Completion[0]), {}, States)
           /\ Completion[0] \in SUBSET (States \ {0})
           /\ Completion[0] # {}
<1> DEFINE set == Completion[0]
           w == WithAncestors(set)
<1>1. 0 \in States /\ Type[0] = "compound"
  BY Tables, TypeAssumption
<1>2. Frame({}, States)
  <2>1. \A s \in States : Descendants[s] \subseteq States /\ Ancestors[s] \subseteq States
    BY Tables
  <2>2. QED
    BY <2>1 DEF Frame
<1>3. \/ \E k \in Children[0] : set = {k}
      \/ set = InitialAttr[0] /\ set # {}
  BY <1>1, CompletionOf
<1> HIDE DEF set, w
<1>4. CASE \E k \in Children[0] : set = {k}
  <2>1. PICK k \in Children[0] : set = {k}
    BY <1>4
  <2>2. k \in States /\ k # 0 /\ Parent[k] = 0 /\ k \in Descendants[0] /\ 0 < k
        /\ Ancestors[k] = Ancestors[0] \cup {0}
    BY <1>1, AncestorsOfChild
  <2>3. Ancestors[0] = {}
    BY <1>1, Nested, Tables
  <2>4. w = {0, k}
    BY <2>1, <2>2, <2>3 DEF w, WithAncestors
  <2>5. 0 \notin Descendants[0] /\ IsProper(0)
    BY <1>1, Nested DEF IsProper, Pseudo
  <2>6. InsideFrame(w, {}, States)
    BY <1>1, <2>2, <2>3, <2>4 DEF InsideFrame
  <2>7. PseudoAhead(0, w, States)
    BY <1>1, <2>1, <2>2, <2>4, <2>5 DEF PseudoAhead
  <2>8. OneChild(w, {}, States)
    <3>1. \A p \in States : 0 \notin Children[p]
      BY AncestorsOfChild
    <3>2. QED
      BY <2>4, <3>1 DEF OneChild
  <2>9. Completed(0, w, {}, States)
    <3>1. ~(0 < 0) /\ ~(k < 0)
      BY <2>2, Tables
    <3>2. QED
      BY <2>4, <3>1 DEF Completed
  <2>10. KeptCompleted(w, {}, States)
    BY DEF KeptCompleted
  <2>11. QED
    BY <1>2, <2>1, <2>2, <2>6, <2>7, <2>8, <2>9, <2>10 DEF EntryInv, set, w
<1>5. CASE set = InitialAttr[0] /\ set # {}
  <2>1. Compatible(set)
    BY <1>5 DEF WellFormedChart
  <2>2. set \subseteq States \ {0} /\ set \subseteq ProperStates \cup Histories
    BY <2>1 DEF Compatible, ProperStates, Histories
  <2>3. /\ w \subseteq States
        /\ set \subseteq w
        /\ \A s \in w : Ancestors[s] \subseteq w
        /\ \A s \in w : s \in set \/ \E x \in set : x \in Descendants[s]
    BY <2>2, WithAncestorsClosed DEF w
  <2>4. ASSUME NEW s \in w, ~IsProper(s)
        PROVE  s >= 0 /\ Parent[s] \in States /\ w \cap Descendants[Parent[s]] \subseteq {s}
    <3>1. s \in States /\ s >= 0 /\ Descendants[s] = {}
      BY <2>3, <2>4, PseudoLeaf, Tables
    <3>2. s \in set /\ s \in Histories /\ s # 0
      BY <2>2, <2>3, <2>4, <3>1 DEF ProperStates
    <3>3. Parent[s] \in States
      BY <3>1, <3>2, ParentInnermost
    <3>4. w \cap Descendants[Parent[s]] = {s}
      BY <2>1, <3>2 DEF Compatible, w
    <3>5. QED
      BY <3>1, <3>3, <3>4
  <2>5. InsideFrame(w, {}, States) /\ PseudoAhead(0, w, States)
    BY <2>3, <2>4 DEF InsideFrame, PseudoAhead
  <2>6. OneChild(w, {}, States)
    BY <2>1 DEF OneChild, Compatible, w
  <2>7. Completed(0, w, {}, States)
    <3>1. \A s \in w : ~(s < 0)
      BY <2>3, Tables
    <3>2. QED
      BY <3>1 DEF Completed
  <2>8. KeptCompleted(w, {}, States)
    BY DEF KeptCompleted
  <2>9. QED
    BY <1>2, <1>5, <2>2, <2>5, <2>6, <2>7, <2>8 DEF EntryInv, set, w
<1>6. QED
  BY <1>3, <1>4, <1>5

-----------------------------------------------------------------------------
(* Microsteps. *)

(***************************************************************************)
(* Whatever of a frame is left and completed, the microstep ends in a      *)
(* legal configuration that has the targets and is the same outside d.     *)
(***************************************************************************)
LegalWithin(new, targets, c, d) ==
    /\ LegalConfiguration(new)
    /\ targets \cap ProperStates \subseteq new
    /\ new \ d = c \ d

LEMMA FrameStepLegal ==
    ASSUME WellFormedChart, NEW targets \in SUBSET (States \ {0}), NEW taken \in SUBSET TransIdx,
           NEW c, NEW d, NEW hist, NEW init, Frame(c, d), Remembered(c, d, hist),
           EntryInv(0, WithAncestors(targets), c, d),
           targets # {} \/ 0 \in c \ d
    PROVE  LegalWithin(Microstep(targets, taken, c, hist, c \cap d, init).config, targets, c, d)
<1> DEFINE w == WithAncestors(targets)
           e == EstablishEntrySet(targets, taken, c, hist, c \cap d).entry
           a == Ahead(NumStates, e)
           k == c \ (c \cap d)
<1>1. /\ targets \subseteq States
      /\ targets \subseteq w
      /\ \A s \in w : s \in targets \/ \E x \in targets : x \in Descendants[s]
  BY WithAncestorsClosed
<1>2. ASSUME NEW x \in targets
      PROVE  x \in w /\ x \in Descendants[0] /\ 0 \in w
  <2>1. x \in Descendants[0]
    BY Tables, Nested
  <2>2. 0 \in Ancestors[x]
    BY <2>1, Tables
  <2>3. QED
    BY <1>1, <2>1, <2>2 DEF WithAncestors
<1>3. 0 \in w => w \cap Descendants[0] # {}
  BY <1>1, <1>2
<1>4. EntryInv(NumStates, a, c, d) /\ w \cap ProperStates \subseteq e
  BY <1>1, <1>3, EntrySetComplete
<1>5. Microstep(targets, taken, c, hist, c \cap d, init).config = k \cup ((e \ k) \cap ProperStates)
  BY DEF Microstep, MoveTo
<1> HIDE DEF e
<1>6. e \cap ProperStates \subseteq a /\ a \subseteq e
  BY DEF Ahead, ProperStates, IsProper, IsHistory, Pseudo
<1> HIDE DEF a
<1>7. 0 \in a \cup (c \ d)
  <2>1. CASE 0 \in c \ d
    BY <2>1
  <2>2. CASE targets # {} /\ 0 \notin c \ d
    <3>1. PICK x \in targets : TRUE
      BY <2>2
    <3>2. 0 \in w /\ 0 \in ProperStates
      BY <1>2, <3>1, Tables, TypeAssumption DEF ProperStates, IsProper, Pseudo
    <3>3. QED
      BY <1>4, <1>6, <3>2
  <2>3. QED
    BY <2>1, <2>2
<1>8. a \subseteq ProperStates /\ LegalConfiguration((c \ d) \cup a)
  BY <1>4, <1>7, CompletedIsLegal
<1>9. k \cup ((e \ k) \cap ProperStates) = (c \ d) \cup a
  BY <1>6, <1>8
<1>10. a \subseteq c \cup d
  BY <1>4 DEF EntryInv, InsideFrame
<1>11. targets \cap ProperStates \subseteq a
  BY <1>1, <1>4, <1>6
<1> HIDE DEF k, w
<1>12. QED
  BY <1>5, <1>8, <1>9, <1>10, <1>11 DEF LegalWithin

(***************************************************************************)
(* The transitions SELECT_TRANSITIONS takes are a selected set.            *)
(***************************************************************************)
LEMMA TakenIsSelected ==
    ASSUME NEW c, NEW event, NEW cond
    PROVE  Selected(SelectTransitions(c, event, cond).taken, c)
<1> DEFINE taken == SelectTransitions(c, event, cond).taken
<1>1. SelectedUpto(Len(Trans), taken, c, event, cond)
  BY SelectionOptimal
<1> HIDE DEF taken
<1>2. taken \subseteq TransIdx
  BY <1>1, LenTrans DEF SelectedUpto
<1>3. \A t \in taken : ~IsDefault(t) /\ Trans[t].source \in c
  BY <1>1 DEF SelectedUpto, Enabled, Matches
<1>4. \A t, u \in taken : t < u => u \notin Conflicts[t]
  BY <1>1 DEF SelectedUpto
<1>5. QED
  BY <1>2, <1>3, <1>4 DEF Selected, taken

(***************************************************************************)
(* What is remembered in a configuration c: for a history whose parent is  *)
(* not active, nothing or what can be entered in its place.                *)
(***************************************************************************)
HistoriesWhole(c, hist) ==
    /\ hist \subseteq ProperStates
    /\ \A h \in Histories : Parent[h] \notin c =>
          Completion[h] \cap hist = {} \/ Whole(h, Completion[h] \cap hist)

(***************************************************************************)
(* What a history is about lies inside its parent and is no history.       *)
(***************************************************************************)
LEMMA HistoryAbout ==
    ASSUME NEW h \in Histories
    PROVE  /\ h \in States /\ h # 0 /\ Parent[h] \in States
           /\ \A s : s \in Completion[h] <=>
                 /\ s \in Descendants[Parent[h]]
                 /\ ~IsHistory(s)
                 /\ Type[h] = "deep" \/ s \in Children[Parent[h]]
<1>1. h \in States /\ IsHistory(h)
  BY DEF Histories
<1>2. h # 0
  BY <1>1, TypeAssumption DEF IsHistory
<1>3. Parent[h] \in States
  BY <1>1, <1>2, ParentInnermost
<1>4. Completion[h] = HistoryCompletion(h)
  BY <1>1 DEF Completion, IsHistory
<1>5. Children[Parent[h]] \subseteq Descendants[Parent[h]]
  BY <1>3, Tables
<1>6. QED
  BY <1>1, <1>2, <1>3, <1>4, <1>5 DEF HistoryCompletion

(***************************************************************************)
(* In a legal configuration the active states a history is about can be    *)
(* entered in its place, if its parent is active.                          *)
(***************************************************************************)
LEMMA ActiveWhole ==
    ASSUME NEW c, LegalConfiguration(c), NEW h \in Histories, Parent[h] \in c
    PROVE  Whole(h, Completion[h] \cap c)
<1> DEFINE p == Parent[h]
           known == Completion[h] \cap c
<1>1. /\ p \in States
      /\ \A s : s \in Completion[h] <=>
            s \in Descendants[p] /\ ~IsHistory(s) /\ (Type[h] = "deep" \/ s \in Children[p])
  BY HistoryAbout
<1>2. /\ c \subseteq ProperStates /\ c \subseteq States /\ 0 \in c
      /\ \A s \in c : Ancestors[s] \subseteq c
      /\ \A s \in c : Type[s] = "parallel" => ChildStates[s] \subseteq c
      /\ \A s \in c : Type[s] = "compound" => \E x : ChildStates[s] \cap c = {x}
  BY LegalMeans
<1>3. \A s \in c : ~IsHistory(s)
  BY <1>2 DEF ProperStates, IsProper, IsHistory, Pseudo
<1>4. \A s : s \in known <=> s \in c /\ s \in Descendants[p] /\ (Type[h] = "deep" \/ s \in Children[p])
  BY <1>1, <1>3
<1>5. p \in c
  OBVIOUS
<1> HIDE DEF known, p
<1>6. known \subseteq Descendants[p] \cap ProperStates
  BY <1>2, <1>4
<1>7. ASSUME NEW s \in known, NEW a \in Ancestors[s] \cap Descendants[p]
      PROVE  a \in known
  <2>1. s \in c /\ s \in States /\ a \in c /\ a \in States
    BY <1>2, <1>4
  <2>2. ASSUME s \in Children[p]
        PROVE  FALSE
    <3>1. Ancestors[s] = Ancestors[p] \cup {p}
      BY <1>1, <2>2, AncestorsOfChild
    <3>2. p \in Nat /\ a \in Nat /\ p < a
      BY <1>1, <2>1, Nested, Tables
    <3>3. a = p \/ p \in Descendants[a]
      BY <1>1, <3>1, Tables
    <3>4. a <= p
      BY <1>1, <2>1, <3>2, <3>3, Nested
    <3>5. QED
      BY <3>2, <3>4
  <2>3. Type[h] = "deep"
    BY <1>4, <2>2
  <2>4. QED
    BY <1>4, <2>1, <2>3
<1>8. ASSUME NEW q \in States, Type[q] = "compound",
             NEW x \in Children[q] \cap known, NEW y \in Children[q] \cap known
      PROVE  x = y
  <2>1. x \in c /\ y \in c /\ q \in Ancestors[x]
    BY <1>4, AncestorsOfChild
  <2>2. q \in c
    BY <1>2, <2>1
  <2>3. PICK z : ChildStates[q] \cap c = {z}
    BY <1>2, <1>8, <2>2
  <2>4. x \in ChildStates[q] /\ y \in ChildStates[q]
    BY <1>2, <2>1, Tables
  <2>5. QED
    BY <2>1, <2>3, <2>4
<1>9. ASSUME NEW s \in known \cup {p}, s = p \/ Type[h] = "deep"
      PROVE  /\ Type[s] = "compound" => ChildStates[s] \cap known # {}
             /\ Type[s] = "parallel" => ChildStates[s] \subseteq known
  <2>1. s \in c /\ s \in States /\ (s = p \/ s \in Descendants[p])
    BY <1>2, <1>4, <1>5
  <2>2. ASSUME NEW k \in ChildStates[s], k \in c
        PROVE  k \in known
    <3>1. k \in Children[s] /\ k \in Descendants[s]
      BY <2>1, Tables
    <3>2. Descendants[s] \subseteq Descendants[p]
      BY <1>1, <2>1, Nested
    <3>3. QED
      BY <1>4, <1>9, <2>2, <3>1, <3>2
  <2>3. ASSUME Type[s] = "compound"
        PROVE  ChildStates[s] \cap known # {}
    <3>1. PICK z : ChildStates[s] \cap c = {z}
      BY <1>2, <2>1, <2>3
    <3>2. z \in ChildStates[s] /\ z \in c
      BY <3>1
    <3>3. QED
      BY <2>2, <3>2
  <2>4. ASSUME Type[s] = "parallel"
        PROVE  ChildStates[s] \subseteq known
    BY <1>2, <2>1, <2>2, <2>4
  <2>5. QED
    BY <2>3, <2>4
<1>10. Whole(h, known)
  BY <1>6, <1>7, <1>8, <1>9 DEF Whole, p
<1>11. QED
  BY <1>10 DEF known

(***************************************************************************)
(* Where two histories are about a common state and only one's parent is   *)
(* active, that one is a deep history around the other's parent.           *)
(***************************************************************************)
LEMMA SharedMeansAround ==
    ASSUME NEW c, LegalConfiguration(c), NEW g \in Histories, Parent[g] \in c,
           NEW h \in Histories, Parent[h] \notin c,
           NEW x \in Completion[g] \cap Completion[h]
    PROVE  Type[g] = "deep" /\ Parent[h] \in Descendants[Parent[g]]
<1> DEFINE p == Parent[h]
           q == Parent[g]
<1>1. /\ p \in States /\ x \in Descendants[p]
      /\ q \in States /\ x \in Descendants[q]
      /\ Type[g] = "deep" \/ x \in Children[q]
  BY HistoryAbout
<1>2. x \in States /\ q \in c /\ p \notin c
  BY <1>1, Tables
<1>3. \A s \in c : Ancestors[s] \subseteq c
  BY LegalMeans
<1> HIDE DEF p, q
<1>4. p # q /\ q \notin Descendants[p]
  <2>1. q \in Descendants[p] => p \in Ancestors[q]
    BY <1>1, Tables
  <2>2. QED
    BY <1>2, <1>3, <2>1
<1>5. p \in Descendants[q]
  BY <1>1, <1>2, <1>4, Nested
<1>6. x \notin Children[q]
  <2> SUFFICES ASSUME x \in Children[q]
               PROVE  FALSE
    OBVIOUS
  <2>1. x # 0 /\ Parent[x] = q
    BY <1>1, AncestorsOfChild
  <2>2. p = q \/ q \in Descendants[p]
    BY <1>1, <1>2, <2>1, ParentInnermost
  <2>3. QED
    BY <1>4, <2>2
<1>7. QED
  BY <1>1, <1>5, <1>6 DEF p, q

(***************************************************************************)
(* After REMEMBER_HISTORY there is something to enter for every history    *)
(* whose parent is left.  That all histories share one set does no harm:   *)
(* where a history whose parent is left and one whose parent is not active *)
(* are about a common state, the first is a deep one around the second,    *)
(* and the second has nothing remembered any more.                         *)
(***************************************************************************)
LEMMA RememberWhole ==
    ASSUME NEW c, LegalConfiguration(c), NEW d, NEW hist, HistoriesWhole(c, hist)
    PROVE  Remembered(c, d, RememberHistory(hist, c, c \cap d))
<1> DEFINE R == Renewed(c \cap d, NumStates)
           after == RememberHistory(hist, c, c \cap d)
<1>1. /\ c \subseteq ProperStates /\ c \subseteq States
      /\ \A s \in c : Ancestors[s] \subseteq c
  BY LegalMeans
<1>2. hist \subseteq ProperStates
  BY DEF HistoriesWhole
<1>3. after \subseteq ProperStates /\ after = (hist \ R) \cup (c \cap R)
  BY <1>1, <1>2, RememberedStates
<1>4. \A x : x \in R <=> \E g \in Histories : Parent[g] \in c \cap d /\ x \in Completion[g]
  <2>1. \A g \in Histories : g < NumStates
    BY Tables DEF Histories, States
  <2>2. QED
    BY <2>1 DEF Renewed
<1> HIDE DEF R, after
<1> SUFFICES ASSUME NEW h \in Histories, Parent[h] \notin c \ d
             PROVE  \/ Completion[h] \cap after = {} /\ Parent[h] \notin c
                    \/ Whole(h, Completion[h] \cap after)
  BY <1>3 DEF Remembered, after
<1> DEFINE p == Parent[h]
<1>5. /\ p \in States
      /\ \A s : s \in Completion[h] => s \in Descendants[p] /\ ~IsHistory(s)
  BY HistoryAbout
<1>6. CASE p \in c
  <2>1. Completion[h] \subseteq R
    BY <1>4, <1>6
  <2>2. Completion[h] \cap after = Completion[h] \cap c
    BY <1>3, <2>1
  <2>3. QED
    BY <1>6, <2>2, ActiveWhole
<1>7. CASE p \notin c
  <2>1. Completion[h] \cap c = {}
    <3>1. ASSUME NEW x \in Completion[h], x \in c
          PROVE  FALSE
      <4>1. p \in Ancestors[x]
        BY <1>1, <1>5, <3>1, Tables
      <4>2. QED
        BY <1>1, <1>7, <3>1, <4>1
    <3>2. QED
      BY <3>1
  <2>2. CASE Completion[h] \cap R = {}
    <3>1. Completion[h] \cap after = Completion[h] \cap hist
      BY <1>3, <2>2
    <3>2. QED
      BY <1>7, <3>1 DEF HistoriesWhole
  <2>3. CASE Completion[h] \cap R # {}
    <3>1. PICK x \in Completion[h] : x \in R
      BY <2>3
    <3>2. PICK g \in Histories : Parent[g] \in c \cap d /\ x \in Completion[g]
      BY <1>4, <3>1
    <3> DEFINE q == Parent[g]
    <3>3. /\ q \in States
          /\ \A s : s \in Completion[g] <=>
                s \in Descendants[q] /\ ~IsHistory(s) /\ (Type[g] = "deep" \/ s \in Children[q])
      BY HistoryAbout
    <3>4. Type[g] = "deep" /\ p \in Descendants[q]
      BY <1>7, <3>1, <3>2, SharedMeansAround
    <3> HIDE DEF p, q
    <3>5. Descendants[p] \subseteq Descendants[q]
      BY <1>5, <3>3, <3>4, Nested
    <3>6. Completion[h] \subseteq Completion[g]
      BY <1>5, <3>3, <3>4, <3>5 DEF p
    <3>7. Completion[h] \subseteq R
      BY <1>4, <3>2, <3>6
    <3>8. Completion[h] \cap after = {}
      BY <1>3, <2>1, <3>7
    <3>9. QED
      BY <1>7, <3>8 DEF p
  <2>4. QED
    BY <2>2, <2>3
<1>8. QED
  BY <1>6, <1>7

(***************************************************************************)
(* The microstep from a legal configuration on any event, with what the    *)
(* histories remember of it: whichever conditions hold, the new            *)
(* configuration is legal, every target of a transition that was taken is  *)
(* active, outside of the domains of those transitions nothing is entered  *)
(* or left, and what is remembered can be entered.                         *)
(***************************************************************************)
THEOREM MicrostepLegal ==
    ASSUME WellFormedChart, NEW c, LegalConfiguration(c), NEW hist0, HistoriesWhole(c, hist0),
           NEW event, NEW cond, NEW init
    PROVE  LET taken == SelectTransitions(c, event, cond).taken
               exit == ExitedStates(taken, c)
               hist == RememberHistory(hist0, c, exit)
               new == Microstep(TargetSet(taken), taken, c, hist, exit, init).config
           IN /\ LegalConfiguration(new)
              /\ TargetSet(taken) \cap ProperStates \subseteq new
              /\ new \ Left(taken) = c \ Left(taken)
              /\ HistoriesWhole(new, hist)
<1> DEFINE taken == SelectTransitions(c, event, cond).taken
           d == Left(taken)
           set == TargetSet(taken)
           hist == RememberHistory(hist0, c, c \cap d)
           new == Microstep(set, taken, c, hist, c \cap d, init).config
<1>1. Selected(taken, c)
  BY TakenIsSelected
<1> HIDE DEF taken
<1>2. /\ Frame(c, d)
      /\ EntryInv(0, WithAncestors(set), c, d)
      /\ ExitedStates(taken, c) = c \cap d
      /\ set \in SUBSET (States \ {0})
  BY <1>1, SelectedFrame
<1>3. set # {} \/ 0 \in c \ d
  <2>1. ASSUME set = {}
        PROVE  d = {}
    BY <2>1 DEF TargetSet, Left, Moving
  <2>2. 0 \in c
    BY DEF LegalConfiguration
  <2>3. QED
    BY <2>1, <2>2
<1>4. taken \in SUBSET TransIdx
  BY <1>1 DEF Selected
<1> HIDE DEF d, set
<1>5. Remembered(c, d, hist)
  BY RememberWhole
<1> HIDE DEF hist
<1>6. LegalWithin(new, set, c, d)
  BY <1>2, <1>3, <1>4, <1>5, FrameStepLegal
<1> HIDE DEF new
<1>7. HistoriesWhole(new, hist)
  BY <1>5, <1>6 DEF LegalWithin, Remembered, HistoriesWhole
<1>8. QED
  BY <1>2, <1>6, <1>7 DEF LegalWithin, d, set, hist, new, taken

(***************************************************************************)
(* The first microstep enters a legal configuration, whatever is           *)
(* remembered from before, as long as it can be entered.                   *)
(***************************************************************************)
THEOREM EnterInitialLegal ==
    ASSUME WellFormedChart, NEW hist, HistoriesWhole({}, hist), NEW init
    PROVE  LET new == Microstep(Completion[0], {}, {}, hist, {}, init).config
           IN LegalConfiguration(new) /\ HistoriesWhole(new, hist)
<1> DEFINE c == {}
           d == States
           set == Completion[0]
           new == Microstep(set, {}, c, hist, c \cap d, init).config
<1>1. /\ Frame(c, d)
      /\ EntryInv(0, WithAncestors(set), c, d)
      /\ set \in SUBSET (States \ {0})
      /\ set # {}
  BY InitialFrame
<1>2. c \cap d = {} /\ {} \in SUBSET TransIdx
  OBVIOUS
<1>3. Remembered(c, d, hist)
  BY DEF HistoriesWhole, Remembered
<1>4. LegalWithin(new, set, c, d)
  <2> HIDE DEF c, d, set
  <2>1. QED
    BY <1>1, <1>2, <1>3, FrameStepLegal
<1> HIDE DEF new
<1>5. HistoriesWhole(new, hist)
  BY DEF HistoriesWhole
<1>6. QED
  BY <1>2, <1>4, <1>5 DEF LegalWithin, new

-----------------------------------------------------------------------------
(* The linter: what getReachableStates finds. *)

Rounds == [reachable : SUBSET States, additions : SUBSET States]

(***************************************************************************)
(* A <parallel> has a region.  One without is a legal configuration's last *)
(* state and still not atomic for the linter, which then never looks at    *)
(* its ancestors.                                                          *)
(***************************************************************************)
RegionsExist == \A s \in States : Type[s] = "parallel" => ChildStates[s] # {}

\* A set of states that holds <scxml> and what its states make reachable.
ReachClosed(R) == 0 \in R /\ R \subseteq States /\ \A s \in R : ReachableFrom(s) \subseteq R

(***************************************************************************)
(* What a state makes reachable are states.                                *)
(***************************************************************************)
LEMMA ReachableFromStates ==
    ASSUME NEW s \in States
    PROVE  ReachableFrom(s) \in SUBSET States
<1>1. \A i \in States : UNION {Trans[t].target : t \in DefaultTransitions(i)} \subseteq States
  BY TransFields DEF DefaultTransitions
<1>2. Ancestors[s] \subseteq States /\ ChildStates[s] \subseteq States /\ Children[s] \subseteq States
  BY Tables
<1>3. Type[s] = "compound" => Min(ChildStates[s]) \in States
  BY <1>2, MinOfStates, TypeAssumption
<1> DEFINE initial == {i \in Children[s] : Type[i] = "initial"}
<1>4. initial # {} => Min(initial) \in States
  <2>1. initial \in SUBSET States
    BY <1>2
  <2> HIDE DEF initial
  <2>2. QED
    BY <2>1, MinOfStates
<1>5. InitialAttr[s] \subseteq States
  BY TypeAssumption
<1>6. GetInitialStates(s) \subseteq States
  <2>1. \/ Type[s] = "parallel" /\ GetInitialStates(s) = ChildStates[s]
        \/ Type[s] = "compound" /\ InitialAttr[s] # {} /\ GetInitialStates(s) = InitialAttr[s]
        \/ /\ Type[s] = "compound" /\ InitialAttr[s] = {} /\ initial # {}
           /\ GetInitialStates(s) = UNION {Trans[t].target : t \in DefaultTransitions(Min(initial))}
        \/ Type[s] = "compound" /\ InitialAttr[s] = {} /\ GetInitialStates(s) = {Min(ChildStates[s])}
        \/ GetInitialStates(s) = {}
    BY DEF GetInitialStates
  <2> HIDE DEF initial
  <2>2. QED
    BY <1>1, <1>2, <1>3, <1>4, <1>5, <2>1
<1>7. QED
  <2>1. UNION {Trans[t].target : t \in DefaultTransitions(s)} \subseteq States
    BY <1>1
  <2>2. (IF IsAtomic(s) THEN Ancestors[s] ELSE {}) \subseteq States
    BY <1>2
  <2>3. QED
    BY <1>6, <2>1, <2>2 DEF ReachableFrom

(***************************************************************************)
(* getReachableStates is its loop: the rounds, each from the one before.   *)
(***************************************************************************)
IsLoop(round) ==
    /\ round \in [0 .. NumStates -> Rounds]
    /\ round[0] = FirstRound
    /\ \A n \in 1 .. NumStates : round[n] = NextRound(round[n - 1])
    /\ Reach = round[NumStates]

LEMMA ReachLoop == \E round : IsLoop(round)
<1> DEFINE N == NumStates
           Rec(f) == [n \in 0 .. N |-> IF n = 0 THEN FirstRound ELSE NextRound(f[n - 1])]
           round == CHOOSE f : f = Rec(f)
           step == [p \in (1 .. N) \X Rounds |-> NextRound(p[2])]
<1>1. Reach = round[N]
  BY DEF Reach
<1>2. N \in Nat /\ N > 0
  BY Tables
<1>3. FirstRound \in Rounds
  BY Tables DEF FirstRound, Rounds
<1>4. ASSUME NEW r \in Rounds
      PROVE  NextRound(r) \in Rounds
  <2> DEFINE known == r.reachable \cup r.additions
             found == (UNION {ReachableFrom(s) : s \in r.additions}) \ known
  <2>1. r.additions \in SUBSET States /\ known \in SUBSET States
    BY DEF Rounds
  <2>2. found \in SUBSET States
    BY <2>1, ReachableFromStates
  <2>3. NextRound(r) = [reachable |-> known, additions |-> found]
    BY DEF NextRound
  <2> HIDE DEF known, found
  <2>4. QED
    BY <2>1, <2>2, <2>3 DEF Rounds
<1>5. step \in [(1 .. N) \X Rounds -> Rounds]
  BY <1>4
<1>6. PICK f : IsRecursive(f, N, Rounds, FirstRound, step)
  <2> HIDE DEF step, N
  <2>1. QED
    BY <1>2, <1>3, <1>5, FiniteRecursion
<1>7. ASSUME NEW n \in 1 .. N
      PROVE  f[n] = NextRound(f[n - 1])
  <2>1. n - 1 \in 0 .. N
    BY <1>2
  <2>2. f[n - 1] \in Rounds
    BY <1>6, <2>1 DEF IsRecursive
  <2>3. step[<<n, f[n - 1]>>] = NextRound(f[n - 1])
    BY <2>2
  <2>4. QED
    BY <1>6, <2>3 DEF IsRecursive
<1>8. f = Rec(f)
  BY <1>2, <1>6, <1>7 DEF IsRecursive
<1>9. round = Rec(round)
  <2> HIDE DEF Rec
  <2>1. QED
    BY <1>8
<1>10. /\ round[0] = FirstRound
       /\ \A n \in 1 .. N : round[n] = NextRound(round[n - 1])
       /\ round = [n \in 0 .. N |-> round[n]]
  <2> HIDE DEF round
  <2>1. QED
    BY <1>2, <1>9
<1> HIDE DEF round
<1>11. \A n \in 0 .. N : round[n] \in Rounds
  <2> HIDE DEF N
  <2> DEFINE S == {n \in 0 .. N : round[n] \in Rounds}
  <2>1. 0 \in S
    BY <1>2, <1>3, <1>10
  <2>2. ASSUME NEW n \in 0 .. N - 1, n \in S
        PROVE  n + 1 \in S
    <3>1. n + 1 \in 1 .. N /\ n + 1 \in 0 .. N /\ (n + 1) - 1 = n
      BY <1>2
    <3>2. round[n + 1] = NextRound(round[n])
      BY <1>10, <3>1
    <3>3. QED
      BY <1>4, <2>2, <3>1, <3>2
  <2>3. 0 .. N \subseteq S
    <3> HIDE DEF S
    <3>1. QED
      BY <1>2, <2>1, <2>2, IntervalInduction
  <2>4. QED
    BY <2>3
<1>12. round \in [0 .. N -> Rounds]
  BY <1>10, <1>11
<1>13. IsLoop(round)
  BY <1>1, <1>10, <1>12 DEF IsLoop
<1>14. QED
  BY <1>13

(***************************************************************************)
(* Every round but the last finds a state, so after as many rounds as      *)
(* there are states there is nothing left to add, and the linter's set     *)
(* holds all that its states make reachable.                               *)
(***************************************************************************)
LEMMA ReachableClosed == ReachClosed(GetReachableStates)
<1>1. PICK round : IsLoop(round)
  BY ReachLoop
<1> DEFINE N == NumStates
           A(n) == round[n].additions
           K(n) == round[n].reachable
<1>2. N \in Nat /\ N > 0 /\ States = 0 .. N - 1
  BY Tables DEF States
<1>3. \A n \in 0 .. N : A(n) \in SUBSET States /\ K(n) \in SUBSET States
  BY <1>1 DEF IsLoop, Rounds
<1>4. A(0) = {0} /\ K(0) = {}
  BY <1>1 DEF IsLoop, FirstRound
<1>5. ASSUME NEW n \in 0 .. N - 1
      PROVE  /\ n + 1 \in 0 .. N /\ n \in 0 .. N
             /\ K(n + 1) = K(n) \cup A(n)
             /\ A(n + 1) = (UNION {ReachableFrom(s) : s \in A(n)}) \ (K(n) \cup A(n))
  <2>1. n + 1 \in 1 .. N /\ (n + 1) - 1 = n
    BY <1>2
  <2>2. round[n + 1] = NextRound(round[n])
    BY <1>1, <2>1 DEF IsLoop
  <2>3. QED
    BY <1>2, <2>2 DEF NextRound
<1> HIDE DEF A, K, N
<1>6. \A n \in 0 .. N : IsFiniteSet(K(n) \cup A(n)) /\ Cardinality(K(n) \cup A(n)) <= N
                        /\ Cardinality(K(n) \cup A(n)) \in Nat
  <2>1. IsFiniteSet(States) /\ Cardinality(States) = N
    <3>1. IsFiniteSet(0 .. N - 1) /\ Cardinality(0 .. N - 1) = IF 0 > N - 1 THEN 0 ELSE (N - 1) - 0 + 1
      BY <1>2, FS_Interval
    <3>2. QED
      BY <1>2, <3>1
  <2>2. ASSUME NEW n \in 0 .. N
        PROVE  IsFiniteSet(K(n) \cup A(n)) /\ Cardinality(K(n) \cup A(n)) <= N
    <3>1. K(n) \cup A(n) \in SUBSET States
      BY <1>3
    <3>2. QED
      BY <2>1, <3>1, FS_Subset
  <2>3. QED
    BY <2>2, FS_CardinalityType
<1> DEFINE Grows(n) == A(n) = {} \/ Cardinality(K(n) \cup A(n)) >= n + 1
           Closing(n) == \A s \in K(n) : ReachableFrom(s) \subseteq K(n) \cup A(n)
           S == {n \in 0 .. N : Grows(n) /\ Closing(n) /\ (0 \in K(n) \cup A(n))}
<1>7. 0 \in S
  <2>1. Cardinality({0}) = 1
    BY FS_Singleton
  <2>2. K(0) \cup A(0) = {0}
    BY <1>4
  <2>3. Grows(0)
    BY <2>1, <2>2
  <2>4. Closing(0) /\ 0 \in K(0) \cup A(0)
    BY <1>4
  <2> HIDE DEF Grows, Closing
  <2>5. QED
    BY <1>2, <2>3, <2>4
<1>8. ASSUME NEW n \in 0 .. N - 1, n \in S
      PROVE  n + 1 \in S
  <2>1. Grows(n) /\ Closing(n) /\ 0 \in K(n) \cup A(n)
    BY <1>8
  <2> DEFINE T == K(n) \cup A(n)
             U == K(n + 1) \cup A(n + 1)
  <2>2. T \subseteq U
    BY <1>5
  <2>3. A(n + 1) # {} => A(n) # {} /\ T # U
    BY <1>5
  <2>4. Grows(n + 1)
    <3>1. IsFiniteSet(T) /\ IsFiniteSet(U) /\ Cardinality(T) \in Nat /\ Cardinality(U) \in Nat
      BY <1>5, <1>6
    <3> HIDE DEF T, U
    <3>2. Cardinality(T) <= Cardinality(U) /\ (Cardinality(U) = Cardinality(T) => U = T)
      BY <2>2, <3>1, FS_Subset
    <3>3. n \in Nat /\ (A(n) # {} => Cardinality(T) >= n + 1)
      BY <1>2, <2>1 DEF T
    <3>4. A(n + 1) # {} => Cardinality(U) >= (n + 1) + 1
      BY <2>3, <3>1, <3>2, <3>3
    <3>5. QED
      BY <3>4 DEF U
  <2>5. Closing(n + 1)
    <3>1. ASSUME NEW s \in K(n + 1)
          PROVE  ReachableFrom(s) \subseteq U
      <4>1. CASE s \in K(n)
        BY <2>1, <2>2, <4>1
      <4>2. CASE s \in A(n)
        BY <1>5, <4>2
      <4>3. QED
        BY <1>5, <4>1, <4>2
    <3>2. QED
      BY <3>1
  <2>6. QED
    BY <1>5, <2>1, <2>2, <2>4, <2>5
<1>9. N \in S
  <2> HIDE DEF S
  <2>1. 0 .. N \subseteq S
    BY <1>2, <1>7, <1>8, IntervalInduction
  <2>2. QED
    BY <1>2, <2>1
<1>10. A(N) = {}
  <2>1. N \in 0 .. N
    BY <1>2
  <2>2. Cardinality(K(N) \cup A(N)) <= N /\ Cardinality(K(N) \cup A(N)) \in Nat
    BY <1>6, <2>1
  <2>3. QED
    BY <1>2, <1>9, <2>2
<1>11. GetReachableStates = K(N)
  BY <1>1 DEF IsLoop, GetReachableStates, K, N
<1>12. N \in 0 .. N
  BY <1>2
<1>13. QED
  BY <1>3, <1>9, <1>10, <1>11, <1>12 DEF ReachClosed

(***************************************************************************)
(* What the linter takes for the initial states of a state and what the    *)
(* stepper completes it with are the same states, or the targets of the    *)
(* same <initial>; at least one of them is inside a compound state.        *)
(***************************************************************************)
LEMMA InitialStates ==
    ASSUME WellFormedChart, NEW s \in States
    PROVE  /\ Type[s] = "parallel" => GetInitialStates(s) = ChildStates[s]
           /\ Type[s] = "compound" =>
                 /\ GetInitialStates(s) \subseteq ProperStates \cup Histories
                 /\ \E y \in GetInitialStates(s) : y \in Descendants[s]
                 /\ \/ Completion[s] = GetInitialStates(s)
                    \/ \E i \in Children[s] : /\ Completion[s] = {i} /\ Type[i] = "initial"
                                              /\ GetInitialStates(s) = TargetSet(DefaultTransitions(i))
<1>1. CASE Type[s] = "parallel"
  BY <1>1 DEF GetInitialStates
<1>2. CASE Type[s] = "compound" /\ InitialAttr[s] # {}
  <2>1. GetInitialStates(s) = InitialAttr[s] /\ Completion[s] = InitialAttr[s]
    BY <1>2 DEF GetInitialStates, Completion, IsHistory
  <2>2. s = 0 => InitialAttr[s] \subseteq ProperStates \cup Histories
                    /\ InitialAttr[s] \subseteq Descendants[s]
    BY Tables, Nested DEF WellFormedChart, Compatible, ProperStates, Histories
  <2>3. s # 0 => InitialAttr[s] \subseteq ProperStates \cup Histories
                    /\ InitialAttr[s] \subseteq Descendants[s]
    <3>1. ASSUME s # 0
          PROVE  \E k \in Children[s] : Type[k] # "initial" /\ InitialAttr[s] = {k}
      BY <1>2, <3>1 DEF WellFormedChart
    <3>2. \A k \in Children[s] : k \in Descendants[s] /\ k \in States
      BY Tables
    <3>3. \A k \in States : Type[k] # "initial" => k \in ProperStates \cup Histories
      BY TypeAssumption DEF ProperStates, Histories, IsProper, IsHistory, Pseudo, Types
    <3>4. QED
      BY <3>1, <3>2, <3>3
  <2>4. QED
    BY <1>2, <2>1, <2>2, <2>3
<1>3. CASE Type[s] = "compound" /\ InitialAttr[s] = {}
  <2> DEFINE initial == {i \in Children[s] : Type[i] = "initial"}
  <2>1. Completion[s] = DefaultChild(s)
    BY <1>3 DEF Completion, IsHistory
  <2>2. CASE initial # {}
    <3>1. initial \in SUBSET States
      BY Tables
    <3>2. Min(initial) \in initial
      <4> HIDE DEF initial
      <4>1. QED
        BY <2>2, <3>1, MinOfStates
    <3>3. Completion[s] = {Min(initial)}
      BY <2>1, <2>2 DEF DefaultChild
    <3>4. GetInitialStates(s) = UNION {Trans[t].target : t \in DefaultTransitions(Min(initial))}
      BY <1>3, <2>2 DEF GetInitialStates
    <3> DEFINE i == Min(initial)
    <3> HIDE DEF initial
    <3>5. i \in Children[s] /\ Type[i] = "initial" /\ i \in States /\ i # 0 /\ Parent[i] = s
      BY <3>2, AncestorsOfChild DEF initial
    <3> HIDE DEF i
    <3>6. GetInitialStates(s) = TargetSet(DefaultTransitions(i))
      BY <3>4 DEF TargetSet, i
    <3>7. PICK t \in TransIdx : /\ DefaultTransitions(i) = {t}
                                /\ Trans[t].target # {}
                                /\ Trans[t].target \subseteq Descendants[s]
      BY <3>5 DEF WellFormedChart
    <3>8. TargetSet(DefaultTransitions(i)) = Trans[t].target
      BY <3>7 DEF TargetSet
    <3>9. Trans[t].target \subseteq ProperStates \cup Histories
      BY DEF WellFormedChart, Compatible
    <3>10. QED
      BY <1>3, <3>3, <3>5, <3>6, <3>7, <3>8, <3>9 DEF i
  <2>3. CASE initial = {}
    <3>1. GetInitialStates(s) = {Min(ChildStates[s])}
      BY <1>3, <2>3 DEF GetInitialStates
    <3>2. Completion[s] = {Min(ChildStates[s])}
      BY <2>1, <2>3 DEF DefaultChild
    <3>3. ChildStates[s] \in SUBSET States /\ ChildStates[s] # {}
      BY <1>3, Tables, TypeAssumption
    <3>4. Min(ChildStates[s]) \in ChildStates[s]
      BY <3>3, MinOfStates
    <3>5. Min(ChildStates[s]) \in Descendants[s] /\ Min(ChildStates[s]) \in ProperStates
      BY <3>4, Tables
    <3>6. QED
      BY <1>3, <3>1, <3>2, <3>5
  <2>4. QED
    BY <2>2, <2>3
<1>4. QED
  BY <1>1, <1>2, <1>3

(***************************************************************************)
(* With a history the linter finds the targets of its default transition,  *)
(* which are inside the history's parent.                                  *)
(***************************************************************************)
LEMMA DefaultReached ==
    ASSUME WellFormedChart, NEW R, ReachClosed(R), NEW h \in Histories, h \in R
    PROVE  /\ TargetSet(DefaultTransitions(h)) \subseteq R
           /\ \E y \in R \cap ProperStates : y \in Descendants[Parent[h]]
<1>1. TargetSet(DefaultTransitions(h)) \subseteq ReachableFrom(h)
  BY DEF TargetSet, ReachableFrom
<1>2. TargetSet(DefaultTransitions(h)) \subseteq R
  BY <1>1 DEF ReachClosed
<1>3. PICK t \in TransIdx :
         /\ DefaultTransitions(h) = {t}
         /\ Trans[t].target # {}
         /\ Trans[t].target \subseteq Descendants[Parent[h]] \cap ProperStates
  BY DEF WellFormedChart, DefaultFits
<1>4. TargetSet(DefaultTransitions(h)) = Trans[t].target
  BY <1>3 DEF TargetSet
<1>5. QED
  BY <1>2, <1>3, <1>4

(***************************************************************************)
(* The linter looks at the ancestors of atomic states only, and yet finds  *)
(* those of every state: below a reachable state there is a reachable      *)
(* atomic one.                                                             *)
(***************************************************************************)
LEMMA AncestorsReached ==
    ASSUME WellFormedChart, RegionsExist, NEW R, ReachClosed(R), NEW s \in R, s \in ProperStates
    PROVE  Ancestors[s] \subseteq R
<1> DEFINE X == {x \in R \cap ProperStates : x = s \/ x \in Descendants[s]}
<1>1. s \in States /\ R \subseteq States
  BY DEF ReachClosed
<1>2. X \in SUBSET (0 .. NumStates - 1) /\ X # {} /\ NumStates - 1 \in Nat
  BY <1>1, Tables DEF States
<1>3. PICK x \in X : \A y \in X : y <= x
  <2> HIDE DEF X
  <2>1. QED
    BY <1>2, GreatestElement
<1>4. x \in R /\ x \in ProperStates /\ x \in States /\ (x = s \/ x \in Descendants[s])
  BY <1>1, <1>3
<1>5. \A y \in R \cap ProperStates : y \notin Descendants[x]
  <2>1. ASSUME NEW y \in R \cap ProperStates, y \in Descendants[x]
        PROVE  FALSE
    <3>1. y \in States /\ x < y /\ y \in Descendants[s] /\ x \in Nat /\ y \in Nat
      BY <1>1, <1>4, <2>1, Nested, Tables
    <3>2. y \in X
      BY <2>1, <3>1
    <3> HIDE DEF X
    <3>3. y <= x
      BY <1>3, <3>2
    <3>4. QED
      BY <3>1, <3>3
  <2>2. QED
    BY <2>1
<1>6. GetInitialStates(x) \subseteq R /\ (IsAtomic(x) => Ancestors[x] \subseteq R)
  BY <1>4 DEF ReachClosed, ReachableFrom
<1>7. IsAtomic(x)
  <2>1. Type[x] # "compound"
    <3> SUFFICES ASSUME Type[x] = "compound"
                 PROVE  FALSE
      OBVIOUS
    <3>1. PICK y \in GetInitialStates(x) : y \in Descendants[x]
      BY <1>4, InitialStates
    <3>2. y \in R /\ y \in ProperStates \cup Histories
      BY <1>4, <1>6, <3>1, InitialStates
    <3>3. y \in Histories
      BY <1>5, <3>1, <3>2
    <3>4. PICK z \in R \cap ProperStates : z \in Descendants[Parent[y]]
      BY <3>2, <3>3, DefaultReached
    <3>5. y \in States /\ y # 0 /\ Parent[y] \in States
      BY <3>3, HistoryAbout
    <3>6. Parent[y] = x \/ Parent[y] \in Descendants[x]
      BY <1>4, <3>1, <3>5, ParentInnermost
    <3>7. z \in Descendants[x]
      BY <1>4, <3>4, <3>5, <3>6, Nested
    <3>8. QED
      BY <1>5, <3>4, <3>7
  <2>2. Type[x] # "parallel"
    <3>1. ASSUME Type[x] = "parallel"
          PROVE  FALSE
      <4>1. GetInitialStates(x) = ChildStates[x] /\ ChildStates[x] # {}
        BY <1>4, <3>1, InitialStates DEF RegionsExist
      <4>2. \A y \in ChildStates[x] : y \in ProperStates /\ y \in Descendants[x]
        BY <1>4, Tables
      <4>3. QED
        BY <1>5, <1>6, <4>1, <4>2
    <3>2. QED
      BY <3>1
  <2>3. Type[x] \in {"atomic", "final"}
    BY <1>4, <2>1, <2>2, TypeAssumption DEF ProperStates, IsProper, Types
  <2>4. Last[x] = x
    BY <1>4, <2>3, TypeAssumption
  <2>5. ChildStates[x] = {}
    BY <1>4, <2>4, Tables
  <2>6. QED
    BY <1>4, <2>2, <2>5 DEF IsAtomic, ProperStates
<1>8. Ancestors[s] \subseteq Ancestors[x]
  <2>1. ASSUME NEW a \in Ancestors[s]
        PROVE  a \in Ancestors[x]
    <3>1. a \in States /\ s \in Descendants[a]
      BY <1>1, Tables
    <3>2. Descendants[s] \subseteq Descendants[a]
      BY <1>1, <3>1, Nested
    <3>3. x \in Descendants[a]
      BY <1>4, <3>1, <3>2
    <3>4. QED
      BY <1>4, <3>1, <3>3, Tables
  <2>2. QED
    BY <2>1
<1>9. QED
  BY <1>6, <1>7, <1>8

(***************************************************************************)
(* What may be in an entry set: states of R, and an <initial> or <history> *)
(* that leads there.                                                       *)
(***************************************************************************)
LeadsTo(R) ==
    {s \in States : IF IsProper(s) THEN s \in R ELSE TargetSet(DefaultTransitions(s)) \subseteq R}

LEMMA ReachedLeadsTo ==
    ASSUME WellFormedChart, NEW R, ReachClosed(R)
    PROVE  R \cap (ProperStates \cup Histories) \subseteq LeadsTo(R)
  BY DefaultReached DEF LeadsTo, ProperStates, Histories

LEMMA ReachedWithAncestors ==
    ASSUME WellFormedChart, RegionsExist, NEW R, ReachClosed(R),
           NEW set, set \subseteq R, set \subseteq ProperStates \cup Histories
    PROVE  WithAncestors(set) \subseteq LeadsTo(R)
<1>1. ASSUME NEW x \in set
      PROVE  Ancestors[x] \subseteq R /\ Ancestors[x] \subseteq ProperStates
  <2>1. x \in States
    BY DEF ProperStates, Histories
  <2>2. Ancestors[x] \subseteq ProperStates
    BY <2>1, PseudoLeaf
  <2>3. CASE x \in ProperStates
    BY <2>2, <2>3, AncestorsReached
  <2>4. CASE x \in Histories
    <3>1. PICK y \in R \cap ProperStates : y \in Descendants[Parent[x]]
      BY <2>4, DefaultReached
    <3>2. x # 0 /\ Parent[x] \in States
      BY <2>4, HistoryAbout
    <3>3. ASSUME NEW a \in Ancestors[x]
          PROVE  a \in Ancestors[y]
      <4>1. a \in States /\ x \in Descendants[a]
        BY <2>1, Tables
      <4>2. a = Parent[x] \/ Parent[x] \in Descendants[a]
        BY <2>1, <3>2, <4>1, ParentInnermost
      <4>3. y \in Descendants[a] /\ y \in States
        BY <3>1, <3>2, <4>1, <4>2, Nested DEF ProperStates
      <4>4. QED
        BY <4>1, <4>3, Tables
    <3>4. Ancestors[y] \subseteq R
      BY AncestorsReached
    <3>5. QED
      BY <2>2, <3>3, <3>4
  <2>5. QED
    BY <2>3, <2>4
<1>2. WithAncestors(set) \subseteq R \cap (ProperStates \cup Histories)
  BY <1>1 DEF WithAncestors
<1>3. QED
  BY <1>2, ReachedLeadsTo

(***************************************************************************)
(* Completing a state enters nothing that the linter has not found.        *)
(***************************************************************************)
LEMMA CompleteStateReached ==
    ASSUME WellFormedChart, RegionsExist, NEW R, ReachClosed(R),
           NEW s \in States, NEW e \in EntrySets, s \in e.entry, e.entry \subseteq LeadsTo(R),
           NEW c, NEW hist, hist \subseteq R \cap ProperStates, NEW x
    PROVE  CompleteState(s, e, c, hist, x).entry \subseteq LeadsTo(R)
<1> DEFINE f == CompleteState(s, e, c, hist, x)
<1>1. Type[s] \in Types /\ s \in LeadsTo(R)
  BY TypeAssumption
<1>2. IsProper(s) => GetInitialStates(s) \subseteq R
  BY <1>1 DEF LeadsTo, ReachClosed, ReachableFrom
<1>3. CASE Type[s] = "parallel"
  <2>1. f.entry = e.entry \cup ChildStates[s]
    <3>1. StateCompleted(f, s, e, c, hist, x)
      BY CompleteStateCases
    <3>2. QED
      BY <1>3, <3>1 DEF StateCompleted
  <2>2. ChildStates[s] \subseteq R /\ ChildStates[s] \subseteq ProperStates
    BY <1>2, <1>3, InitialStates, Tables DEF IsProper, Pseudo
  <2>3. QED
    BY <2>1, <2>2 DEF LeadsTo, ProperStates
<1>4. CASE Type[s] = "initial"
  <2> DEFINE set == TargetSet(DefaultTransitions(s))
  <2>1. f = EnterInitial(s, e)
    BY <1>1, <1>4 DEF CompleteState, IsHistory
  <2>2. set \subseteq R
    BY <1>1, <1>4 DEF LeadsTo, IsProper, Pseudo
  <2>3. set \subseteq ProperStates \cup Histories
    BY DEF TargetSet, DefaultTransitions, WellFormedChart, Compatible
  <2>4. WithAncestors(set) \subseteq LeadsTo(R)
    <3> HIDE DEF set
    <3>1. QED
      BY <2>2, <2>3, ReachedWithAncestors
  <2>5. f = e \/ f.entry = (e.entry \ {s}) \cup WithAncestors(set)
    BY <2>1 DEF EnterInitial
  <2>6. QED
    BY <2>4, <2>5
<1>5. CASE Type[s] = "compound"
  <2> DEFINE below == {k \in Completion[s] : k > s}
             around == IF Completion[s] \cap Descendants[s] = {} /\ below # {}
                       THEN Ancestors[Min(below)] ELSE {}
  <2>1. f = EnterCompound(s, e, c, x)
    BY <1>1, <1>5 DEF CompleteState, IsHistory
  <2>2. f = e \/ f = [e EXCEPT !.entry = @ \cup Completion[s] \cup around]
    BY <2>1 DEF EnterCompound
  <2>3. \/ Completion[s] = GetInitialStates(s) /\ GetInitialStates(s) \subseteq ProperStates \cup Histories
           /\ \E y \in GetInitialStates(s) : y \in Descendants[s]
        \/ \E i \in Children[s] : /\ Completion[s] = {i} /\ Type[i] = "initial"
                                  /\ GetInitialStates(s) = TargetSet(DefaultTransitions(i))
    BY <1>5, InitialStates
  <2>4. \A i \in Children[s] : i \in Descendants[s] /\ i \in States
    BY Tables
  <2>5. Completion[s] \cap Descendants[s] # {}
    BY <2>3, <2>4
  <2>6. around = {}
    BY <2>5
  <2>7. GetInitialStates(s) \subseteq R
    BY <1>2, <1>5 DEF IsProper, Pseudo
  <2>8. Completion[s] \subseteq LeadsTo(R)
    <3>1. CASE /\ Completion[s] = GetInitialStates(s)
               /\ GetInitialStates(s) \subseteq ProperStates \cup Histories
      BY <2>7, <3>1, ReachedLeadsTo
    <3>2. ASSUME NEW i \in Children[s], Completion[s] = {i}, Type[i] = "initial",
                 GetInitialStates(s) = TargetSet(DefaultTransitions(i))
          PROVE  Completion[s] \subseteq LeadsTo(R)
      BY <2>4, <2>7, <3>2 DEF LeadsTo, IsProper, Pseudo
    <3>3. QED
      BY <2>3, <3>1, <3>2
  <2> HIDE DEF f, around
  <2>9. f.entry \subseteq e.entry \cup Completion[s]
    BY <2>2, <2>6 DEF EntrySets
  <2>10. QED
    BY <2>8, <2>9 DEF f
<1>6. CASE Type[s] \in {"atomic", "final"}
  BY <1>1, <1>6 DEF CompleteState, IsHistory
<1>7. CASE IsHistory(s)
  <2>1. s \in Histories /\ ~IsProper(s)
    BY <1>7 DEF Histories, IsHistory, IsProper, Pseudo
  <2>2. /\ f \in EntrySets
        /\ \/ f.entry = e.entry \cup (Completion[s] \cap hist)
           \/ \E t \in TransIdx :
                 /\ DefaultTransitions(s) = {t}
                 /\ f.entry = e.entry \cup Trans[t].target \cup AroundDefault(s, Trans[t].target)
    <3>1. StateCompleted(f, s, e, c, hist, x)
      BY CompleteStateCases
    <3> HIDE DEF f
    <3>2. QED
      BY <1>7, <3>1 DEF StateCompleted
  <2>3. hist \subseteq LeadsTo(R)
    BY ReachedLeadsTo
  <2>4. ASSUME NEW t \in TransIdx, DefaultTransitions(s) = {t}
        PROVE  Trans[t].target \cup AroundDefault(s, Trans[t].target) \subseteq LeadsTo(R)
    <3> DEFINE set == Trans[t].target
    <3>1. set # {} /\ set \subseteq ProperStates
      BY <2>1, <2>4 DEF WellFormedChart, DefaultFits
    <3>2. TargetSet(DefaultTransitions(s)) = set
      BY <2>4 DEF TargetSet
    <3>3. set \subseteq R
      BY <1>1, <2>1, <3>2 DEF LeadsTo
    <3>4. set \in SUBSET States
      BY <3>1 DEF ProperStates
    <3> HIDE DEF set
    <3>5. Min(set) \in set
      BY <3>1, <3>4, MinOfStates
    <3>6. AroundDefault(s, set) \subseteq WithAncestors(set)
      BY <3>5 DEF AroundDefault, WithAncestors
    <3>7. WithAncestors(set) \subseteq LeadsTo(R) /\ set \subseteq WithAncestors(set)
      BY <3>1, <3>3, <3>4, ReachedWithAncestors, WithAncestorsClosed
    <3>8. QED
      BY <3>6, <3>7 DEF set
  <2> HIDE DEF f
  <2>5. QED
    BY <2>2, <2>3, <2>4 DEF f
<1>8. QED
  BY <1>1, <1>3, <1>4, <1>5, <1>6, <1>7 DEF Types, Pseudo, IsHistory

LEMMA MicrostepReached ==
    ASSUME WellFormedChart, RegionsExist, NEW R, ReachClosed(R),
           NEW targets \in SUBSET States, WithAncestors(targets) \subseteq LeadsTo(R),
           NEW taken \in SUBSET TransIdx, NEW c, c \subseteq R,
           NEW hist, hist \subseteq R \cap ProperStates, NEW x, NEW init
    PROVE  Microstep(targets, taken, c, hist, x, init).config \subseteq R
<1> DEFINE N == NumStates
           e == EstablishEntrySet(targets, taken, c, hist, x)
<1>0. PICK pass : IsEntryPass(pass, targets, taken, c, hist, x)
  BY EntryPass
<1>1. /\ pass \in [0 .. N -> EntrySets]
      /\ e = pass[N]
      /\ pass[0] = [entry |-> WithAncestors(targets), taken |-> taken]
      /\ \A s \in States : pass[s + 1] = EntryStep(s, pass[s], c, hist, x)
  BY <1>0 DEF IsEntryPass
<1>2. N \in Nat /\ States = 0 .. N - 1
  BY Tables DEF States
<1> DEFINE S == {n \in 0 .. N : pass[n].entry \subseteq LeadsTo(R)}
<1> HIDE DEF N, e
<1>3. 0 \in S
  BY <1>1, <1>2
<1>4. ASSUME NEW n \in 0 .. N - 1, n \in S
      PROVE  n + 1 \in S
  <2>1. n \in States /\ n \in 0 .. N /\ n + 1 \in 0 .. N
    BY <1>2
  <2>2. pass[n] \in EntrySets /\ pass[n].entry \subseteq LeadsTo(R)
    BY <1>1, <1>4, <2>1
  <2>3. pass[n + 1] = EntryStep(n, pass[n], c, hist, x)
    BY <1>1, <2>1
  <2>4. n \in pass[n].entry => CompleteState(n, pass[n], c, hist, x).entry \subseteq LeadsTo(R)
    BY <2>1, <2>2, CompleteStateReached
  <2>5. QED
    BY <2>1, <2>2, <2>3, <2>4 DEF EntryStep
<1>5. N \in S
  <2> HIDE DEF S
  <2>1. 0 .. N \subseteq S
    BY <1>2, <1>3, <1>4, IntervalInduction
  <2>2. QED
    BY <1>2, <2>1
<1>6. e.entry \cap ProperStates \subseteq R
  BY <1>1, <1>5 DEF LeadsTo, ProperStates
<1>7. Microstep(targets, taken, c, hist, x, init).config
         = (c \ x) \cup ((e.entry \ (c \ x)) \cap ProperStates)
  BY DEF Microstep, MoveTo, e
<1>8. QED
  BY <1>6, <1>7

(***************************************************************************)
(* A microstep from states that getReachableStates has found leads to such *)
(* states, whatever the event and the conditions, and so does the entry of *)
(* the chart, as long as only such states are remembered, and no others    *)
(* are remembered then: a state of which the linter says "is unreachable"  *)
(* is never entered.                                                       *)
(***************************************************************************)
THEOREM UnreachableNotEntered ==
    ASSUME WellFormedChart, RegionsExist, NEW init,
           NEW hist0, hist0 \subseteq GetReachableStates \cap ProperStates
    PROVE  /\ \A c, event, cond :
                 c \subseteq GetReachableStates \cap ProperStates =>
                    LET taken == SelectTransitions(c, event, cond).taken
                        exit == ExitedStates(taken, c)
                        hist == RememberHistory(hist0, c, exit)
                        new == Microstep(TargetSet(taken), taken, c, hist, exit, init).config
                    IN new \subseteq GetReachableStates /\ hist \subseteq GetReachableStates
           /\ Microstep(Completion[0], {}, {}, hist0, {}, init).config \subseteq GetReachableStates
<1> DEFINE R == GetReachableStates
<1>1. ReachClosed(R)
  BY ReachableClosed
<1> HIDE DEF R
<1>2. ASSUME NEW c, NEW event, NEW cond, c \subseteq R \cap ProperStates,
             hist0 \subseteq R \cap ProperStates
      PROVE  LET taken == SelectTransitions(c, event, cond).taken
                 exit == ExitedStates(taken, c)
                 hist == RememberHistory(hist0, c, exit)
                 new == Microstep(TargetSet(taken), taken, c, hist, exit, init).config
             IN new \subseteq R /\ hist \subseteq R
  <2> DEFINE taken == SelectTransitions(c, event, cond).taken
             exit == ExitedStates(taken, c)
             hist == RememberHistory(hist0, c, exit)
  <2>1. taken \subseteq TransIdx /\ \A t \in taken : Trans[t].source \in c
    BY TakenIsSelected DEF Selected
  <2> HIDE DEF taken, exit
  <2>2. hist \subseteq R \cap ProperStates
    BY <1>2, RememberedStates
  <2> HIDE DEF hist
  <2>3. \A t \in taken : Trans[t].target \subseteq R
    <3>1. ASSUME NEW t \in taken
          PROVE  Trans[t].target \subseteq R
      <4>1. Trans[t].source \in R /\ t \in DefaultTransitions(Trans[t].source)
        BY <1>2, <2>1 DEF DefaultTransitions
      <4>2. Trans[t].target \subseteq UNION {Trans[u].target : u \in DefaultTransitions(Trans[t].source)}
        BY <4>1
      <4>3. Trans[t].target \subseteq ReachableFrom(Trans[t].source)
        BY <4>2 DEF ReachableFrom
      <4>4. QED
        BY <1>1, <4>1, <4>3 DEF ReachClosed
    <3>2. QED
      BY <3>1
  <2>4. TargetSet(taken) \subseteq R /\ TargetSet(taken) \subseteq ProperStates \cup Histories
    BY <2>1, <2>3 DEF TargetSet, WellFormedChart, Compatible
  <2>5. TargetSet(taken) \in SUBSET States /\ WithAncestors(TargetSet(taken)) \subseteq LeadsTo(R)
    BY <1>1, <2>4, ReachedWithAncestors DEF ProperStates, Histories
  <2>6. Microstep(TargetSet(taken), taken, c, hist, exit, init).config \subseteq R
    BY <1>1, <1>2, <2>1, <2>5, <2>2, MicrostepReached
  <2>7. QED
    BY <2>6, <2>2 DEF taken, exit, hist
<1>3. ASSUME hist0 \subseteq R \cap ProperStates
      PROVE  Microstep(Completion[0], {}, {}, hist0, {}, init).config \subseteq R
  <2>1. 0 \in R /\ 0 \in States /\ Type[0] = "compound" /\ IsProper(0)
    BY <1>1, Tables, TypeAssumption DEF ReachClosed, IsProper, Pseudo
  <2>2. GetInitialStates(0) \subseteq R
    BY <1>1, <2>1 DEF ReachClosed, ReachableFrom
  <2>3. Completion[0] \in SUBSET States /\ WithAncestors(Completion[0]) \subseteq LeadsTo(R)
    <3>1. CASE /\ Completion[0] = GetInitialStates(0)
               /\ GetInitialStates(0) \subseteq ProperStates \cup Histories
      BY <1>1, <2>2, <3>1, ReachedWithAncestors DEF ProperStates, Histories
    <3>2. ASSUME NEW i \in Children[0], Completion[0] = {i}, Type[i] = "initial",
                 GetInitialStates(0) = TargetSet(DefaultTransitions(i))
          PROVE  Completion[0] \in SUBSET States /\ WithAncestors(Completion[0]) \subseteq LeadsTo(R)
      <4>1. i \in States /\ Ancestors[i] = Ancestors[0] \cup {0}
        BY <2>1, AncestorsOfChild
      <4>2. Ancestors[0] = {}
        <5>1. ASSUME NEW a \in States, 0 \in Descendants[a]
              PROVE  FALSE
          <6>1. \A b \in States : b \in Descendants[a] => a < b
            BY Nested
          <6>2. a < 0
            BY <2>1, <5>1, <6>1
          <6>3. QED
            BY <6>2 DEF States
        <5>2. QED
          BY <2>1, <5>1, Tables
      <4>3. WithAncestors(Completion[0]) = {i, 0}
        BY <3>2, <4>1, <4>2 DEF WithAncestors
      <4>4. i \in LeadsTo(R) /\ 0 \in LeadsTo(R)
        BY <2>1, <2>2, <3>2, <4>1 DEF LeadsTo, IsProper, Pseudo
      <4>5. QED
        BY <3>2, <4>1, <4>3, <4>4
    <3>3. QED
      BY <2>1, <3>1, <3>2, InitialStates
  <2>4. {} \in SUBSET TransIdx /\ {} \subseteq R
    OBVIOUS
  <2>5. QED
    BY <1>1, <1>3, <2>3, <2>4, MicrostepReached
<1>4. QED
  BY <1>2, <1>3 DEF R

-----------------------------------------------------------------------------
(* When a parallel state is done.  The regions of a parallel state and of  *)
(* those inside it.                                                        *)

(***************************************************************************)
(* A region of a region is a region, a child of a parallel state is one,   *)
(* and only parallel states are around one.                                *)
(***************************************************************************)
LEMMA RegionTreeParts ==
    ASSUME NEW p \in States
    PROVE  /\ RegionTree(p) \subseteq Descendants[p]
           /\ RegionTree(p) # {} => Type[p] = "parallel"
           /\ \A q \in RegionTree(p) : RegionTree(q) \subseteq RegionTree(p)
           /\ Type[p] = "parallel" => Children[p] \subseteq RegionTree(p)
           /\ \A r \in RegionTree(p), a \in Descendants[p] : r \in Descendants[a] =>
                 Type[a] = "parallel" /\ a \in RegionTree(p) /\ r \in RegionTree(a)
<1>1. RegionTree(p) \subseteq Descendants[p]
  BY DEF RegionTree
<1>2. ASSUME NEW r \in RegionTree(p)
      PROVE  Type[p] = "parallel"
  <2>1. r \in States /\ p \in Ancestors[r]
    BY <1>1, Tables
  <2>2. p \notin Ancestors[p]
    BY Tables, Nested
  <2>3. QED
    BY <2>1, <2>2 DEF RegionTree
<1>3. ASSUME NEW q \in RegionTree(p), NEW r \in RegionTree(q)
      PROVE  r \in RegionTree(p)
  <2>1. q \in States /\ q \in Descendants[p]
    BY <1>1, Tables
  <2>2. r \in Descendants[q] /\ r \in Descendants[p]
    BY <2>1, Nested DEF RegionTree
  <2>3. QED
    BY <2>2 DEF RegionTree
<1>4. ASSUME Type[p] = "parallel", NEW k \in Children[p]
      PROVE  k \in RegionTree(p)
  BY <1>4, AncestorsOfChild DEF RegionTree
<1>5. ASSUME NEW r \in RegionTree(p), NEW a \in Descendants[p], r \in Descendants[a]
      PROVE  Type[a] = "parallel" /\ a \in RegionTree(p) /\ r \in RegionTree(a)
  <2>1. r \in States /\ a \in States /\ a \in Ancestors[r] /\ p \in Ancestors[a]
    BY <1>1, <1>5, Tables
  <2>2. a \notin Ancestors[p] /\ Ancestors[p] \subseteq Ancestors[a] /\ Ancestors[a] \subseteq Ancestors[r]
    <3>1. a \notin Ancestors[p]
      <4>1. p < a /\ (p \in Descendants[a] => a < p)
        BY <2>1, Nested
      <4>2. p \notin Descendants[a]
        BY <2>1, <4>1, Tables
      <4>3. QED
        BY <2>1, <4>2, Tables
    <3>2. \A b \in States : p \in Descendants[b] => a \in Descendants[b]
      BY <2>1, Nested
    <3>3. \A b \in States : a \in Descendants[b] => r \in Descendants[b]
      BY <1>5, <2>1, Nested
    <3>4. QED
      BY <2>1, <3>1, <3>2, <3>3, AncestorsAre
  <2>3. QED
    BY <1>5, <2>1, <2>2 DEF RegionTree
<1>6. QED
  BY <1>1, <1>2, <1>3, <1>4, <1>5

(***************************************************************************)
(* A state below a parallel state is one of its regions, or below one that *)
(* is not parallel.                                                        *)
(***************************************************************************)
LEMMA RegionAround ==
    ASSUME NEW p \in States, Type[p] = "parallel", NEW x \in Descendants[p], x \notin RegionTree(p)
    PROVE  \E r \in RegionTree(p) : Type[r] # "parallel" /\ x \in Descendants[r]
<1> DEFINE B == {a \in Ancestors[x] \ Ancestors[p] : Type[a] # "parallel"}
<1>1. x \in States /\ p \in Ancestors[x]
  <2>1. x \in States
    BY Tables
  <2>2. QED
    BY <2>1, Tables
<1>2. B # {} /\ B \in SUBSET Nat
  BY <1>1, Tables DEF RegionTree
<1>3. PICK a \in B : \A b \in B : a <= b
  BY <1>2, LeastElement
<1>4. a \in States /\ x \in Descendants[a] /\ p \notin Descendants[a] /\ a # p /\ a \in Nat
  BY <1>1, <1>3, Tables
<1>5. a \in Descendants[p]
  BY <1>4, <1>1, Nested, Tables
<1>6. ASSUME NEW b \in Ancestors[a] \ Ancestors[p], Type[b] # "parallel"
      PROVE  FALSE
  <2>1. b \in States /\ a \in Descendants[b]
    BY <1>4, Tables
  <2>2. b < a /\ x \in Descendants[b] /\ b \in Nat
    BY <1>4, <2>1, Nested, Tables
  <2>3. b \in B
    BY <1>1, <1>6, <2>1, <2>2, Tables
  <2>4. QED
    BY <1>3, <1>4, <2>2, <2>3
<1>7. a \in RegionTree(p)
  BY <1>5, <1>6 DEF RegionTree
<1>8. QED
  BY <1>3, <1>4, <1>7

(***************************************************************************)
(* Of a set of compound states: the parallel states all of whose regions   *)
(* are in the set, or parallel again, and the states that are removed with *)
(* the set.                                                                *)
(***************************************************************************)
Covered(q, D) ==
    \A r \in RegionTree(q) : r \in D \/ (Type[r] = "parallel" /\ Descendants[r] # {})
Emptied(q, D) == Type[q] = "parallel" /\ Descendants[q] # {} /\ Covered(q, D)
Removed(D) ==
    {x \in States : x \in D \/ (\E d \in D : x \in Descendants[d]) \/ Emptied(x, D)}
Compounds(D) == D \subseteq States /\ \A d \in D : Type[d] = "compound"

(***************************************************************************)
(* What is below a state that is covered is removed.                       *)
(***************************************************************************)
LEMMA CoveredRemoved ==
    ASSUME NEW D, NEW a \in States, Type[a] = "parallel", Covered(a, D), NEW x \in Descendants[a]
    PROVE  /\ x \in Removed(D)
           /\ \/ x \in D
              \/ \E d \in D : x \in Descendants[d]
              \/ x \in RegionTree(a) /\ Emptied(x, D)
<1>1. x \in States
  BY Tables
<1>2. CASE x \notin RegionTree(a)
  <2>1. PICK r \in RegionTree(a) : Type[r] # "parallel" /\ x \in Descendants[r]
    BY <1>2, RegionAround
  <2>2. r \in D
    BY <2>1 DEF Covered
  <2>3. QED
    BY <1>1, <2>1, <2>2 DEF Removed
<1>3. CASE x \in RegionTree(a) /\ x \notin D
  <2>1. Type[x] = "parallel" /\ Descendants[x] # {}
    BY <1>3 DEF Covered
  <2>2. RegionTree(x) \subseteq RegionTree(a)
    BY <1>3, RegionTreeParts
  <2>3. Covered(x, D)
    BY <2>2 DEF Covered
  <2>4. QED
    BY <1>1, <1>3, <2>1, <2>3 DEF Removed, Emptied
<1>4. CASE x \in D
  BY <1>1, <1>4 DEF Removed
<1>5. QED
  BY <1>2, <1>3, <1>4

(***************************************************************************)
(* A region that is removed is in the set or parallel, unless the removal  *)
(* is from further up.                                                     *)
(***************************************************************************)
LEMMA RemovedCovered ==
    ASSUME NEW D, Compounds(D), NEW b \in States, NEW r \in RegionTree(b), r \in Removed(D),
           \A d \in D : b \notin Descendants[d]
    PROVE  r \in D \/ (Type[r] = "parallel" /\ Descendants[r] # {})
<1>1. r \in States /\ r \in Descendants[b] /\ Type[b] = "parallel"
  BY RegionTreeParts, Tables
<1>2. ASSUME NEW d \in D, r \in Descendants[d]
      PROVE  FALSE
  <2>1. d \in States /\ Type[d] = "compound"
    BY DEF Compounds
  <2>2. d # b
    BY <1>1, <2>1
  <2>3. d \in Descendants[b]
    BY <1>1, <1>2, <2>1, <2>2, Nested
  <2>4. Type[d] = "parallel"
    BY <1>2, <2>3, RegionTreeParts
  <2>5. QED
    BY <2>1, <2>4
<1>3. QED
  BY <1>2 DEF Removed, Emptied

(***************************************************************************)
(* A parallel state that is emptied has a region in the set.               *)
(***************************************************************************)
LEMMA EmptiedBy ==
    ASSUME NEW D, NEW q \in States, Emptied(q, D)
    PROVE  \E d \in D : d \in RegionTree(q)
<1>1. RegionTree(q) # {} /\ RegionTree(q) \subseteq States
  <2>1. PICK x \in Descendants[q] : TRUE
    BY DEF Emptied
  <2>2. PICK k \in Children[q] : TRUE
    BY <2>1, ChildTowards
  <2>3. QED
    BY <2>2, RegionTreeParts, Tables DEF Emptied
<1>2. NumStates - 1 \in Nat /\ RegionTree(q) \in SUBSET (0 .. NumStates - 1)
  BY <1>1, Tables DEF States
<1>3. PICK m \in RegionTree(q) : \A k \in RegionTree(q) : k <= m
  BY <1>1, <1>2, GreatestElement
<1>4. SUFFICES ASSUME m \notin D
               PROVE  FALSE
  OBVIOUS
<1>5. m \in States /\ Type[m] = "parallel" /\ Descendants[m] # {}
  BY <1>1, <1>4 DEF Emptied, Covered
<1>6. PICK x \in Descendants[m] : TRUE
  BY <1>5
<1>7. PICK k \in Children[m] : TRUE
  BY <1>5, <1>6, ChildTowards
<1>8. k \in States /\ m < k
  BY <1>5, <1>7, AncestorsOfChild
<1>9. k \in RegionTree(q)
  BY <1>5, <1>7, RegionTreeParts
<1>10. QED
  BY <1>3, <1>5, <1>8, <1>9, Tables

(***************************************************************************)
(* What the climb from s takes out of a set: the parallel states above s,  *)
(* up to p, below which nothing of the set is left but states above s.     *)
(***************************************************************************)
EmptyAbove(s, rem, p) ==
    {b \in Ancestors[s] :
        \A a \in Ancestors[s] :
            /\ b <= a => Type[a] = "parallel" /\ rem \cap Descendants[a] \subseteq Ancestors[s]
            /\ b < a => a # p}

(***************************************************************************)
(* One step of the climb: nothing is empty above s unless its parent is,   *)
(* and then what is empty above the parent.                                *)
(***************************************************************************)
LEMMA EmptyAboveStep ==
    ASSUME NEW s \in States, NEW rem \in SUBSET States, NEW p, s # 0
    PROVE  LET q == Parent[s]
               less == rem \ {q}
           IN /\ Type[q] # "parallel" \/ rem \cap Descendants[q] # {} => EmptyAbove(s, rem, p) = {}
              /\ Type[q] = "parallel" /\ rem \cap Descendants[q] = {} =>
                    /\ q = p => EmptyAbove(s, rem, p) = {q}
                    /\ q # p => EmptyAbove(s, rem, p) = {q} \cup EmptyAbove(q, less, p)
<1> DEFINE q == Parent[s]
           less == rem \ {q}
<1>1. /\ q \in States /\ s \in Children[q] /\ Ancestors[s] = Ancestors[q] \cup {q}
      /\ q \in Nat /\ Ancestors[q] \subseteq States
  <2>1. q \in States /\ s \in Children[q]
    BY ParentInnermost
  <2>2. Ancestors[s] = Ancestors[q] \cup {q}
    BY <2>1, AncestorsOfChild
  <2>3. QED
    BY <2>1, <2>2, Tables
<1>2. ASSUME NEW a \in Ancestors[q]
      PROVE  a < q /\ a \in Nat /\ a \in States /\ q \in Descendants[a]
  <2>1. a \in States /\ q \in Descendants[a]
    BY <1>1, Tables
  <2>2. QED
    BY <1>1, <2>1, Nested, Tables
<1>3. Descendants[q] \cap Ancestors[s] = {}
  <2> SUFFICES ASSUME NEW x \in Descendants[q], x \in Ancestors[s]
               PROVE  FALSE
    OBVIOUS
  <2>1. x \in States /\ q < x /\ x \in Nat
    BY <1>1, Nested, Tables
  <2>2. QED
    BY <1>1, <1>2, <2>1
<1>4. ASSUME Type[q] # "parallel" \/ rem \cap Descendants[q] # {}
      PROVE  EmptyAbove(s, rem, p) = {}
  BY <1>1, <1>2, <1>3, <1>4 DEF EmptyAbove
<1>5. ASSUME Type[q] = "parallel", rem \cap Descendants[q] = {}, q = p
      PROVE  EmptyAbove(s, rem, p) = {q}
  BY <1>1, <1>2, <1>5 DEF EmptyAbove
<1>6. ASSUME Type[q] = "parallel", rem \cap Descendants[q] = {}, q # p
      PROVE  EmptyAbove(s, rem, p) = {q} \cup EmptyAbove(q, less, p)
  <2>1. q \in EmptyAbove(s, rem, p)
    BY <1>1, <1>2, <1>6 DEF EmptyAbove
  <2>2. \A a \in Ancestors[q] :
           rem \cap Descendants[a] \subseteq Ancestors[s] <=>
              less \cap Descendants[a] \subseteq Ancestors[q]
    BY <1>1, <1>2
  <2>3. ASSUME NEW b \in Ancestors[q]
        PROVE  b \in EmptyAbove(s, rem, p) <=> b \in EmptyAbove(q, less, p)
    <3>1. b < q /\ b <= q
      BY <1>1, <1>2
    <3>2. b \in EmptyAbove(s, rem, p) <=>
            \A a \in Ancestors[q] \cup {q} :
              /\ b <= a => Type[a] = "parallel" /\ rem \cap Descendants[a] \subseteq Ancestors[s]
              /\ b < a => a # p
      BY <1>1 DEF EmptyAbove
    <3>3. b \in EmptyAbove(q, less, p) <=>
            \A a \in Ancestors[q] :
              /\ b <= a => Type[a] = "parallel" /\ less \cap Descendants[a] \subseteq Ancestors[q]
              /\ b < a => a # p
      BY DEF EmptyAbove
    <3>4. QED
      BY <1>6, <2>2, <3>1, <3>2, <3>3
  <2>4. EmptyAbove(s, rem, p) \subseteq Ancestors[q] \cup {q} /\ EmptyAbove(q, less, p) \subseteq Ancestors[q]
    BY <1>1 DEF EmptyAbove
  <2>5. QED
    BY <2>1, <2>3, <2>4
<1>7. QED
  BY <1>4, <1>5, <1>6

(***************************************************************************)
(* RemoveEmptiedParallels takes out exactly these.                         *)
(***************************************************************************)
LEMMA ClimbRemoves ==
    ASSUME NEW from \in States, NEW remaining \in SUBSET States, NEW p
    PROVE  RemoveEmptiedParallels(from, remaining, p) = remaining \ EmptyAbove(from, remaining, p)
<1> DEFINE Body(f, s, rem) ==
               IF s = 0 \/ Type[Parent[s]] # "parallel" \/ rem \cap Descendants[Parent[s]] # {}
               THEN rem
               ELSE IF rem \ {Parent[s]} = {} \/ Parent[s] = p THEN rem \ {Parent[s]}
                    ELSE f[Parent[s]][rem \ {Parent[s]}]
           Rec(f) == [s \in States |-> [rem \in SUBSET States |-> Body(f, s, rem)]]
           climb == CHOOSE f : f = Rec(f)
           g == [s \in States |-> [rem \in SUBSET States |-> rem \ EmptyAbove(s, rem, p)]]
<1>1. RemoveEmptiedParallels(from, remaining, p) = climb[from][remaining]
  BY DEF RemoveEmptiedParallels
<1>2. ASSUME NEW f, NEW s \in States, NEW rem \in SUBSET States,
             s # 0 => f[Parent[s]][rem \ {Parent[s]}] =
                         (rem \ {Parent[s]}) \ EmptyAbove(Parent[s], rem \ {Parent[s]}, p)
      PROVE  Body(f, s, rem) = rem \ EmptyAbove(s, rem, p)
  <2>1. CASE s = 0
    <3>1. \A a \in States : 0 \in Descendants[a] => a < 0 /\ a \in Nat
      BY Nested, Tables
    <3>2. Ancestors[0] = {}
      <4>1. \A a \in States : ~(0 \in Descendants[a])
        BY <3>1
      <4>2. QED
        BY <4>1, AncestorsAre
    <3>3. QED
      BY <2>1, <3>2 DEF EmptyAbove
  <2>2. CASE s # 0
    BY <1>2, <2>2, EmptyAboveStep
  <2>3. QED
    BY <2>1, <2>2
<1>3. g = Rec(g)
  <2>1. ASSUME NEW s \in States, NEW rem \in SUBSET States
        PROVE  Body(g, s, rem) = rem \ EmptyAbove(s, rem, p)
    <3>1. s # 0 => Parent[s] \in States
      BY ParentInnermost
    <3>2. s # 0 => g[Parent[s]][rem \ {Parent[s]}] =
                         (rem \ {Parent[s]}) \ EmptyAbove(Parent[s], rem \ {Parent[s]}, p)
      BY <3>1
    <3> HIDE DEF Body, g
    <3>3. QED
      BY <1>2, <3>2
  <2> HIDE DEF Body
  <2>2. QED
    BY <2>1
<1>4. climb = Rec(climb)
  <2> HIDE DEF Rec
  <2>1. QED
    BY <1>3
<1>5. \A s \in States, rem \in SUBSET States : climb[s][rem] = Body(climb, s, rem)
  <2> HIDE DEF climb, Body
  <2>1. QED
    BY <1>4
<1> HIDE DEF climb, Body
<1> DEFINE S == {s \in States : \E rem \in SUBSET States : climb[s][rem] # rem \ EmptyAbove(s, rem, p)}
<1>6. S = {}
  <2> SUFFICES ASSUME S # {}
               PROVE  FALSE
    OBVIOUS
  <2>1. S \in SUBSET Nat
    BY Tables
  <2>2. PICK s \in S : \A k \in S : s <= k
    BY <2>1, LeastElement
  <2>3. PICK rem \in SUBSET States : climb[s][rem] # rem \ EmptyAbove(s, rem, p)
    OBVIOUS
  <2>4. ASSUME s # 0
        PROVE  climb[Parent[s]][rem \ {Parent[s]}] =
                  (rem \ {Parent[s]}) \ EmptyAbove(Parent[s], rem \ {Parent[s]}, p)
    <3>1. Parent[s] \in States /\ Parent[s] < s /\ s \in Nat /\ Parent[s] \in Nat
      BY <2>4, ParentInnermost, Nested, Tables
    <3>2. Parent[s] \notin S
      BY <2>2, <3>1
    <3>3. rem \ {Parent[s]} \in SUBSET States
      OBVIOUS
    <3>4. QED
      BY <3>1, <3>2, <3>3
  <2>5. Body(climb, s, rem) = rem \ EmptyAbove(s, rem, p)
    <3>1. s \in States
      OBVIOUS
    <3> HIDE DEF S
    <3>2. QED
      BY <1>2, <2>4, <3>1
  <2>6. QED
    BY <1>5, <2>3, <2>5
<1>7. QED
  BY <1>1, <1>6

(***************************************************************************)
(* What an active <final> removes: with a further compound state A apart   *)
(* from those in D, the descendants of A are still there, and taking them, *)
(* A and the parallel states above it out gives what D with A removes.     *)
(***************************************************************************)
LEMMA RemoveOne ==
    ASSUME NEW D, Compounds(D), NEW A \in States, Type[A] = "compound", A \notin D,
           \A d \in D : A \notin Descendants[d] /\ d \notin Descendants[A],
           NEW p \in States, A \in Descendants[p]
    PROVE  LET rem == (Descendants[p] \ Removed(D)) \ (Descendants[A] \cup {A})
           IN /\ Descendants[A] \cap Removed(D) = {}
              /\ rem \ EmptyAbove(A, rem, p) = Descendants[p] \ Removed(D \cup {A})
<1> DEFINE rem == (Descendants[p] \ Removed(D)) \ (Descendants[A] \cup {A})
           E == D \cup {A}
<1>1. Descendants[A] \cap Removed(D) = {}
  <2> SUFFICES ASSUME NEW x \in Descendants[A], x \in Removed(D)
               PROVE  FALSE
    OBVIOUS
  <2>1. x \in States
    BY Tables
  <2>2. ASSUME NEW d \in D, d = x \/ x \in Descendants[d]
        PROVE  FALSE
    <3>1. d \in States
      BY DEF Compounds
    <3>2. QED
      BY <2>1, <2>2, <3>1, Nested
  <2>3. Emptied(x, D)
    BY <2>2 DEF Removed
  <2>4. PICK d \in D : d \in RegionTree(x)
    BY <2>1, <2>3, EmptiedBy
  <2>5. d \in Descendants[x]
    BY <2>1, <2>4, RegionTreeParts
  <2>6. d \in Descendants[A]
    BY <2>1, <2>5, Nested
  <2>7. QED
    BY <2>6
<1>2. Compounds(E)
  BY DEF Compounds
<1>3. A \in Nat /\ p \in Nat /\ p \in Ancestors[A]
  BY Tables
<1>4. ASSUME NEW x \in Descendants[p], x \notin Removed(E)
      PROVE  x \in rem /\ x \notin EmptyAbove(A, rem, p)
  <2>1. x \in States /\ x \notin E /\ \A d \in E : x \notin Descendants[d]
    BY <1>4, Tables DEF Removed
  <2>2. x \notin Removed(D)
    BY <1>4, <2>1 DEF Removed, Emptied, Covered
  <2>3. x \in rem
    BY <2>1, <2>2
  <2>4. ASSUME x \in EmptyAbove(A, rem, p)
        PROVE  FALSE
    <3> HIDE DEF rem
    <3>1. x \in Ancestors[A] /\ Type[x] = "parallel" /\ A \in Descendants[x] /\ x \in Nat
      BY <2>1, <2>4, Tables DEF EmptyAbove
    <3>2. ASSUME NEW r \in RegionTree(x)
          PROVE  r \in E \/ (Type[r] = "parallel" /\ Descendants[r] # {})
      <4>1. r \in States /\ r \in Descendants[x]
        BY <2>1, RegionTreeParts, Tables
      <4>2. r \in Descendants[p] /\ x < r /\ r \in Nat
        BY <2>1, <4>1, Nested, Tables
      <4>3. CASE r \in Ancestors[A]
        <5>1. x <= r
          BY <3>1, <4>2
        <5>2. Type[r] = "parallel"
          BY <2>4, <4>3, <5>1 DEF EmptyAbove
        <5>3. A \in Descendants[r]
          BY <4>1, <4>3, Tables
        <5>4. QED
          BY <5>2, <5>3
      <4>4. CASE r \notin Ancestors[A]
        <5>1. r \notin rem
          <6>1. x <= x
            BY <3>1
          <6>2. rem \cap Descendants[x] \subseteq Ancestors[A]
            BY <2>4, <3>1, <6>1 DEF EmptyAbove
          <6>3. QED
            BY <4>1, <4>4, <6>2
        <5>2. r \in Removed(D) \/ r \in Descendants[A] \/ r = A
          BY <4>2, <5>1 DEF rem
        <5>3. r \in Removed(E)
          BY <4>1, <5>2 DEF Removed, Emptied, Covered
        <5>4. QED
          BY <1>2, <2>1, <5>3, RemovedCovered
      <4>5. QED
        BY <4>3, <4>4
    <3>3. Emptied(x, E)
      BY <3>1, <3>2 DEF Emptied, Covered
    <3>4. QED
      BY <1>4, <2>1, <3>3 DEF Removed
  <2>5. QED
    BY <2>3, <2>4
<1>5. ASSUME NEW x \in rem, x \in Removed(E)
      PROVE  x \in EmptyAbove(A, rem, p)
  <2>1. x \in Descendants[p] /\ x \in States /\ x \notin Removed(D) /\ x \notin Descendants[A] /\ x # A
    BY Tables
  <2>2. Emptied(x, E) /\ ~Emptied(x, D)
    BY <1>5, <2>1 DEF Removed
  <2>3. A \in RegionTree(x)
    BY <2>2 DEF Emptied, Covered
  <2>4. A \in Descendants[x] /\ x \in Ancestors[A]
    BY <2>1, <2>3, RegionTreeParts, Tables
  <2>5. p < x /\ p \in Nat /\ x \in Nat
    BY <1>3, <2>1, Nested, Tables
  <2> HIDE DEF rem
  <2>6. ASSUME NEW a \in Ancestors[A], x <= a
        PROVE  /\ Type[a] = "parallel"
               /\ rem \cap Descendants[a] \subseteq Ancestors[A]
    <3>1. a \in States /\ A \in Descendants[a] /\ a \in Nat
      BY Tables
    <3>2. a = x \/ a \in Descendants[x]
      <4>1. x \in Descendants[a] => a < x
        BY <2>1, <3>1, Nested
      <4>2. x \notin Descendants[a]
        BY <2>5, <2>6, <3>1, <4>1
      <4>3. QED
        BY <2>1, <2>4, <3>1, <4>2, Nested
    <3>3. /\ Type[a] = "parallel"
          /\ RegionTree(a) \subseteq RegionTree(x)
      <4>1. CASE a = x
        BY <2>2, <4>1 DEF Emptied
      <4>2. CASE a \in Descendants[x]
        BY <2>1, <2>3, <3>1, <4>2, RegionTreeParts
      <4>3. QED
        BY <3>2, <4>1, <4>2
    <3>4. Covered(a, E)
      BY <2>2, <3>3 DEF Emptied, Covered
    <3>5. ASSUME NEW y \in Descendants[a], y \in rem
          PROVE  y \in Ancestors[A]
      <4>1. y \in States /\ y \notin Removed(D) /\ y \notin Descendants[A] /\ y # A
        BY <3>1, <3>5, Tables DEF rem
      <4>2. y \notin E /\ \A d \in E : y \notin Descendants[d]
        BY <4>1 DEF Removed
      <4>3. y \in RegionTree(a) /\ Emptied(y, E)
        BY <3>1, <3>3, <3>4, <4>2, CoveredRemoved
      <4>4. ~Emptied(y, D)
        BY <4>1 DEF Removed
      <4>5. A \in RegionTree(y)
        BY <4>3, <4>4 DEF Emptied, Covered
      <4>6. QED
        BY <4>1, <4>5, RegionTreeParts, Tables
    <3>6. QED
      BY <3>3, <3>5
  <2>7. ASSUME NEW a \in Ancestors[A], x < a
        PROVE  a # p
    BY <2>5, <2>7
  <2>8. QED
    BY <2>4, <2>6, <2>7 DEF EmptyAbove
<1>6. rem \subseteq Descendants[p]
  OBVIOUS
<1> HIDE DEF rem, E
<1>7. rem \ EmptyAbove(A, rem, p) = Descendants[p] \ Removed(E)
  BY <1>4, <1>5, <1>6
<1>8. QED
  BY <1>1, <1>7 DEF rem, E

(***************************************************************************)
(* The parents of different active <final> states are apart.               *)
(***************************************************************************)
LEMMA FinalsApart ==
    ASSUME FinalsInCompounds, NEW L, LegalConfiguration(L),
           NEW j \in L, Type[j] = "final", NEW k \in L, Type[k] = "final", j # k
    PROVE  /\ Parent[j] \in States /\ Type[Parent[j]] = "compound"
           /\ Parent[j] # Parent[k]
           /\ Parent[j] \notin Descendants[Parent[k]]
<1> DEFINE A == Parent[k]
<1>1. \A f \in L : Type[f] = "final" =>
         /\ f \in States /\ f # 0 /\ IsProper(f)
         /\ Parent[f] \in States /\ f \in Descendants[Parent[f]] /\ f \in Children[Parent[f]]
         /\ Type[Parent[f]] = "compound" /\ Parent[f] \in L
  <2> SUFFICES ASSUME NEW f \in L, Type[f] = "final"
               PROVE  /\ f \in States /\ f # 0 /\ IsProper(f)
                      /\ Parent[f] \in States /\ f \in Descendants[Parent[f]]
                      /\ f \in Children[Parent[f]]
                      /\ Type[Parent[f]] = "compound" /\ Parent[f] \in L
    OBVIOUS
  <2>1. f \in States /\ f # 0 /\ IsProper(f)
    BY TypeAssumption, LegalMeans DEF ProperStates
  <2>2. Parent[f] \in States /\ f \in Descendants[Parent[f]] /\ f \in Children[Parent[f]]
    BY <2>1, ParentInnermost
  <2>3. Parent[f] \in L
    BY <2>1 DEF LegalConfiguration
  <2>4. QED
    BY <2>1, <2>2, <2>3 DEF FinalsInCompounds
<1>2. PICK x : ChildStates[A] \cap L = {x}
  BY <1>1, LegalMeans
<1>3. \A f \in L : f \in Children[A] => f = k
  <2>1. k \in ChildStates[A] \cap L
    <3>1. k \in Children[A] /\ k \in ProperStates /\ A \in States
      BY <1>1, ParentInnermost DEF ProperStates
    <3>2. QED
      BY <3>1, Tables
  <2>2. \A f \in L : f \in Children[A] => f \in ChildStates[A]
    <3>1. A \in States /\ L \subseteq ProperStates
      BY <1>1 DEF LegalConfiguration
    <3>2. ChildStates[A] = Children[A] \cap ProperStates
      BY <3>1, Tables
    <3>3. QED
      BY <3>1, <3>2
  <2>3. QED
    BY <1>2, <2>1, <2>2
<1>4. Parent[j] # A
  BY <1>1, <1>3
<1>5. ASSUME Parent[j] \in Descendants[A]
      PROVE  FALSE
  <2>1. j \in Descendants[A]
    BY <1>1, <1>5, Nested
  <2>2. PICK f \in Children[A] : f = j \/ j \in Descendants[f]
    BY <1>1, <2>1, ChildTowards
  <2>3. f \in States
    BY <1>1, AncestorsOfChild
  <2>4. f \in L
    <3>1. Ancestors[j] \subseteq L
      BY LegalMeans
    <3>2. f = j \/ f \in Ancestors[j]
      BY <1>1, <2>2, <2>3, AncestorsAre
    <3>3. QED
      BY <3>1, <3>2
  <2>5. j \in Descendants[k]
    BY <1>3, <2>2, <2>4
  <2>6. k \in States /\ Last[k] = k
    BY <1>1, TypeAssumption
  <2>7. k \in Nat /\ Descendants[k] = (k + 1) .. k
    BY <2>6, Tables
  <2>8. QED
    BY <2>5, <2>7
<1>6. QED
  BY <1>1, <1>4, <1>5

(***************************************************************************)
(* The compound states below p with an active <final> before n.            *)
(***************************************************************************)
FinalsBefore(p, c, n) == {k \in c \cap Descendants[p] : k < n /\ Type[k] = "final"}
ClosedBefore(p, c, n) == {Parent[k] : k \in FinalsBefore(p, c, n)}

(***************************************************************************)
(* The pass of RemainingOf leaves what the compound states with an active  *)
(* <final> do not remove.                                                  *)
(***************************************************************************)
LEMMA RemainingAre ==
    ASSUME FinalsInCompounds, NEW L, LegalConfiguration(L), NEW c \in SUBSET L,
           NEW p \in States, Type[p] = "parallel"
    PROVE  /\ RemainingOf(p, c) = Descendants[p] \ Removed(ClosedBefore(p, c, NumStates))
           /\ Compounds(ClosedBefore(p, c, NumStates))
           /\ ClosedBefore(p, c, NumStates) \subseteq Descendants[p]
<1> DEFINE N == NumStates
           D(n) == ClosedBefore(p, c, n)
           After(k, rem) ==
               IF k \in c \cap Descendants[p] /\ Type[k] = "final"
               THEN RemoveEmptiedParallels(
                        Parent[k], SymmetricDifference(rem, Descendants[Parent[k]]) \ {Parent[k]}, p)
               ELSE rem
           Rec(f) == [i \in 0 .. N |-> IF i = 0 THEN Descendants[p] ELSE After(i - 1, f[i - 1])]
           pass == CHOOSE f : f = Rec(f)
           left == [i \in 0 .. N |-> Descendants[p] \ Removed(D(i))]
<1>1. RemainingOf(p, c) = pass[N]
  BY DEF RemainingOf
<1>2. N \in Nat /\ States = 0 .. N - 1 /\ Descendants[p] \subseteq States
  BY Tables DEF States
<1>3. ASSUME NEW k \in c \cap Descendants[p], Type[k] = "final"
      PROVE  /\ k \in States /\ k \in L /\ Parent[k] \in States /\ Type[Parent[k]] = "compound"
             /\ Parent[k] \in Descendants[p]
  <2>1. k \in States /\ k \in L /\ k # 0
    BY <1>2, <1>3, TypeAssumption
  <2>2. Parent[k] \in States /\ k \in Descendants[Parent[k]]
    BY <2>1, ParentInnermost
  <2>3. Type[Parent[k]] = "compound"
    BY <1>3, <2>1 DEF FinalsInCompounds
  <2>4. Parent[k] # p
    BY <2>3
  <2>5. Parent[k] \in Descendants[p]
    BY <2>1, <2>4, ParentInnermost
  <2>6. QED
    BY <2>1, <2>2, <2>3, <2>5
<1>4. ASSUME NEW n \in 0 .. N
      PROVE  Compounds(D(n)) /\ D(n) \subseteq Descendants[p]
  BY <1>3 DEF ClosedBefore, FinalsBefore, Compounds
<1>5. ASSUME NEW k \in States
      PROVE  After(k, Descendants[p] \ Removed(D(k))) = Descendants[p] \ Removed(D(k + 1))
  <2>1. \A f \in States : f < k + 1 <=> f < k \/ f = k
    BY Tables
  <2>2. CASE k \in c \cap Descendants[p] /\ Type[k] = "final"
    <3> DEFINE A == Parent[k]
               rem0 == Descendants[p] \ Removed(D(k))
               rem == rem0 \ (Descendants[A] \cup {A})
    <3>1. D(k + 1) = D(k) \cup {A}
      <4>1. FinalsBefore(p, c, k + 1) = FinalsBefore(p, c, k) \cup {k}
        BY <1>2, <2>1, <2>2 DEF FinalsBefore
      <4>2. QED
        BY <4>1 DEF ClosedBefore
    <3>2. k \in L /\ A \in States /\ Type[A] = "compound" /\ A \in Descendants[p]
      BY <1>3, <2>2
    <3>3. ASSUME NEW d \in D(k)
          PROVE  d # A /\ A \notin Descendants[d] /\ d \notin Descendants[A]
      <4>1. PICK j \in FinalsBefore(p, c, k) : d = Parent[j]
        BY DEF ClosedBefore
      <4>2. j \in c \cap Descendants[p] /\ j < k /\ Type[j] = "final" /\ j \in L /\ j \in States
        BY <1>2, <4>1 DEF FinalsBefore
      <4>3. j # k
        BY <4>2, Tables
      <4>4. QED
        BY <2>2, <3>2, <4>1, <4>2, <4>3, FinalsApart
    <3>4. k \in 0 .. N
      BY <1>2
    <3>5. /\ Descendants[A] \cap Removed(D(k)) = {}
          /\ rem \ EmptyAbove(A, rem, p) = Descendants[p] \ Removed(D(k) \cup {A})
      <4> HIDE DEF A, D
      <4>1. Compounds(D(k)) /\ A \notin D(k)
        BY <1>4, <3>3, <3>4
      <4>2. QED
        BY <3>2, <3>3, <4>1, RemoveOne
    <3>6. SymmetricDifference(rem0, Descendants[A]) \ {A} = rem
      <4>1. Descendants[A] \subseteq Descendants[p]
        BY <3>2, Nested
      <4>2. Descendants[A] \subseteq rem0
        BY <3>5, <4>1
      <4> HIDE DEF rem0, A
      <4>3. QED
        BY <4>2 DEF SymmetricDifference
    <3>7. After(k, rem0) = RemoveEmptiedParallels(A, rem, p)
      <4>1. After(k, rem0) = RemoveEmptiedParallels(
                                 A, SymmetricDifference(rem0, Descendants[A]) \ {A}, p)
        BY <2>2
      <4> HIDE DEF After, rem0, rem, A
      <4>2. QED
        BY <3>6, <4>1
    <3>8. rem \in SUBSET States
      BY <1>2
    <3>9. RemoveEmptiedParallels(A, rem, p) = rem \ EmptyAbove(A, rem, p)
      <4> HIDE DEF rem, A
      <4>1. QED
        BY <3>2, <3>8, ClimbRemoves
    <3> HIDE DEF After, rem0, rem, A, D
    <3>10. After(k, rem0) = Descendants[p] \ Removed(D(k + 1))
      BY <3>1, <3>5, <3>7, <3>9
    <3>11. QED
      BY <3>10 DEF rem0
  <2>3. CASE ~(k \in c \cap Descendants[p] /\ Type[k] = "final")
    <3>1. D(k + 1) = D(k)
      <4>1. FinalsBefore(p, c, k + 1) = FinalsBefore(p, c, k)
        BY <1>2, <2>1, <2>3 DEF FinalsBefore
      <4>2. QED
        BY <4>1 DEF ClosedBefore
    <3> HIDE DEF D
    <3>2. QED
      BY <2>3, <3>1
  <2>4. QED
    BY <2>2, <2>3
<1>6. Descendants[p] \ Removed(D(0)) = Descendants[p]
  <2>1. D(0) = {}
    BY <1>2 DEF ClosedBefore, FinalsBefore
  <2>2. \A q \in States : ~Emptied(q, {})
    BY EmptiedBy
  <2>3. Removed({}) = {}
    BY <2>2 DEF Removed
  <2>4. QED
    BY <2>1, <2>3
<1> HIDE DEF After, D
<1>7. left = Rec(left)
  <2>1. ASSUME NEW i \in 0 .. N, i # 0
        PROVE  left[i] = After(i - 1, left[i - 1])
    <3>1. i - 1 \in States /\ i - 1 \in 0 .. N /\ (i - 1) + 1 = i
      BY <1>2, <2>1
    <3>2. After(i - 1, Descendants[p] \ Removed(D(i - 1))) = Descendants[p] \ Removed(D((i - 1) + 1))
      BY <1>5, <3>1
    <3>3. left[i - 1] = Descendants[p] \ Removed(D(i - 1)) /\ left[i] = Descendants[p] \ Removed(D(i))
      BY <3>1
    <3> HIDE DEF left
    <3>4. QED
      BY <3>1, <3>2, <3>3
  <2>2. left[0] = Descendants[p]
    BY <1>2, <1>6
  <2>3. left = [i \in 0 .. N |-> left[i]]
    OBVIOUS
  <2> HIDE DEF left
  <2>4. QED
    BY <2>1, <2>2, <2>3
<1>8. pass = Rec(pass)
  <2> HIDE DEF Rec, left
  <2>1. QED
    BY <1>7
<1>9. pass[0] = Descendants[p] /\ \A i \in 1 .. N : pass[i] = After(i - 1, pass[i - 1])
  <2> HIDE DEF pass, left
  <2>1. QED
    BY <1>2, <1>8
<1> HIDE DEF pass, left
<1> DEFINE S == {n \in 0 .. N : pass[n] = Descendants[p] \ Removed(D(n))}
<1>10. 0 \in S
  BY <1>2, <1>6, <1>9
<1>11. ASSUME NEW n \in 0 .. N - 1, n \in S
       PROVE  n + 1 \in S
  <2>1. n + 1 \in 1 .. N /\ n + 1 \in 0 .. N /\ (n + 1) - 1 = n /\ n \in States
    BY <1>2
  <2>2. pass[n + 1] = After(n, pass[n])
    BY <1>9, <2>1
  <2>3. QED
    BY <1>5, <1>11, <2>1, <2>2
<1> HIDE DEF S
<1>12. 0 .. N \subseteq S
  BY <1>2, <1>10, <1>11, IntervalInduction
<1>13. pass[N] = Descendants[p] \ Removed(D(N))
  BY <1>2, <1>12 DEF S
<1>14. N \in 0 .. N
  BY <1>2
<1>15. QED
  BY <1>1, <1>4, <1>13, <1>14 DEF N, D

(***************************************************************************)
(* A parallel state is in a final state when those of its regions that are *)
(* not parallel themselves are.                                            *)
(***************************************************************************)
FinalChildActive(r, c) == \E f \in ChildStates[r] : Type[f] = "final" /\ f \in c
RegionsFinal(p, c) ==
    \A r \in RegionTree(p) \cap ProperStates :
        Type[r] = "parallel" \/ (Type[r] = "compound" /\ FinalChildActive(r, c))

(***************************************************************************)
(* Of the regions of p that is to say: each child is final, or parallel    *)
(* with regions that are.                                                  *)
(***************************************************************************)
LEMMA RegionsFinalStep ==
    ASSUME NEW p \in States, Type[p] = "parallel", NEW c
    PROVE  RegionsFinal(p, c) <=>
              \A k \in ChildStates[p] :
                  \/ Type[k] = "compound" /\ FinalChildActive(k, c)
                  \/ Type[k] = "parallel" /\ RegionsFinal(k, c)
<1>1. ASSUME RegionsFinal(p, c), NEW k \in ChildStates[p]
      PROVE  \/ Type[k] = "compound" /\ FinalChildActive(k, c)
             \/ Type[k] = "parallel" /\ RegionsFinal(k, c)
  <2>1. k \in RegionTree(p) /\ k \in ProperStates
    BY RegionTreeParts, Tables
  <2>2. RegionTree(k) \subseteq RegionTree(p)
    BY <2>1, RegionTreeParts
  <2>3. QED
    BY <1>1, <2>1, <2>2 DEF RegionsFinal
<1>2. ASSUME \A k \in ChildStates[p] :
                \/ Type[k] = "compound" /\ FinalChildActive(k, c)
                \/ Type[k] = "parallel" /\ RegionsFinal(k, c),
             NEW r \in RegionTree(p) \cap ProperStates
      PROVE  Type[r] = "parallel" \/ (Type[r] = "compound" /\ FinalChildActive(r, c))
  <2>1. r \in States /\ r \in Descendants[p]
    BY RegionTreeParts, Tables
  <2>2. PICK k \in Children[p] : k = r \/ r \in Descendants[k]
    BY <2>1, ChildTowards
  <2>3. k \in States /\ k \in Descendants[p]
    BY <2>2, AncestorsOfChild
  <2>4. k \in ChildStates[p]
    BY <2>2, <2>3, PseudoLeaf, Tables DEF ProperStates
  <2>5. CASE k = r
    BY <1>2, <2>4, <2>5
  <2>6. CASE r \in Descendants[k]
    <3>1. Type[k] = "parallel" /\ r \in RegionTree(k)
      BY <2>3, <2>6, RegionTreeParts
    <3>2. RegionsFinal(k, c)
      BY <1>2, <2>4, <3>1
    <3>3. QED
      BY <3>1, <3>2 DEF RegionsFinal
  <2>7. QED
    BY <2>2, <2>5, <2>6
<1>3. QED
  BY <1>1, <1>2 DEF RegionsFinal

(***************************************************************************)
(* The recursion of InFinalState over the children comes to the same.      *)
(***************************************************************************)
LEMMA InFinalMeans ==
    ASSUME NEW p \in States, Type[p] = "parallel", NEW c
    PROVE  InFinalState(p, c) <=> RegionsFinal(p, c)
<1> DEFINE Body(f, r) ==
               \/ Type[r] = "compound" /\ \E k \in ChildStates[r] : Type[k] = "final" /\ k \in c
               \/ Type[r] = "parallel" /\ \A k \in ChildStates[r] : f[k]
           Rec(f) == [r \in States |-> Body(f, r)]
           inFinal == CHOOSE f : f = Rec(f)
           Is(r) == \/ Type[r] = "compound" /\ FinalChildActive(r, c)
                    \/ Type[r] = "parallel" /\ RegionsFinal(r, c)
           g == [r \in States |-> Is(r)]
<1>1. InFinalState(p, c) = inFinal[p]
  BY DEF InFinalState
<1>2. ASSUME NEW f, NEW r \in States, \A k \in ChildStates[r] : f[k] <=> Is(k)
      PROVE  Body(f, r) = Is(r)
  <2>1. CASE Type[r] = "compound"
    BY <2>1 DEF FinalChildActive
  <2>2. CASE Type[r] = "parallel"
    <3>1. RegionsFinal(r, c) <=> \A k \in ChildStates[r] : Is(k)
      BY <2>2, RegionsFinalStep
    <3>2. Is(r) <=> \A k \in ChildStates[r] : f[k]
      <4>1. Is(r) <=> RegionsFinal(r, c)
        BY <2>2
      <4> HIDE DEF Is
      <4>2. QED
        BY <1>2, <3>1, <4>1
    <3>3. QED
      BY <2>2, <3>2
  <2>3. CASE Type[r] \notin {"compound", "parallel"}
    BY <2>3
  <2>4. QED
    BY <2>1, <2>2, <2>3
<1> HIDE DEF Body, Is
<1>3. g = Rec(g)
  <2>1. ASSUME NEW r \in States
        PROVE  Body(g, r) = Is(r)
    <3>1. \A k \in ChildStates[r] : k \in States
      BY Tables
    <3>2. \A k \in ChildStates[r] : g[k] <=> Is(k)
      BY <3>1
    <3> HIDE DEF g
    <3>3. QED
      BY <1>2, <3>2
  <2>2. QED
    BY <2>1
<1>4. inFinal = Rec(inFinal)
  <2> HIDE DEF Rec, g
  <2>1. QED
    BY <1>3
<1>5. \A r \in States : inFinal[r] = Body(inFinal, r)
  <2> HIDE DEF inFinal
  <2>1. QED
    BY <1>4
<1> HIDE DEF inFinal
<1> DEFINE S == {r \in States : inFinal[r] # Is(r)}
<1>6. S = {}
  <2> SUFFICES ASSUME S # {}
               PROVE  FALSE
    OBVIOUS
  <2>1. NumStates - 1 \in Nat /\ S \in SUBSET (0 .. NumStates - 1)
    BY Tables DEF States
  <2>2. PICK r \in S : \A k \in S : k <= r
    BY <2>1, GreatestElement
  <2>3. r \in States
    OBVIOUS
  <2>4. ASSUME NEW k \in ChildStates[r]
        PROVE  inFinal[k] = Is(k)
    <3>1. k \in Children[r]
      BY <2>3, Tables
    <3>2. k \in States /\ r < k /\ r \in Nat /\ k \in Nat
      BY <2>3, <3>1, AncestorsOfChild, Tables
    <3>3. QED
      BY <2>2, <3>2
  <2>5. Body(inFinal, r) = Is(r)
    BY <1>2, <2>3, <2>4
  <2>6. QED
    BY <1>5, <2>3, <2>5
<1>7. QED
  BY <1>1, <1>6 DEF Is

(***************************************************************************)
(* For every chart and every part of a legal configuration: the removal of *)
(* children in ENTER_STATES leaves nothing of a parallel state exactly if  *)
(* it can be done and all its regions are in a final state.                *)
(***************************************************************************)
THEOREM RemovalMeansDone ==
    ASSUME FinalsInCompounds, NEW L, LegalConfiguration(L), NEW c \in SUBSET L,
           NEW p \in States, Type[p] = "parallel"
    PROVE  RemainingOf(p, c) = {} <=> CanBeDone(p) /\ InFinalState(p, c)
<1> DEFINE D == ClosedBefore(p, c, NumStates)
<1>1. RemainingOf(p, c) = Descendants[p] \ Removed(D) /\ Compounds(D) /\ D \subseteq Descendants[p]
  BY RemainingAre
<1>2. ASSUME NEW r \in RegionTree(p)
      PROVE  r \in D <=> Type[r] = "compound" /\ FinalChildActive(r, c)
  <2>1. r \in States /\ r \in Descendants[p]
    BY RegionTreeParts, Tables
  <2>2. c \subseteq ProperStates /\ c \subseteq States
    BY LegalMeans
  <2>3. ASSUME r \in D
        PROVE  Type[r] = "compound" /\ FinalChildActive(r, c)
    <3>1. PICK k \in FinalsBefore(p, c, NumStates) : r = Parent[k]
      BY <2>3 DEF ClosedBefore
    <3>2. k \in c /\ k \in States /\ Type[k] = "final" /\ k # 0
      BY <2>2, <3>1, TypeAssumption DEF FinalsBefore
    <3>3. k \in ChildStates[r]
      BY <2>1, <2>2, <3>1, <3>2, ParentInnermost, Tables
    <3>4. QED
      BY <1>1, <2>3, <3>2, <3>3 DEF Compounds, FinalChildActive
  <2>4. ASSUME FinalChildActive(r, c)
        PROVE  r \in D
    <3>1. PICK f \in ChildStates[r] : Type[f] = "final" /\ f \in c
      BY <2>4 DEF FinalChildActive
    <3>2. f \in Descendants[r] /\ Parent[f] = r /\ f \in States
      BY <2>1, <2>2, <3>1, Tables
    <3>3. f \in Descendants[p] /\ f < NumStates
      BY <2>1, <3>2, Nested, Tables DEF States
    <3>4. QED
      BY <3>1, <3>2, <3>3 DEF ClosedBefore, FinalsBefore
  <2>5. QED
    BY <2>3, <2>4
<1>3. \A d \in D : p \notin Descendants[d]
  <2> SUFFICES ASSUME NEW d \in D, p \in Descendants[d]
               PROVE  FALSE
    OBVIOUS
  <2>1. d \in States /\ d \in Descendants[p]
    BY <1>1, Tables
  <2>2. d < p /\ p < d /\ d \in Nat /\ p \in Nat
    BY <2>1, Nested, Tables
  <2>3. QED
    BY <2>2
<1> HIDE DEF D
<1>4. RemainingOf(p, c) = {} <=> Covered(p, D)
  <2>1. ASSUME Covered(p, D)
        PROVE  RemainingOf(p, c) = {}
    BY <1>1, <2>1, CoveredRemoved
  <2>2. ASSUME RemainingOf(p, c) = {}, NEW r \in RegionTree(p)
        PROVE  r \in D \/ (Type[r] = "parallel" /\ Descendants[r] # {})
    <3>1. r \in Removed(D)
      BY <1>1, <2>2, RegionTreeParts
    <3>2. QED
      BY <1>1, <1>3, <3>1, RemovedCovered
  <2>3. QED
    BY <2>1, <2>2 DEF Covered
<1>5. RegionTree(p) \subseteq States
  BY RegionTreeParts, Tables
<1>6. \A r \in RegionTree(p) : r \in ProperStates <=> IsProper(r)
  BY <1>5 DEF ProperStates
<1>7. \A r : Type[r] \in {"compound", "parallel"} => IsProper(r)
  BY DEF IsProper, Pseudo
<1>8. Covered(p, D) <=> CanBeDone(p) /\ RegionsFinal(p, c)
  BY <1>2, <1>6, <1>7 DEF Covered, CanBeDone, RegionsFinal
<1>9. QED
  BY <1>4, <1>8, InFinalMeans

-----------------------------------------------------------------------------
(* The done events of a microstep.  First, how often an event occurs in a  *)
(* sequence.                                                               *)

Positions(q, e) == {i \in DOMAIN q : q[i] = e}
Count(q, e) == Cardinality(Positions(q, e))

(***************************************************************************)
(* The events in two sequences add up.                                     *)
(***************************************************************************)
LEMMA CountConcat ==
    ASSUME NEW V, NEW a \in Seq(V), NEW b \in Seq(V), NEW e
    PROVE  /\ Count(a, e) \in Nat /\ Count(b, e) \in Nat
           /\ Count(a \o b, e) = Count(a, e) + Count(b, e)
<1> DEFINE n == Len(a)
           m == Len(b)
           A == Positions(a, e)
           B == Positions(b, e)
           shift == [i \in B |-> n + i]
           T == {n + i : i \in B}
<1>1. n \in Nat /\ m \in Nat /\ DOMAIN a = 1 .. n /\ DOMAIN b = 1 .. m
  OBVIOUS
<1>2. A \subseteq 1 .. n /\ B \subseteq 1 .. m
  BY <1>1 DEF Positions
<1>3. IsFiniteSet(1 .. n) /\ IsFiniteSet(1 .. m)
  BY <1>1, FS_Interval
<1>4. IsFiniteSet(A) /\ IsFiniteSet(B)
  <2> HIDE DEF A, B, n, m
  <2>1. QED
    BY <1>2, <1>3, FS_Subset
<1>5. ExistsBijection(B, T)
  <2>1. shift \in [B -> T] /\ \A t \in T : \E i \in B : shift[i] = t
    OBVIOUS
  <2>2. \A i, j \in B : shift[i] = shift[j] => i = j
    BY <1>1, <1>2
  <2> HIDE DEF shift, T, B
  <2>3. shift \in Bijection(B, T)
    BY <2>1, <2>2 DEF Bijection, Injection, Surjection, IsInjective
  <2>4. QED
    BY <2>3 DEF ExistsBijection
<1>6. IsFiniteSet(T) /\ Cardinality(T) = Cardinality(B)
  <2> HIDE DEF T, B
  <2>1. QED
    BY <1>4, <1>5, FS_Bijection
<1>7. A \cap T = {}
  BY <1>1, <1>2
<1>8. Positions(a \o b, e) = A \cup T
  <2>1. DOMAIN (a \o b) = 1 .. n + m
    OBVIOUS
  <2>2. \A i \in 1 .. n : (a \o b)[i] = a[i]
    OBVIOUS
  <2>3. \A i \in 1 .. m : (a \o b)[n + i] = b[i]
    OBVIOUS
  <2>4. \A i \in 1 .. n + m : i \in 1 .. n \/ (i - n \in 1 .. m /\ n + (i - n) = i)
    BY <1>1
  <2>5. ASSUME NEW i \in Positions(a \o b, e)
        PROVE  i \in A \cup T
    <3>1. i \in 1 .. n + m /\ (a \o b)[i] = e
      BY <2>1 DEF Positions
    <3>2. CASE i \in 1 .. n
      BY <1>1, <2>2, <3>1, <3>2 DEF Positions
    <3>3. CASE i - n \in 1 .. m /\ n + (i - n) = i
      <4>1. b[i - n] = e
        BY <2>3, <3>1, <3>3
      <4>2. i - n \in B
        BY <1>1, <3>3, <4>1 DEF Positions
      <4>3. QED
        BY <3>3, <4>2
    <3>4. QED
      BY <2>4, <3>1, <3>2, <3>3
  <2>6. ASSUME NEW i \in A
        PROVE  i \in Positions(a \o b, e)
    BY <1>1, <2>1, <2>2 DEF Positions
  <2>7. ASSUME NEW i \in B
        PROVE  n + i \in Positions(a \o b, e)
    <3>1. i \in 1 .. m /\ b[i] = e
      BY <1>1 DEF Positions
    <3>2. n + i \in 1 .. n + m
      BY <1>1, <3>1
    <3>3. QED
      BY <2>1, <2>3, <3>1, <3>2 DEF Positions
  <2>8. QED
    BY <2>5, <2>6, <2>7
<1>9. Cardinality(A \cup T) = Cardinality(A) + Cardinality(B)
  <2>1. Cardinality(A \cap T) = 0
    BY <1>7, FS_EmptySet
  <2> HIDE DEF A, T, B
  <2>2. Cardinality(A) \in Nat /\ Cardinality(T) \in Nat
    BY <1>4, <1>6, FS_CardinalityType
  <2>3. Cardinality(A \cup T) = Cardinality(A) + Cardinality(T) - Cardinality(A \cap T)
    BY <1>4, <1>6, FS_Union
  <2>4. QED
    BY <1>6, <2>1, <2>2, <2>3
<1>10. Cardinality(A) \in Nat /\ Cardinality(B) \in Nat
  <2> HIDE DEF A, B
  <2>1. QED
    BY <1>4, FS_CardinalityType
<1>11. QED
  <2> HIDE DEF A, B, T
  <2>1. QED
    BY <1>8, <1>9, <1>10 DEF Count, A, B

(***************************************************************************)
(* The empty sequence has no events, a sequence of one has one, and one of *)
(* other events none.                                                      *)
(***************************************************************************)
LEMMA CountSmall ==
    /\ \A e : Count(<<>>, e) = 0
    /\ \A d, e : Count(<<d>>, e) = IF d = e THEN 1 ELSE 0
    /\ \A V, e : e \notin V => \A q \in Seq(V) : Count(q, e) = 0
<1>1. ASSUME NEW e
      PROVE  Count(<<>>, e) = 0
  <2>1. Positions(<<>>, e) = {}
    BY DEF Positions
  <2>2. QED
    BY <2>1, FS_EmptySet DEF Count
<1>2. ASSUME NEW d, NEW e
      PROVE  Count(<<d>>, e) = IF d = e THEN 1 ELSE 0
  <2>1. CASE d = e
    <3>1. Positions(<<d>>, e) = {1}
      BY <2>1 DEF Positions
    <3>2. QED
      BY <2>1, <3>1, FS_Singleton DEF Count
  <2>2. CASE d # e
    <3>1. Positions(<<d>>, e) = {}
      BY <2>2 DEF Positions
    <3>2. QED
      BY <2>2, <3>1, FS_EmptySet DEF Count
  <2>3. QED
    BY <2>1, <2>2
<1>3. ASSUME NEW V, NEW e, e \notin V, NEW q \in Seq(V)
      PROVE  Count(q, e) = 0
  <2>1. Positions(q, e) = {}
    BY <1>3 DEF Positions
  <2>2. QED
    BY <2>1, FS_EmptySet DEF Count
<1>4. QED
  BY <1>1, <1>2, <1>3

(***************************************************************************)
(* Sequences put together one part after the other, in either order.       *)
(***************************************************************************)
Forward(f, N, part) == [i \in 0 .. N |-> IF i = 0 THEN <<>> ELSE f[i - 1] \o part[i]]
Backward(f, N, part) == [i \in 0 .. N |-> IF i = 0 THEN <<>> ELSE part[i] \o f[i - 1]]

(***************************************************************************)
(* Both recursions define a function.                                      *)
(***************************************************************************)
LEMMA ConcatRecursion ==
    ASSUME NEW N \in Nat, NEW V, NEW part \in [1 .. N -> Seq(V)]
    PROVE  /\ \E f : f = Forward(f, N, part)
           /\ \E f : f = Backward(f, N, part)
<1> DEFINE forth == [p \in (1 .. N) \X Seq(V) |-> p[2] \o part[p[1]]]
           back == [p \in (1 .. N) \X Seq(V) |-> part[p[1]] \o p[2]]
<1>1. <<>> \in Seq(V)
  OBVIOUS
<1>2. forth \in [(1 .. N) \X Seq(V) -> Seq(V)] /\ back \in [(1 .. N) \X Seq(V) -> Seq(V)]
  <2>1. \A i \in 1 .. N, q \in Seq(V) : q \o part[i] \in Seq(V) /\ part[i] \o q \in Seq(V)
    OBVIOUS
  <2>2. QED
    BY <2>1
<1>3. PICK f : IsRecursive(f, N, Seq(V), <<>>, forth)
  <2> HIDE DEF forth, back
  <2>1. QED
    BY <1>1, <1>2, FiniteRecursion
<1>4. PICK b : IsRecursive(b, N, Seq(V), <<>>, back)
  <2> HIDE DEF forth, back
  <2>1. QED
    BY <1>1, <1>2, FiniteRecursion
<1>5. \A n \in 1 .. N : /\ f[n] = f[n - 1] \o part[n]
                        /\ b[n] = part[n] \o b[n - 1]
  <2> SUFFICES ASSUME NEW n \in 1 .. N
               PROVE  f[n] = f[n - 1] \o part[n] /\ b[n] = part[n] \o b[n - 1]
    OBVIOUS
  <2>1. n - 1 \in 0 .. N
    OBVIOUS
  <2>2. f[n - 1] \in Seq(V) /\ b[n - 1] \in Seq(V)
    BY <1>3, <1>4, <2>1 DEF IsRecursive
  <2>3. /\ forth[<<n, f[n - 1]>>] = f[n - 1] \o part[n]
        /\ back[<<n, b[n - 1]>>] = part[n] \o b[n - 1]
    BY <2>2
  <2>4. QED
    BY <1>3, <1>4, <2>3 DEF IsRecursive
<1> HIDE DEF forth, back
<1>6. /\ f = [i \in 0 .. N |-> f[i]] /\ f[0] = <<>>
      /\ b = [i \in 0 .. N |-> b[i]] /\ b[0] = <<>>
  BY <1>3, <1>4 DEF IsRecursive
<1>7. ASSUME NEW i \in 0 .. N
      PROVE  /\ f[i] = (IF i = 0 THEN <<>> ELSE f[i - 1] \o part[i])
             /\ b[i] = (IF i = 0 THEN <<>> ELSE part[i] \o b[i - 1])
  <2>1. i # 0 => i \in 1 .. N
    OBVIOUS
  <2>2. QED
    BY <1>5, <1>6, <2>1
<1>8. f = Forward(f, N, part)
  BY <1>6, <1>7 DEF Forward
<1>9. b = Backward(b, N, part)
  BY <1>6, <1>7 DEF Backward
<1>10. QED
  BY <1>8, <1>9

Appends(f, N, part) == f[0] = <<>> /\ \A i \in 1 .. N : f[i] = f[i - 1] \o part[i]
Prepends(f, N, part) == f[0] = <<>> /\ \A i \in 1 .. N : f[i] = part[i] \o f[i - 1]

(***************************************************************************)
(* Each step of one that goes forward appends its part.                    *)
(***************************************************************************)
LEMMA ForwardStep ==
    ASSUME NEW N \in Nat, NEW part, NEW f, f = Forward(f, N, part)
    PROVE  Appends(f, N, part)
<1> DEFINE B(i) == IF i = 0 THEN <<>> ELSE f[i - 1] \o part[i]
<1>1. f = [i \in 0 .. N |-> B(i)]
  BY DEF Forward
<1> HIDE DEF B
<1>2. \A i \in 0 .. N : f[i] = B(i)
  BY <1>1
<1>3. 0 \in 0 .. N /\ \A i \in 1 .. N : i \in 0 .. N /\ i # 0
  OBVIOUS
<1>4. f[0] = B(0) /\ \A i \in 1 .. N : f[i] = B(i)
  BY <1>2, <1>3
<1>5. QED
  BY <1>3, <1>4 DEF B, Appends

(***************************************************************************)
(* Each step of one that goes backward puts its part in front.             *)
(***************************************************************************)
LEMMA BackwardStep ==
    ASSUME NEW N \in Nat, NEW part, NEW f, f = Backward(f, N, part)
    PROVE  Prepends(f, N, part)
<1> DEFINE B(i) == IF i = 0 THEN <<>> ELSE part[i] \o f[i - 1]
<1>1. f = [i \in 0 .. N |-> B(i)]
  BY DEF Backward
<1> HIDE DEF B
<1>2. \A i \in 0 .. N : f[i] = B(i)
  BY <1>1
<1>3. 0 \in 0 .. N /\ \A i \in 1 .. N : i \in 0 .. N /\ i # 0
  OBVIOUS
<1>4. f[0] = B(0) /\ \A i \in 1 .. N : f[i] = B(i)
  BY <1>2, <1>3
<1>5. QED
  BY <1>3, <1>4 DEF B, Prepends

(***************************************************************************)
(* Parts with elements of V make sequences with elements of V.             *)
(***************************************************************************)
LEMMA ConcatTyped ==
    ASSUME NEW N \in Nat, NEW V, NEW part \in [1 .. N -> Seq(V)], NEW f,
           f = Forward(f, N, part) \/ f = Backward(f, N, part)
    PROVE  \A i \in 0 .. N : f[i] \in Seq(V)
<1>1. /\ f[0] = <<>>
      /\ \A i \in 1 .. N : f[i] = f[i - 1] \o part[i] \/ f[i] = part[i] \o f[i - 1]
  <2>1. CASE f = Forward(f, N, part)
    <3>1. Appends(f, N, part)
      BY <2>1, ForwardStep
    <3>2. QED
      BY <3>1 DEF Appends
  <2>2. CASE f = Backward(f, N, part)
    <3>1. Prepends(f, N, part)
      BY <2>2, BackwardStep
    <3>2. QED
      BY <3>1 DEF Prepends
  <2>3. QED
    BY <2>1, <2>2
<1> DEFINE S == {n \in 0 .. N : f[n] \in Seq(V)}
<1>3. 0 \in S
  <2>1. <<>> \in Seq(V) /\ 0 \in 0 .. N
    OBVIOUS
  <2>2. QED
    BY <1>1, <2>1
<1>4. ASSUME NEW n \in 0 .. N - 1, n \in S
      PROVE  n + 1 \in S
  <2>1. n + 1 \in 1 .. N /\ n + 1 \in 0 .. N /\ (n + 1) - 1 = n
    OBVIOUS
  <2>2. f[n + 1] = f[n] \o part[n + 1] \/ f[n + 1] = part[n + 1] \o f[n]
    BY <1>1, <2>1
  <2>3. f[n] \in Seq(V) /\ part[n + 1] \in Seq(V)
    BY <1>4, <2>1
  <2>4. f[n + 1] \in Seq(V)
    <3>1. \A x, y \in Seq(V) : x \o y \in Seq(V)
      OBVIOUS
    <3>2. QED
      BY <2>2, <2>3, <3>1
  <2>5. QED
    BY <2>1, <2>4
<1> HIDE DEF S
<1>5. 0 .. N \subseteq S
  BY <1>3, <1>4, IntervalInduction
<1>6. \A i \in 0 .. N : f[i] \in Seq(V)
  BY <1>5 DEF S
<1>7. QED
  BY <1>6

(***************************************************************************)
(* What leaving states raises is content.                                  *)
(***************************************************************************)
LEMMA ExitEventsContent ==
    ASSUME ContentNotDone, NEW exit
    PROVE  ExitEvents(exit) \in Seq(ContentEvents)
<1> DEFINE N == NumStates
           part == [i \in 1 .. N |-> IF i - 1 \in exit THEN OnExit[i - 1] ELSE <<>>]
           Rec(f) == [i \in 0 .. N |-> IF i = 0 THEN <<>>
                         ELSE (IF i - 1 \in exit THEN OnExit[i - 1] ELSE <<>>) \o f[i - 1]]
           pass == CHOOSE f : f = Rec(f)
<1>1. ExitEvents(exit) = pass[N]
  BY DEF ExitEvents
<1>2. N \in Nat /\ States = 0 .. N - 1
  BY Tables DEF States
<1>3. part \in [1 .. N -> Seq(ContentEvents)]
  <2>1. \A i \in 1 .. N : OnExit[i - 1] \in Seq(ContentEvents)
    BY <1>2 DEF ContentNotDone
  <2>2. QED
    BY <2>1
<1>4. ASSUME NEW f
      PROVE  Rec(f) = Backward(f, N, part)
  BY <1>2 DEF Backward
<1> HIDE DEF part, Rec, N
<1>5. PICK f : f = Backward(f, N, part)
  BY <1>2, <1>3, ConcatRecursion
<1>6. pass = Rec(pass)
  BY <1>4, <1>5
<1> HIDE DEF pass
<1>7. pass = Backward(pass, N, part)
  BY <1>4, <1>6
<1>8. \A i \in 0 .. N : pass[i] \in Seq(ContentEvents)
  BY <1>2, <1>3, <1>7, ConcatTyped
<1>9. QED
  BY <1>1, <1>2, <1>8

(***************************************************************************)
(* So is what following transitions raises.                                *)
(***************************************************************************)
LEMMA TransEventsContent ==
    ASSUME ContentNotDone, NEW set
    PROVE  TransEvents(set) \in Seq(ContentEvents)
<1> DEFINE N == Len(Trans)
           part == [t \in 1 .. N |-> IF t \in set THEN Trans[t].raises ELSE <<>>]
           Rec(f) == [t \in 0 .. N |-> IF t = 0 THEN <<>>
                         ELSE f[t - 1] \o (IF t \in set THEN Trans[t].raises ELSE <<>>)]
           pass == CHOOSE f : f = Rec(f)
<1>1. TransEvents(set) = pass[N]
  BY DEF TransEvents
<1>2. N \in Nat /\ TransIdx = 1 .. N
  BY LenTrans
<1>3. part \in [1 .. N -> Seq(ContentEvents)]
  BY <1>2 DEF ContentNotDone
<1>4. ASSUME NEW f
      PROVE  Rec(f) = Forward(f, N, part)
  BY <1>2 DEF Forward
<1> HIDE DEF part, Rec, N
<1>5. PICK f : f = Forward(f, N, part)
  BY <1>2, <1>3, ConcatRecursion
<1>6. pass = Rec(pass)
  BY <1>4, <1>5
<1> HIDE DEF pass
<1>7. pass = Forward(pass, N, part)
  BY <1>4, <1>6
<1>8. \A i \in 0 .. N : pass[i] \in Seq(ContentEvents)
  BY <1>2, <1>3, <1>7, ConcatTyped
<1>9. QED
  BY <1>1, <1>2, <1>8

-----------------------------------------------------------------------------
(* The done events of one <final>. *)

(***************************************************************************)
(* A region of q is a child of q or of a region of q, in either case of a  *)
(* parallel state.                                                         *)
(***************************************************************************)
LEMMA RegionParent ==
    ASSUME NEW q \in States, NEW s \in States
    PROVE  /\ s \in RegionTree(q) <=>
                 /\ s # 0 /\ Type[Parent[s]] = "parallel"
                 /\ Parent[s] = q \/ Parent[s] \in RegionTree(q)
           /\ q \notin RegionTree(q)
<1>1. ASSUME s \in RegionTree(q)
      PROVE  /\ s # 0 /\ Type[Parent[s]] = "parallel"
             /\ Parent[s] = q \/ Parent[s] \in RegionTree(q)
  <2>1. s \in Descendants[q] /\ Type[q] = "parallel"
    BY <1>1, RegionTreeParts
  <2>2. s # 0
    BY <2>1, Nested, Tables
  <2>3. /\ Parent[s] \in States /\ s \in Descendants[Parent[s]]
        /\ Parent[s] = q \/ Parent[s] \in Descendants[q]
    BY <2>1, <2>2, ParentInnermost
  <2>4. QED
    BY <1>1, <2>1, <2>2, <2>3, RegionTreeParts
<1>2. ASSUME s # 0, Type[Parent[s]] = "parallel", Parent[s] = q \/ Parent[s] \in RegionTree(q)
      PROVE  s \in RegionTree(q)
  <2>1. Parent[s] \in States /\ s \in Children[Parent[s]]
    BY <1>2, ParentInnermost
  <2>2. s \in RegionTree(Parent[s])
    BY <1>2, <2>1, RegionTreeParts
  <2>3. QED
    BY <1>2, <2>2, RegionTreeParts
<1>3. q \notin RegionTree(q)
  <2>1. q \notin Descendants[q]
    BY Nested, Tables
  <2>2. QED
    BY <2>1, RegionTreeParts
<1>4. QED
  BY <1>1, <1>2, <1>3

(***************************************************************************)
(* Sequences put together on the way from a state to the first of "stop".  *)
(***************************************************************************)
Upward(f, own, stop) == [s \in States |-> IF s \in stop THEN <<>> ELSE own[s] \o f[Parent[s]]]

(***************************************************************************)
(* This recursion defines a function too: the parent of a state comes      *)
(* before it.                                                              *)
(***************************************************************************)
LEMMA UpwardRecursion ==
    ASSUME NEW V, NEW own \in [States -> Seq(V)], NEW stop, 0 \in stop
    PROVE  \E f \in [States -> Seq(V)] : f = Upward(f, own, stop)
<1> DEFINE N == NumStates
           W == [States -> Seq(V)]
           next == [p \in (1 .. N) \X W |-> Upward(p[2], own, stop)]
           none == [s \in States |-> <<>>]
<1>1. N \in Nat /\ States = 0 .. N - 1
  BY Tables DEF States
<1>2. ASSUME NEW s \in States, s \notin stop
      PROVE  Parent[s] \in States /\ Parent[s] < s
  <2>1. s # 0
    BY <1>2
  <2>2. Parent[s] \in States /\ s \in Descendants[Parent[s]]
    BY <2>1, ParentInnermost
  <2>3. QED
    BY <2>2, Nested
<1>3. none \in W
  <2>1. <<>> \in Seq(V)
    OBVIOUS
  <2>2. QED
    BY <2>1
<1>4. ASSUME NEW f \in W
      PROVE  Upward(f, own, stop) \in W
  <2>1. ASSUME NEW s \in States
        PROVE  (IF s \in stop THEN <<>> ELSE own[s] \o f[Parent[s]]) \in Seq(V)
    <3>1. CASE s \in stop
      BY <3>1
    <3>2. CASE s \notin stop
      <4>1. own[s] \in Seq(V) /\ f[Parent[s]] \in Seq(V)
        BY <1>2, <3>2
      <4>2. QED
        BY <3>2, <4>1
    <3>3. QED
      BY <3>1, <3>2
  <2>2. QED
    BY <2>1 DEF Upward
<1>5. next \in [(1 .. N) \X W -> W]
  <2> HIDE DEF W
  <2>1. QED
    BY <1>4
<1>6. PICK g : IsRecursive(g, N, W, none, next)
  <2> HIDE DEF W, none, next
  <2>1. QED
    BY <1>1, <1>3, <1>5, FiniteRecursion
<1>7. g \in [0 .. N -> W]
  BY <1>6 DEF IsRecursive
<1>8. ASSUME NEW n \in 1 .. N
      PROVE  g[n] = Upward(g[n - 1], own, stop)
  <2>1. g[n] = next[<<n, g[n - 1]>>]
    BY <1>6 DEF IsRecursive
  <2>2. n - 1 \in 0 .. N
    BY <1>1
  <2>3. g[n - 1] \in W
    BY <1>7, <2>2
  <2> HIDE DEF W
  <2>4. QED
    BY <2>1, <2>3
<1> HIDE DEF W, none, next
<1> DEFINE Settled(n) == \A s \in States : s < n =>
                            g[n][s] = IF s \in stop THEN <<>> ELSE own[s] \o g[n][Parent[s]]
           S == {n \in 0 .. N : Settled(n)}
<1>9. 0 \in S
  BY <1>1
<1>10. ASSUME NEW n \in 0 .. N - 1, n \in S
       PROVE  n + 1 \in S
  <2>1. n + 1 \in 1 .. N /\ n + 1 \in 0 .. N /\ (n + 1) - 1 = n /\ n \in 0 .. N
    BY <1>1
  <2>2. g[n + 1] = Upward(g[n], own, stop)
    BY <1>8, <2>1
  <2>3. \A s \in States : g[n + 1][s] = IF s \in stop THEN <<>> ELSE own[s] \o g[n][Parent[s]]
    BY <2>2 DEF Upward
  <2>4. Settled(n)
    BY <1>10
  <2>5. ASSUME NEW s \in States, s < n + 1, s \notin stop
        PROVE  g[n + 1][Parent[s]] = g[n][Parent[s]]
    <3>1. Parent[s] \in States /\ Parent[s] < n
      BY <1>1, <1>2, <2>1, <2>5
    <3>2. QED
      BY <2>3, <2>4, <3>1
  <2>6. Settled(n + 1)
    BY <2>3, <2>5
  <2> HIDE DEF Settled
  <2>7. QED
    BY <2>1, <2>6
<1>11. Settled(N)
  <2> HIDE DEF S
  <2>1. 0 .. N \subseteq S
    BY <1>1, <1>9, <1>10, IntervalInduction
  <2>2. N \in S
    BY <1>1, <2>1
  <2>3. QED
    BY <2>2 DEF S
<1>12. g[N] \in [States -> Seq(V)]
  BY <1>1, <1>7 DEF W
<1>13. ASSUME NEW s \in States
       PROVE  g[N][s] = IF s \in stop THEN <<>> ELSE own[s] \o g[N][Parent[s]]
  BY <1>1, <1>11
<1>14. g[N] = Upward(g[N], own, stop)
  <2> DEFINE h == g[N]
  <2>1. h \in [States -> Seq(V)]
    BY <1>12
  <2>2. \A s \in States : h[s] = IF s \in stop THEN <<>> ELSE own[s] \o h[Parent[s]]
    BY <1>13
  <2> HIDE DEF h
  <2>3. h = Upward(h, own, stop)
    BY <2>1, <2>2 DEF Upward
  <2>4. QED
    BY <2>3 DEF h
<1>15. QED
  BY <1>12, <1>14

AnyEvent == ContentEvents \cup {DoneEvent(q) : q \in States}

(***************************************************************************)
(* Done events of different states are different, and none is raised by    *)
(* executable content.                                                     *)
(***************************************************************************)
LEMMA DoneEventOf ==
    /\ \A q \in States : DoneEvent(q) \in AnyEvent /\ DoneEvent(q) \notin ContentEvents
    /\ \A q, r \in States : DoneEvent(q) = DoneEvent(r) <=> q = r
    /\ ContentEvents \subseteq AnyEvent
<1>1. \A q \in States : DoneEvent(q).of = q /\ DoneEvent(q).name = "done.state"
  BY DEF DoneEvent
<1>2. \A q, r \in States : DoneEvent(q) = DoneEvent(r) <=> q = r
  BY <1>1
<1>3. \A q \in States : DoneEvent(q) \notin ContentEvents
  BY <1>1 DEF ContentEvents
<1>4. QED
  BY <1>2, <1>3 DEF AnyEvent

(***************************************************************************)
(* DoneEvents raises the event of the parent of the <final> once, unless   *)
(* that is <scxml>, that of a parallel state with the parent among its     *)
(* regions once if nothing remains of it, and no other.                    *)
(***************************************************************************)
LEMMA DoneEventsCount ==
    ASSUME NEW f \in States, f # 0, NEW c, NEW q \in States
    PROVE  /\ DoneEvents(f, c) \in Seq(AnyEvent)
           /\ Count(DoneEvents(f, c), DoneEvent(q)) =
                 (IF Parent[f] = q /\ q # 0 THEN 1 ELSE 0)
                   + (IF Parent[f] \in RegionTree(q) /\ RemainingOf(q, c) = {} THEN 1 ELSE 0)
<1> DEFINE stop == {s \in States : s = 0 \/ Type[Parent[s]] # "parallel"}
           mine(s) == IF RemainingOf(Parent[s], c) = {} THEN <<DoneEvent(Parent[s])>> ELSE <<>>
           own == [s \in States |-> IF s \in stop THEN <<>> ELSE mine(s)]
           Rec(g) == [s \in States |-> IF s = 0 \/ Type[Parent[s]] # "parallel" THEN <<>>
                                       ELSE mine(s) \o g[Parent[s]]]
           climb == CHOOSE g : g = Rec(g)
           Is(s) == IF s \in RegionTree(q) /\ RemainingOf(q, c) = {} THEN 1 ELSE 0
<1>1. DoneEvents(f, c) = IF Ancestors[f] = {0} THEN <<>> ELSE <<DoneEvent(Parent[f])>> \o climb[Parent[f]]
  BY DEF DoneEvents
<1>2. 0 \in stop
  BY Tables
<1>3. ASSUME NEW s \in States, s \notin stop
      PROVE  /\ Parent[s] \in States /\ Parent[s] < s
             /\ Type[Parent[s]] = "parallel" /\ s # 0
             /\ mine(s) \in Seq(AnyEvent)
  <2>1. s # 0 /\ Type[Parent[s]] = "parallel"
    BY <1>3
  <2>2. Parent[s] \in States /\ s \in Descendants[Parent[s]]
    BY <2>1, ParentInnermost
  <2>3. mine(s) \in Seq(AnyEvent)
    BY <2>2, DoneEventOf
  <2>4. QED
    BY <2>1, <2>2, <2>3, Nested
<1>4. own \in [States -> Seq(AnyEvent)]
  <2>1. ASSUME NEW s \in States
        PROVE  (IF s \in stop THEN <<>> ELSE mine(s)) \in Seq(AnyEvent)
    <3> HIDE DEF stop, mine
    <3>1. QED
      BY <1>3
  <2> HIDE DEF stop, mine
  <2>2. QED
    BY <2>1
<1>5. ASSUME NEW g
      PROVE  Rec(g) = Upward(g, own, stop)
  <2>1. ASSUME NEW s \in States
        PROVE  (IF s = 0 \/ Type[Parent[s]] # "parallel" THEN <<>> ELSE mine(s) \o g[Parent[s]])
               = (IF s \in stop THEN <<>> ELSE own[s] \o g[Parent[s]])
    <3> HIDE DEF mine
    <3>1. QED
      OBVIOUS
  <2> HIDE DEF mine, own, stop
  <2>2. QED
    BY <2>1 DEF Upward
<1>6. ASSUME NEW s \in States, s \notin stop
      PROVE  own[s] = mine(s)
  BY <1>6
<1>7. ASSUME NEW s \in States
      PROVE  s \in stop <=> s = 0 \/ Type[Parent[s]] # "parallel"
  OBVIOUS
<1> HIDE DEF Rec, own, stop
<1>8. \E g : g = Rec(g)
  <2>1. PICK g \in [States -> Seq(AnyEvent)] : g = Upward(g, own, stop)
    BY <1>2, <1>4, UpwardRecursion
  <2>2. QED
    BY <1>5, <2>1
<1>9. climb = Rec(climb)
  BY <1>8
<1>10. climb = Upward(climb, own, stop)
  BY <1>5, <1>9
<1> HIDE DEF climb
<1>11. ASSUME NEW s \in States
       PROVE  climb[s] = IF s \in stop THEN <<>> ELSE own[s] \o climb[Parent[s]]
  BY <1>10 DEF Upward
<1> DEFINE Good(s) == climb[s] \in Seq(AnyEvent) /\ Count(climb[s], DoneEvent(q)) = Is(s)
           Bad == {s \in States : ~Good(s)}
<1>12. ASSUME NEW s \in States, s \notin stop => Good(Parent[s])
       PROVE  Good(s)
  <2>1. CASE s \in stop
    <3>1. climb[s] = <<>>
      BY <1>11, <2>1
    <3>2. s \notin RegionTree(q)
      BY <1>7, <2>1, RegionParent
    <3>3. QED
      BY <3>1, <3>2, CountSmall
  <2>2. CASE s \notin stop
    <3> DEFINE P == Parent[s]
    <3>1. P \in States /\ mine(s) \in Seq(AnyEvent) /\ s # 0 /\ Type[P] = "parallel"
      BY <1>3, <2>2
    <3>2. climb[s] = mine(s) \o climb[P]
      BY <1>6, <1>11, <2>2
    <3>3. climb[P] \in Seq(AnyEvent) /\ Count(climb[P], DoneEvent(q)) = Is(P)
      BY <1>12, <2>2
    <3>4. Count(mine(s), DoneEvent(q)) = IF P = q /\ RemainingOf(q, c) = {} THEN 1 ELSE 0
      BY <3>1, CountSmall, DoneEventOf
    <3>5. (s \in RegionTree(q) <=> P = q \/ P \in RegionTree(q)) /\ q \notin RegionTree(q)
      BY <3>1, RegionParent
    <3> HIDE DEF mine, P
    <3>6. climb[s] \in Seq(AnyEvent)
      BY <3>1, <3>2, <3>3
    <3>7. Count(climb[s], DoneEvent(q)) = Count(mine(s), DoneEvent(q)) + Count(climb[P], DoneEvent(q))
      BY <3>1, <3>2, <3>3, CountConcat
    <3>8. QED
      BY <3>3, <3>4, <3>5, <3>6, <3>7
  <2>3. QED
    BY <2>1, <2>2
<1>13. Bad = {}
  <2> SUFFICES ASSUME Bad # {}
               PROVE  FALSE
    OBVIOUS
  <2>1. Bad \in SUBSET Nat
    BY Tables
  <2> HIDE DEF Good
  <2>2. PICK s \in Bad : \A r \in Bad : s <= r
    <3> HIDE DEF Bad
    <3>1. QED
      BY <2>1, LeastElement
  <2>3. s \in States /\ ~Good(s) /\ s \in Nat
    BY <2>1
  <2>4. s \notin stop => Good(Parent[s])
    <3> SUFFICES ASSUME s \notin stop
                 PROVE  Good(Parent[s])
      OBVIOUS
    <3>1. Parent[s] \in States /\ Parent[s] < s
      BY <1>3, <2>3
    <3>2. Parent[s] \in Nat
      BY <3>1, Tables
    <3>3. QED
      BY <2>2, <2>3, <3>1, <3>2
  <2>5. QED
    BY <1>12, <2>3, <2>4
<1>14. Parent[f] \in States /\ f \in Children[Parent[f]] /\ f \in Descendants[Parent[f]]
  BY ParentInnermost
<1>15. Ancestors[f] = {0} <=> Parent[f] = 0
  <2>1. Ancestors[f] = Ancestors[Parent[f]] \cup {Parent[f]}
    BY <1>14, AncestorsOfChild
  <2>2. Ancestors[0] = {}
    <3>1. 0 \in States /\ Ancestors[0] = {a \in States : 0 \in Descendants[a]}
      BY Tables
    <3>2. \A a \in States : 0 \notin Descendants[a]
      BY <3>1, Nested, Tables
    <3>3. QED
      BY <3>1, <3>2
  <2>3. QED
    BY <2>1, <2>2
<1>16. Type[0] # "parallel" /\ RegionTree(0) = {}
  BY RegionTreeParts, Tables, TypeAssumption
<1>17. CASE Parent[f] = 0
  <2>1. DoneEvents(f, c) = <<>>
    BY <1>1, <1>15, <1>17
  <2>2. Parent[f] \notin RegionTree(q)
    BY <1>17, RegionParent, Tables
  <2>3. QED
    BY <1>17, <2>1, <2>2, CountSmall
<1>18. CASE Parent[f] # 0
  <2> DEFINE A == Parent[f]
             one == <<DoneEvent(A)>>
  <2>1. DoneEvents(f, c) = one \o climb[A]
    BY <1>1, <1>15, <1>18
  <2>2. one \in Seq(AnyEvent)
    BY <1>14, DoneEventOf
  <2>3. climb[A] \in Seq(AnyEvent) /\ Count(climb[A], DoneEvent(q)) = Is(A)
    BY <1>13, <1>14
  <2>4. Count(one, DoneEvent(q)) = IF A = q THEN 1 ELSE 0
    BY <1>14, CountSmall, DoneEventOf
  <2> HIDE DEF A, one
  <2>5. DoneEvents(f, c) \in Seq(AnyEvent)
    BY <2>1, <2>2, <2>3
  <2>6. Count(DoneEvents(f, c), DoneEvent(q)) =
           Count(one, DoneEvent(q)) + Count(climb[A], DoneEvent(q))
    BY <2>1, <2>2, <2>3, CountConcat
  <2>7. A # 0
    BY <1>18 DEF A
  <2>8. Count(DoneEvents(f, c), DoneEvent(q)) = (IF A = q /\ q # 0 THEN 1 ELSE 0) + Is(A)
    BY <2>3, <2>4, <2>6, <2>7
  <2>9. QED
    BY <2>5, <2>8 DEF A
<1>19. QED
  BY <1>17, <1>18

-----------------------------------------------------------------------------
(* The done events of a microstep. *)

PartsWith(part, N, e) == {s \in 0 .. N - 1 : Count(part[s + 1], e) = 1}

(***************************************************************************)
(* Of parts with at most one such event each, as many have one as the      *)
(* whole has.                                                              *)
(***************************************************************************)
LEMMA ConcatCount ==
    ASSUME NEW N \in Nat, NEW V, NEW part \in [1 .. N -> Seq(V)], NEW e,
           \A i \in 1 .. N : Count(part[i], e) \in {0, 1},
           NEW f, f = Forward(f, N, part)
    PROVE  Count(f[N], e) = Cardinality(PartsWith(part, N, e))
<1> DEFINE H(n) == {s \in 0 .. n - 1 : Count(part[s + 1], e) = 1}
           S == {n \in 0 .. N : IsFiniteSet(H(n)) /\ Count(f[n], e) = Cardinality(H(n))}
<1>1. f[0] = <<>> /\ \A i \in 1 .. N : f[i] = f[i - 1] \o part[i]
  BY ForwardStep DEF Appends
<1>2. \A i \in 0 .. N : f[i] \in Seq(V)
  BY ConcatTyped
<1>3. 0 \in S
  <2>1. H(0) = {}
    OBVIOUS
  <2> HIDE DEF H
  <2>2. Count(<<>>, e) = 0
    BY CountSmall
  <2>3. IsFiniteSet({}) /\ Cardinality({}) = 0
    BY FS_EmptySet
  <2>4. 0 \in 0 .. N
    OBVIOUS
  <2>5. IsFiniteSet(H(0)) /\ Count(f[0], e) = Cardinality(H(0))
    BY <1>1, <2>1, <2>2, <2>3
  <2>6. QED
    BY <2>4, <2>5
<1>4. ASSUME NEW n \in 0 .. N - 1, n \in S
      PROVE  n + 1 \in S
  <2>1. n + 1 \in 1 .. N /\ n + 1 \in 0 .. N /\ (n + 1) - 1 = n /\ n \in 0 .. N /\ n \in Nat
    OBVIOUS
  <2>2. f[n + 1] = f[n] \o part[n + 1]
    BY <1>1, <2>1
  <2>3. f[n] \in Seq(V) /\ part[n + 1] \in Seq(V)
    BY <1>2, <2>1
  <2>4. IsFiniteSet(H(n)) /\ Count(f[n], e) = Cardinality(H(n))
    BY <1>4
  <2>5. Count(part[n + 1], e) \in {0, 1}
    BY <2>1
  <2>6. Count(part[n + 1], e) = 1 => n \notin H(n) /\ H(n + 1) = H(n) \cup {n}
    BY <2>1
  <2>7. Count(part[n + 1], e) = 0 => H(n + 1) = H(n)
    BY <2>1
  <2> HIDE DEF H
  <2>8. Count(f[n + 1], e) = Count(f[n], e) + Count(part[n + 1], e) /\ Count(f[n], e) \in Nat
    BY <2>2, <2>3, CountConcat
  <2>9. CASE Count(part[n + 1], e) = 1
    <3>1. IsFiniteSet(H(n) \cup {n}) /\ Cardinality(H(n) \cup {n}) = Cardinality(H(n)) + 1
      BY <2>4, <2>6, <2>9, FS_AddElement
    <3>2. QED
      BY <2>1, <2>4, <2>6, <2>8, <2>9, <3>1
  <2>10. CASE Count(part[n + 1], e) = 0
    BY <2>1, <2>4, <2>7, <2>8, <2>10
  <2>11. QED
    BY <2>5, <2>9, <2>10
<1>5. N \in S
  <2> HIDE DEF S
  <2>1. 0 .. N \subseteq S
    BY <1>3, <1>4, IntervalInduction
  <2>2. QED
    BY <2>1
<1>6. QED
  BY <1>5 DEF PartsWith

(***************************************************************************)
(* What is active once s has been entered.                                 *)
(***************************************************************************)
EnteredUpTo(kept, entered, s) == kept \cup {i \in entered : i <= s}

(***************************************************************************)
(* The states whose entry raises the done event of q.                      *)
(***************************************************************************)
Completing(q, kept, entered) ==
    {s \in entered :
        /\ Type[s] = "final"
        /\ \/ Parent[s] = q /\ q # 0
           \/ Parent[s] \in RegionTree(q) /\ RemainingOf(q, EnteredUpTo(kept, entered, s)) = {}}

(***************************************************************************)
(* Content is not a done event.                                            *)
(***************************************************************************)
LEMMA NoneInContent ==
    ASSUME NEW x \in Seq(ContentEvents), NEW q \in States
    PROVE  x \in Seq(AnyEvent) /\ Count(x, DoneEvent(q)) = 0
<1>1. x \in Seq(AnyEvent)
  BY DoneEventOf
<1>2. DoneEvent(q) \notin ContentEvents
  BY DoneEventOf
<1>3. Count(x, DoneEvent(q)) = 0
  BY <1>2, CountSmall
<1>4. QED
  BY <1>1, <1>3

(***************************************************************************)
(* The done events of q add up along a concatenation.                      *)
(***************************************************************************)
LEMMA DoneAddUp ==
    ASSUME NEW x \in Seq(AnyEvent), NEW w \in Seq(AnyEvent), NEW q
    PROVE  Count(x \o w, DoneEvent(q)) = Count(x, DoneEvent(q)) + Count(w, DoneEvent(q))
BY CountConcat

(***************************************************************************)
(* Entering one state raises the done event of q once if it completes q,   *)
(* and not otherwise.                                                      *)
(***************************************************************************)
LEMMA EnterStateCount ==
    ASSUME ContentNotDone, NEW kept, NEW entered \in SUBSET States, NEW taken, NEW initialized,
           NEW s \in entered, NEW q \in States
    PROVE  /\ EnterState(s, kept, entered, taken, initialized) \in Seq(AnyEvent)
           /\ Count(EnterState(s, kept, entered, taken, initialized), DoneEvent(q)) =
                 IF s \in Completing(q, kept, entered) THEN 1 ELSE 0
<1> DEFINE a == IF s \in initialized THEN <<>> ELSE OnData[s]
           b == OnEntry[s]
           d == TransEvents({t \in taken : IsDefault(t) /\ Parent[Trans[t].source] = s})
           c == EnteredUpTo(kept, entered, s)
           w == IF Type[s] = "final" THEN DoneEvents(s, c) ELSE <<>>
           x == a \o b \o d
<1>1. EnterState(s, kept, entered, taken, initialized) = x \o w
  BY DEF EnterState, EnteredUpTo
<1>2. a \in Seq(ContentEvents) /\ b \in Seq(ContentEvents)
  BY DEF ContentNotDone
<1>3. d \in Seq(ContentEvents)
  BY TransEventsContent
<1>4. x \in Seq(ContentEvents)
  <2> HIDE DEF a, b, d
  <2>1. QED
    BY <1>2, <1>3
<1> HIDE DEF x
<1>5. x \in Seq(AnyEvent) /\ Count(x, DoneEvent(q)) = 0
  BY <1>4, NoneInContent
<1>6. w \in Seq(AnyEvent) /\ Count(w, DoneEvent(q)) = IF s \in Completing(q, kept, entered) THEN 1 ELSE 0
  <2>1. CASE Type[s] # "final"
    BY <2>1, CountSmall DEF Completing
  <2>2. CASE Type[s] = "final"
    <3>1. s \in States /\ s # 0
      BY <2>2, TypeAssumption
    <3>2. w = DoneEvents(s, c)
      BY <2>2
    <3>3. /\ w \in Seq(AnyEvent)
          /\ Count(w, DoneEvent(q)) =
                (IF Parent[s] = q /\ q # 0 THEN 1 ELSE 0)
                  + (IF Parent[s] \in RegionTree(q) /\ RemainingOf(q, c) = {} THEN 1 ELSE 0)
      <4> HIDE DEF w, c
      <4>1. QED
        BY <3>1, <3>2, DoneEventsCount
    <3>4. q \notin RegionTree(q)
      BY RegionParent
    <3>5. s \in Completing(q, kept, entered) <=>
             (Parent[s] = q /\ q # 0) \/ (Parent[s] \in RegionTree(q) /\ RemainingOf(q, c) = {})
      BY <2>2 DEF Completing
    <3> HIDE DEF w, c
    <3>6. QED
      BY <3>3, <3>4, <3>5
  <2>3. QED
    BY <2>1, <2>2
<1> HIDE DEF w
<1>7. Count(x \o w, DoneEvent(q)) = Count(x, DoneEvent(q)) + Count(w, DoneEvent(q))
  BY <1>5, <1>6, DoneAddUp
<1>8. x \o w \in Seq(AnyEvent)
  BY <1>5, <1>6
<1>9. QED
  BY <1>1, <1>5, <1>6, <1>7, <1>8

(***************************************************************************)
(* Entering states raises the done event of q for each that completes q.   *)
(***************************************************************************)
LEMMA EntryEventsCount ==
    ASSUME ContentNotDone, NEW kept, NEW entered \in SUBSET States, NEW taken, NEW initialized,
           NEW q \in States
    PROVE  /\ EntryEvents(kept, entered, taken, initialized) \in Seq(AnyEvent)
           /\ Count(EntryEvents(kept, entered, taken, initialized), DoneEvent(q)) =
                 Cardinality(Completing(q, kept, entered))
<1> DEFINE N == NumStates
           At(i) == IF i - 1 \in entered THEN EnterState(i - 1, kept, entered, taken, initialized) ELSE <<>>
           part == [i \in 1 .. N |-> At(i)]
           Rec(f) == [i \in 0 .. N |-> IF i = 0 THEN <<>> ELSE f[i - 1] \o At(i)]
           pass == CHOOSE f : f = Rec(f)
<1>1. EntryEvents(kept, entered, taken, initialized) = pass[N]
  BY DEF EntryEvents
<1>2. N \in Nat /\ States = 0 .. N - 1
  BY Tables DEF States
<1>3. ASSUME NEW i \in 1 .. N
      PROVE  /\ At(i) \in Seq(AnyEvent)
             /\ Count(At(i), DoneEvent(q)) = IF i - 1 \in Completing(q, kept, entered) THEN 1 ELSE 0
  <2>1. CASE i - 1 \in entered
    BY <2>1, EnterStateCount
  <2>2. CASE i - 1 \notin entered
    BY <2>2, CountSmall DEF Completing
  <2>3. QED
    BY <2>1, <2>2
<1> HIDE DEF At
<1>4. part \in [1 .. N -> Seq(AnyEvent)]
  BY <1>3
<1>5. ASSUME NEW f
      PROVE  Rec(f) = Forward(f, N, part)
  BY <1>2 DEF Forward
<1>6. \A i \in 1 .. N : part[i] = At(i)
  OBVIOUS
<1> HIDE DEF part, Rec, N
<1>7. PICK f : f = Forward(f, N, part)
  BY <1>2, <1>4, ConcatRecursion
<1>8. pass = Rec(pass)
  BY <1>5, <1>7
<1> HIDE DEF pass
<1>9. pass = Forward(pass, N, part)
  BY <1>5, <1>8
<1>10. \A i \in 0 .. N : pass[i] \in Seq(AnyEvent)
  BY <1>2, <1>4, <1>9, ConcatTyped
<1>11. \A i \in 1 .. N : Count(part[i], DoneEvent(q)) \in {0, 1}
  BY <1>3, <1>6
<1> DEFINE hits == PartsWith(part, N, DoneEvent(q))
<1>12. Count(pass[N], DoneEvent(q)) = Cardinality(hits)
  BY <1>2, <1>4, <1>9, <1>11, ConcatCount
<1>13. hits = Completing(q, kept, entered)
  <2>1. ASSUME NEW s \in 0 .. N - 1
        PROVE  Count(part[s + 1], DoneEvent(q)) = 1 <=> s \in Completing(q, kept, entered)
    <3>1. s + 1 \in 1 .. N /\ (s + 1) - 1 = s
      BY <1>2
    <3>2. Count(part[s + 1], DoneEvent(q)) = IF s \in Completing(q, kept, entered) THEN 1 ELSE 0
      BY <1>3, <1>6, <3>1
    <3>3. QED
      BY <3>2
  <2>2. Completing(q, kept, entered) \subseteq 0 .. N - 1
    BY <1>2 DEF Completing
  <2>3. QED
    BY <2>1, <2>2 DEF PartsWith
<1> HIDE DEF hits
<1>14. QED
  BY <1>1, <1>2, <1>10, <1>12, <1>13

(***************************************************************************)
(* At most one state completes a parallel state: the <final> entered last  *)
(* in its regions, if with it all regions are final.                       *)
(***************************************************************************)
LEMMA CompletingOne ==
    ASSUME FinalsInCompounds, NEW kept, NEW entered, kept \cap entered = {},
           LegalConfiguration(kept \cup entered),
           NEW q \in States, Type[q] = "parallel"
    PROVE  LET L == kept \cup entered
           IN Cardinality(Completing(q, kept, entered)) =
                 IF /\ q \in L /\ InFinalState(q, L) /\ CanBeDone(q)
                    /\ \E f \in entered : Type[f] = "final" /\ Parent[f] \in RegionTree(q)
                 THEN 1 ELSE 0
<1> DEFINE L == kept \cup entered
           C == Completing(q, kept, entered)
           Upto(s) == EnteredUpTo(kept, entered, s)
           F == {f \in entered : Type[f] = "final" /\ Parent[f] \in RegionTree(q)}
<1>1. /\ L \subseteq States
      /\ \A s \in L : Ancestors[s] \subseteq L
      /\ \A s \in L : Type[s] = "compound" => \E x : ChildStates[s] \cap L = {x}
      /\ L \subseteq ProperStates
  BY LegalMeans
<1>2. ASSUME NEW f \in entered, Type[f] = "final"
      PROVE  /\ f \in States /\ f # 0 /\ f \in Nat /\ f \in L
             /\ Parent[f] \in States /\ Type[Parent[f]] = "compound" /\ Parent[f] # q
             /\ f \in ChildStates[Parent[f]] /\ Parent[f] \in L
             /\ Parent[f] \in RegionTree(q) => q \in L
  <2>1. f \in States /\ f # 0 /\ f \in L /\ f \in ProperStates
    BY <1>1, <1>2, TypeAssumption
  <2>2. Parent[f] \in States /\ f \in Descendants[Parent[f]] /\ f \in Children[Parent[f]]
    BY <2>1, ParentInnermost
  <2>3. Type[Parent[f]] = "compound" /\ Parent[f] # q
    BY <1>2, <2>1 DEF FinalsInCompounds
  <2>4. Parent[f] \in L
    BY <1>1, <2>1, <2>2, Tables
  <2>5. ASSUME Parent[f] \in RegionTree(q)
        PROVE  q \in L
    <3>1. Parent[f] \in Descendants[q]
      BY <2>5, RegionTreeParts
    <3>2. q \in Ancestors[Parent[f]]
      BY <2>2, <3>1, Tables
    <3>3. QED
      BY <1>1, <2>4, <3>2
  <2>6. f \in ChildStates[Parent[f]] /\ f \in Nat
    BY <2>1, <2>2, Tables
  <2>7. QED
    BY <2>1, <2>2, <2>3, <2>4, <2>5, <2>6
<1>3. C \subseteq F /\ F \subseteq entered
  BY <1>2 DEF Completing
<1>4. ASSUME NEW f \in F
      PROVE  f \in C <=> CanBeDone(q) /\ RegionsFinal(q, Upto(f))
  <2>1. Upto(f) \in SUBSET L
    BY DEF EnteredUpTo
  <2>2. f \in C <=> RemainingOf(q, Upto(f)) = {}
    BY <1>2, <1>4 DEF Completing
  <2> HIDE DEF Upto, C
  <2>3. RemainingOf(q, Upto(f)) = {} <=> CanBeDone(q) /\ InFinalState(q, Upto(f))
    BY <2>1, RemovalMeansDone
  <2>4. QED
    BY <2>2, <2>3, InFinalMeans
<1>5. ASSUME NEW f \in C, NEW g \in C, f < g
      PROVE  FALSE
  <2>1. f \in F /\ g \in F /\ g \in entered /\ Type[g] = "final" /\ Parent[g] \in RegionTree(q)
    BY <1>3
  <2>2. f \in Nat /\ g \in Nat /\ Parent[g] \in States /\ Type[Parent[g]] = "compound" /\ g \in L
        /\ g \in ChildStates[Parent[g]] /\ Parent[g] \in L
    BY <1>2, <2>1
  <2>3. RegionsFinal(q, Upto(f))
    BY <1>4, <2>1
  <2>4. Parent[g] \in ProperStates
    BY <1>1, <2>2
  <2>5. FinalChildActive(Parent[g], Upto(f))
    BY <2>1, <2>2, <2>3, <2>4 DEF RegionsFinal
  <2>6. PICK h \in ChildStates[Parent[g]] : h \in Upto(f)
    BY <2>5 DEF FinalChildActive
  <2>7. g \notin Upto(f)
    BY <1>5, <2>1, <2>2 DEF EnteredUpTo
  <2>8. h \in L /\ h # g
    BY <2>6, <2>7 DEF EnteredUpTo
  <2> HIDE DEF L
  <2>9. PICK x : ChildStates[Parent[g]] \cap L = {x}
    BY <1>1, <2>2
  <2>10. g \in {x} /\ h \in {x}
    BY <2>2, <2>6, <2>8, <2>9
  <2>11. QED
    BY <2>8, <2>10
<1>6. ASSUME NEW f \in C
      PROVE  Cardinality(C) = 1
  <2>1. \A g \in C : g \in Nat
    BY <1>2, <1>3
  <2>2. \A g \in C : g = f
    BY <1>5, <2>1
  <2>3. C = {f}
    BY <2>2
  <2> HIDE DEF C
  <2>4. QED
    BY <2>3, FS_Singleton
<1>7. ASSUME NEW f \in C
      PROVE  q \in L /\ InFinalState(q, L) /\ CanBeDone(q) /\ F # {}
  <2>1. f \in F /\ q \in L
    BY <1>2, <1>3
  <2>2. CanBeDone(q) /\ RegionsFinal(q, Upto(f))
    BY <1>4, <2>1
  <2>3. Upto(f) \subseteq L
    BY DEF EnteredUpTo
  <2> HIDE DEF Upto, L
  <2>4. RegionsFinal(q, L)
    BY <2>2, <2>3 DEF RegionsFinal, FinalChildActive
  <2>5. QED
    BY <2>1, <2>2, <2>4, InFinalMeans
<1>8. ASSUME InFinalState(q, L), CanBeDone(q), F # {}
      PROVE  C # {}
  <2>1. NumStates - 1 \in Nat /\ F \in SUBSET (0 .. NumStates - 1)
    BY <1>2, Tables DEF States
  <2>2. PICK f \in F : \A g \in F : g <= f
    <3> HIDE DEF F
    <3>1. QED
      BY <1>8, <2>1, GreatestElement
  <2>3. RegionsFinal(q, L)
    BY <1>8, InFinalMeans
  <2>4. ASSUME NEW r \in RegionTree(q) \cap ProperStates, Type[r] # "parallel"
        PROVE  Type[r] = "compound" /\ FinalChildActive(r, Upto(f))
    <3>1. Type[r] = "compound" /\ FinalChildActive(r, L)
      BY <2>3, <2>4 DEF RegionsFinal
    <3>2. PICK h \in ChildStates[r] : Type[h] = "final" /\ h \in L
      BY <3>1 DEF FinalChildActive
    <3>3. r \in States
      BY RegionTreeParts, Tables
    <3>4. Parent[h] = r
      BY <3>2, <3>3, Tables
    <3>5. h \in entered => h \in F
      BY <2>4, <3>2, <3>4
    <3>6. h \in Upto(f)
      BY <2>2, <3>2, <3>5 DEF EnteredUpTo
    <3>7. QED
      BY <3>1, <3>2, <3>6 DEF FinalChildActive
  <2>5. RegionsFinal(q, Upto(f))
    BY <2>4 DEF RegionsFinal
  <2>6. f \in C
    BY <1>4, <1>8, <2>5
  <2>7. QED
    BY <2>6
<1>9. F # {} <=> \E f \in entered : Type[f] = "final" /\ Parent[f] \in RegionTree(q)
  OBVIOUS
<1>10. CASE C = {}
  <2>1. Cardinality(C) = 0
    BY <1>10, FS_EmptySet
  <2>2. ~(q \in L /\ InFinalState(q, L) /\ CanBeDone(q) /\ F # {})
    BY <1>8, <1>10
  <2> HIDE DEF C, F, L
  <2>3. QED
    BY <1>9, <2>1, <2>2 DEF C, L
<1>11. CASE C # {}
  <2>1. PICK f \in C : TRUE
    BY <1>11
  <2>2. Cardinality(C) = 1
    BY <1>6, <2>1
  <2>3. q \in L /\ InFinalState(q, L) /\ CanBeDone(q) /\ F # {}
    BY <1>7, <2>1
  <2> HIDE DEF C, F, L
  <2>4. QED
    BY <1>9, <2>2, <2>3 DEF C, L
<1>12. QED
  BY <1>10, <1>11

(***************************************************************************)
(* How often the done event of s has to be raised when these states are    *)
(* entered and this is the configuration they lead to.                     *)
(***************************************************************************)
DoneOwed(s, entered, config) ==
    CASE Type[s] = "compound" -> Cardinality({f \in entered : Type[f] = "final" /\ Parent[f] = s})
      [] Type[s] = "parallel" ->
           IF /\ s \in config
              /\ InFinalState(s, config)
              /\ CanBeDone(s)
              /\ \E f \in entered : Type[f] = "final" /\ Parent[f] \in RegionTree(s)
           THEN 1 ELSE 0
      [] OTHER -> 0

(***************************************************************************)
(* THE DONE EVENTS OF A MOVE.  A microstep that keeps some states, enters  *)
(* others and ends in a legal configuration raises done.state of a         *)
(* compound state for each of its <final> children that are entered, that  *)
(* of a parallel state that can be done once if a <final> entered in its   *)
(* regions leaves all of them final, and no other done event (ENTER_STATES *)
(* in FastMicroStep::step).                                                *)
(***************************************************************************)
THEOREM MoveRaisesDone ==
    ASSUME FinalsInCompounds, ContentNotDone, NEW kept, NEW entered, kept \cap entered = {},
           LegalConfiguration(kept \cup entered),
           NEW taken, NEW exit, NEW initialized, NEW q \in States \ {0}
    PROVE  Count(MoveTo(kept, entered, taken, exit, initialized).raised, DoneEvent(q)) =
              DoneOwed(q, entered, kept \cup entered)
<1> DEFINE L == kept \cup entered
           raised == MoveTo(kept, entered, taken, exit, initialized).raised
           C == Completing(q, kept, entered)
           x == ExitEvents(exit)
           t == TransEvents({u \in taken : ~IsDefault(u)})
           w == EntryEvents(kept, entered, taken, initialized)
<1>1. entered \in SUBSET States
  BY LegalMeans
<1>2. raised = x \o t \o w
  BY DEF MoveTo
<1>3. x \in Seq(ContentEvents) /\ t \in Seq(ContentEvents)
  BY ExitEventsContent, TransEventsContent
<1>4. w \in Seq(AnyEvent) /\ Count(w, DoneEvent(q)) = Cardinality(C)
  BY <1>1, EntryEventsCount
<1>5. Count(raised, DoneEvent(q)) = Cardinality(C)
  <2> DEFINE y == x \o t
  <2> HIDE DEF x, t, w, raised, C
  <2>1. y \in Seq(ContentEvents)
    BY <1>3
  <2> HIDE DEF y
  <2>2. y \in Seq(AnyEvent) /\ Count(y, DoneEvent(q)) = 0
    BY <2>1, NoneInContent
  <2>3. Count(w, DoneEvent(q)) \in Nat /\ Count(y \o w, DoneEvent(q)) = Count(y, DoneEvent(q)) + Count(w, DoneEvent(q))
    BY <1>4, <2>2, CountConcat
  <2>4. QED
    BY <1>2, <1>4, <2>2, <2>3 DEF y
<1> HIDE DEF x, t, w, raised
<1>6. ASSUME NEW f \in entered, Type[f] = "final"
      PROVE  Type[Parent[f]] = "compound"
  BY <1>1, <1>6, TypeAssumption DEF FinalsInCompounds
<1>7. Type[q] # "parallel" => RegionTree(q) = {}
  BY RegionTreeParts
<1>8. ASSUME Type[q] = "compound"
      PROVE  C = {f \in entered : Type[f] = "final" /\ Parent[f] = q}
  BY <1>7, <1>8 DEF Completing
<1>9. ASSUME Type[q] \notin {"compound", "parallel"}
      PROVE  Cardinality(C) = 0
  <2>1. C = {}
    BY <1>6, <1>7, <1>9 DEF Completing
  <2>2. QED
    BY <2>1, FS_EmptySet
<1>10. ASSUME Type[q] = "parallel"
       PROVE  Cardinality(C) =
                 IF /\ q \in L /\ InFinalState(q, L) /\ CanBeDone(q)
                    /\ \E f \in entered : Type[f] = "final" /\ Parent[f] \in RegionTree(q)
                 THEN 1 ELSE 0
  BY <1>10, CompletingOne
<1>11. QED
  <2> HIDE DEF C
  <2>1. QED
    BY <1>5, <1>8, <1>9, <1>10 DEF raised, DoneOwed

-----------------------------------------------------------------------------
(* Entering a history. *)

(***************************************************************************)
(* A state around another is compound or parallel.                         *)
(***************************************************************************)
LEMMA AroundType ==
    ASSUME NEW p \in States, Descendants[p] # {}
    PROVE  Type[p] \in {"compound", "parallel"}
<1>1. Type[p] \in Types
  BY TypeAssumption
<1>2. ASSUME Type[p] \in Pseudo \cup {"atomic", "final"}
      PROVE  FALSE
  <2>1. Last[p] = p /\ p \in Nat /\ Descendants[p] = (p + 1) .. Last[p]
    BY <1>2, TypeAssumption, Tables
  <2>2. Descendants[p] = {}
    BY <2>1
  <2>3. QED
    BY <2>2
<1>3. QED
  BY <1>1, <1>2 DEF Types

(***************************************************************************)
(* What a history can be replaced by is never nothing: its parent has a    *)
(* state of its own, the target of the default transition or one around    *)
(* it.                                                                     *)
(***************************************************************************)
LEMMA WholeNotEmpty ==
    ASSUME WellFormedChart, NEW h \in Histories, NEW known, Whole(h, known)
    PROVE  known # {}
<1> DEFINE p == Parent[h]
<1>1. p \in States
  BY HistoryAbout
<1>2. PICK x \in Descendants[p] : x \in ProperStates
  BY DEF WellFormedChart, DefaultFits
<1> HIDE DEF p
<1>3. PICK k \in Children[p] : k = x \/ x \in Descendants[k]
  BY <1>1, <1>2, ChildTowards
<1>4. k \in States
  BY <1>1, <1>3, AncestorsOfChild
<1>5. k \in ProperStates
  BY <1>2, <1>3, <1>4, PseudoLeaf DEF ProperStates
<1>6. ChildStates[p] # {}
  BY <1>1, <1>3, <1>5, Tables
<1>7. Type[p] \in {"compound", "parallel"}
  BY <1>1, <1>2, AroundType
<1>8. QED
  BY <1>6, <1>7 DEF Whole, p

(***************************************************************************)
(* Of the states a history is about, no others than those it is replaced   *)
(* by can be active with them: they leave no choice as far down as the     *)
(* history looks.                                                          *)
(***************************************************************************)
LEMMA WholeIsAll ==
    ASSUME NEW new, LegalConfiguration(new), NEW h \in Histories, Parent[h] \in new,
           NEW known, Whole(h, known), known \subseteq new \cap Completion[h]
    PROVE  new \cap Completion[h] = known
<1> DEFINE p == Parent[h]
           others == (new \cap Completion[h]) \ known
<1>1. /\ p \in States
      /\ \A s : s \in Completion[h] <=>
            s \in Descendants[p] /\ ~IsHistory(s) /\ (Type[h] = "deep" \/ s \in Children[p])
  BY HistoryAbout
<1>2. /\ new \subseteq ProperStates /\ new \subseteq States
      /\ \A s \in new : Ancestors[s] \subseteq new
      /\ \A s \in new : Type[s] = "compound" => \E x : ChildStates[s] \cap new = {x}
  BY LegalMeans
<1>3. ASSUME others # {}
      PROVE  FALSE
  <2>1. others \subseteq Nat
    BY <1>2, Tables
  <2>2. PICK x \in others : \A y \in others : x <= y
    BY <1>3, <2>1, LeastElement
  <2>3. x \in new /\ x \in States /\ x \in Nat /\ x \in Descendants[p] /\ x \notin known /\ x \in Completion[h]
    BY <1>1, <1>2, <2>1, <2>2
  <2>4. x # 0
    <3>1. p < x /\ p \in Nat
      BY <1>1, <2>3, Nested, Tables
    <3>2. QED
      BY <2>3, <3>1
  <2> DEFINE q == Parent[x]
  <2>5. q \in States /\ x \in Descendants[q] /\ x \in Children[q] /\ (p = q \/ q \in Descendants[p])
    BY <1>1, <2>3, <2>4, ParentInnermost
  <2>6. q \in new /\ x \in ChildStates[q]
    <3>1. q \in Ancestors[x]
      BY <2>3, <2>5, Tables
    <3>2. QED
      BY <1>2, <2>3, <2>5, <3>1, Tables
  <2>7. q < x /\ q \in Nat
    BY <2>3, <2>5, Nested, Tables
  <2> HIDE DEF q, p
  <2>8. q = p \/ (Type[h] = "deep" /\ q \in known)
    <3> SUFFICES ASSUME q # p
                 PROVE  Type[h] = "deep" /\ q \in known
      OBVIOUS
    <3>1. x \notin Children[p]
      <4>1. x \in Children[p] => Parent[x] = p
        BY <1>1, AncestorsOfChild
      <4>2. QED
        BY <4>1 DEF q
    <3>2. Type[h] = "deep"
      BY <1>1, <2>3, <3>1
    <3>3. ~IsHistory(q)
      BY <1>2, <2>6 DEF ProperStates, IsProper, IsHistory, Pseudo
    <3>4. q \in new \cap Completion[h]
      BY <1>1, <2>5, <2>6, <3>2, <3>3
    <3>5. q \notin others
      BY <2>2, <2>3, <2>7
    <3>6. QED
      BY <3>2, <3>4, <3>5
  <2>9. /\ Type[q] = "compound" => ChildStates[q] \cap known # {}
        /\ Type[q] = "parallel" => ChildStates[q] \subseteq known
    BY <2>8 DEF Whole, p
  <2>10. Type[q] \in {"compound", "parallel"}
    BY <2>5, AroundType
  <2>11. CASE Type[q] = "compound"
    <3>1. PICK z : ChildStates[q] \cap new = {z}
      BY <1>2, <2>6, <2>11
    <3>2. PICK y \in ChildStates[q] : y \in known
      BY <2>9, <2>11
    <3>3. y \in new
      BY <3>2
    <3>4. x = z /\ y = z
      BY <2>3, <2>6, <3>1, <3>2, <3>3
    <3>5. QED
      BY <2>3, <3>2, <3>4
  <2>12. CASE Type[q] = "parallel"
    BY <2>3, <2>6, <2>9, <2>12
  <2>13. QED
    BY <2>10, <2>11, <2>12
<1>4. QED
  BY <1>3

(***************************************************************************)
(* Completing one state takes no other state out of the entry set, and     *)
(* only an <initial> adds a transition whose target is a history: one that *)
(* is still ahead and entered.                                             *)
(***************************************************************************)
LEMMA CompleteStateTakes ==
    ASSUME WellFormedChart, NEW s \in States, NEW e \in EntrySets, NEW c, NEW hist, NEW x
    PROVE  LET f == CompleteState(s, e, c, hist, x)
           IN /\ e.entry \ {s} \subseteq f.entry
              /\ Type[s] # "initial" => e.entry \subseteq f.entry
              /\ \A t \in f.taken \ e.taken, h \in Histories :
                    Trans[t].target = {h} => h > s /\ h \in f.entry
<1> DEFINE f == CompleteState(s, e, c, hist, x)
<1>1. CASE Type[s] = "initial"
  <2>1. f = EnterInitial(s, e)
    BY <1>1 DEF CompleteState, IsHistory
  <2>2. PICK t \in TransIdx :
           /\ DefaultTransitions(s) = {t}
           /\ Trans[t].target # {}
           /\ Trans[t].target \subseteq Descendants[Parent[s]]
    BY <1>1 DEF WellFormedChart
  <2>3. TargetSet({t}) = Trans[t].target
    BY DEF TargetSet
  <2>4. f = [entry |-> (e.entry \ {s}) \cup WithAncestors(Trans[t].target), taken |-> e.taken \cup {t}]
    BY <2>1, <2>2, <2>3 DEF EnterInitial
  <2> HIDE DEF f
  <2>5. f.entry = (e.entry \ {s}) \cup WithAncestors(Trans[t].target) /\ f.taken = e.taken \cup {t}
    BY <2>4
  <2>6. ASSUME NEW h \in Histories, Trans[t].target = {h}
        PROVE  h > s /\ h \in f.entry
    <3>1. h \in Descendants[Parent[s]] /\ IsHistory(h) /\ ~IsProper(s)
      BY <1>1, <2>2, <2>6 DEF Histories, IsProper, Pseudo
    <3>2. h > s
      BY <1>1, <3>1, PseudoFirst
    <3>3. QED
      BY <2>5, <2>6, <3>2 DEF WithAncestors
  <2>7. QED
    BY <1>1, <2>5, <2>6 DEF f
<1>2. CASE IsHistory(s)
  <2> DEFINE known == Completion[s] \cap hist
  <2>1. f = EnterHistory(s, e, c, hist) /\ s \in Histories
    BY <1>2 DEF CompleteState, IsHistory, Histories
  <2>2. PICK t \in TransIdx :
           /\ DefaultTransitions(s) = {t}
           /\ Trans[t].target \subseteq ProperStates
    BY <2>1 DEF WellFormedChart, DefaultFits
  <2>3. Min({t}) = t
    BY LenTrans DEF Min
  <2>4. CASE known # {} \/ Parent[s] \in c
    <3>1. f = [e EXCEPT !.entry = @ \cup known]
      BY <2>1, <2>4 DEF EnterHistory
    <3> HIDE DEF f
    <3>2. f.entry = e.entry \cup known /\ f.taken = e.taken
      BY <3>1 DEF EntrySets
    <3>3. QED
      BY <3>2 DEF f
  <2>5. CASE ~(known # {} \/ Parent[s] \in c)
    <3> DEFINE below == {y \in Trans[t].target : y > s}
               more == IF Type[s] = "deep" /\ below # {} THEN Ancestors[Min(below)] ELSE {}
    <3>1. f = [entry |-> e.entry \cup Trans[t].target \cup more, taken |-> e.taken \cup {t}]
      BY <2>1, <2>2, <2>3, <2>5 DEF EnterHistory
    <3> HIDE DEF f, more
    <3>2. f.entry = e.entry \cup Trans[t].target \cup more /\ f.taken = e.taken \cup {t}
      BY <3>1
    <3>3. \A h \in Histories : Trans[t].target # {h}
      BY <2>2 DEF ProperStates, Histories, IsHistory, IsProper, Pseudo
    <3>4. QED
      BY <3>2, <3>3 DEF f
  <2>6. QED
    BY <2>4, <2>5
<1>3. CASE Type[s] # "initial" /\ ~IsHistory(s)
  <2> DEFINE below == {y \in Completion[s] : y > s}
             more == IF Completion[s] \cap Descendants[s] = {} /\ below # {}
                     THEN Ancestors[Min(below)] ELSE {}
  <2>1. \/ f = e
        \/ f = [e EXCEPT !.entry = @ \cup Completion[s]]
        \/ f = [e EXCEPT !.entry = @ \cup Completion[s] \cup more]
    BY <1>3 DEF CompleteState, EnterCompound
  <2> HIDE DEF f, more
  <2>2. e.entry \subseteq f.entry /\ f.taken = e.taken
    BY <2>1 DEF EntrySets
  <2>3. QED
    BY <2>2 DEF f
<1>4. QED
  BY <1>1, <1>2, <1>3

(***************************************************************************)
(* What entering the history h means: that what it remembers is in the     *)
(* set, or, if that is nothing, the targets of its default transition.     *)
(***************************************************************************)
EnteredFor(h, set, hist) ==
    IF Completion[h] \cap hist # {}
    THEN Completion[h] \cap hist \subseteq set
    ELSE \A t \in DefaultTransitions(h) : Trans[t].target \subseteq set

(***************************************************************************)
(* Completing a history enters it, if its parent is not kept.              *)
(***************************************************************************)
LEMMA CompleteHistoryEnters ==
    ASSUME WellFormedChart, NEW h \in Histories, NEW e \in EntrySets, NEW c, NEW d, NEW hist,
           Remembered(c, d, hist), Parent[h] \notin c \ d
    PROVE  EnteredFor(h, CompleteState(h, e, c, hist, c \cap d).entry, hist)
<1> DEFINE x == c \cap d
           f == CompleteState(h, e, c, hist, x)
           known == Completion[h] \cap hist
<1>1. h \in States /\ IsHistory(h)
  BY DEF Histories
<1>2. StateCompleted(f, h, e, c, hist, x)
  BY <1>1, CompleteStateCases
<1>3. known = {} => Parent[h] \notin c
  <2>1. (known = {} /\ Parent[h] \notin c) \/ Whole(h, known)
    BY DEF Remembered
  <2>2. QED
    BY <2>1, WholeNotEmpty
<1> HIDE DEF f
<1>4. CASE known # {}
  <2>1. f.entry = e.entry \cup known
    BY <1>1, <1>2, <1>4 DEF StateCompleted
  <2>2. QED
    BY <1>4, <2>1 DEF EnteredFor, f
<1>5. CASE known = {}
  <2>1. PICK t \in TransIdx :
           /\ DefaultTransitions(h) = {t}
           /\ f.entry = e.entry \cup Trans[t].target \cup AroundDefault(h, Trans[t].target)
    BY <1>1, <1>2, <1>3, <1>5 DEF StateCompleted
  <2>2. QED
    BY <1>5, <2>1 DEF EnteredFor, f
<1>6. QED
  BY <1>4, <1>5

(***************************************************************************)
(* What has been entered for a history stays entered.                      *)
(***************************************************************************)
LEMMA EnteredStays ==
    ASSUME WellFormedChart, NEW h \in Histories, NEW hist, hist \subseteq ProperStates,
           NEW a, NEW b, a \cap ProperStates \subseteq b, EnteredFor(h, a, hist)
    PROVE  EnteredFor(h, b, hist)
<1>1. \A t \in DefaultTransitions(h) : Trans[t].target \subseteq ProperStates
  BY DEF WellFormedChart, DefaultFits
<1>2. QED
  BY <1>1 DEF EnteredFor

(***************************************************************************)
(* In ESTABLISH_ENTRYSET every history that is the target of a transition  *)
(* is entered: before the pass has come to it it is in the entry set, then *)
(* what it stands for.                                                     *)
(***************************************************************************)
HistoriesFollowed(n, e, c, d, hist) ==
    \A t \in e.taken, h \in Histories :
        Trans[t].target = {h} /\ Parent[h] \notin c \ d =>
            IF h < n THEN EnteredFor(h, e.entry, hist) ELSE h \in e.entry

(***************************************************************************)
(* Completing one state keeps it so.                                       *)
(***************************************************************************)
LEMMA EntryStepFollows ==
    ASSUME WellFormedChart, NEW n \in States, NEW e \in EntrySets, NEW c, NEW d, NEW hist,
           Remembered(c, d, hist), HistoriesFollowed(n, e, c, d, hist)
    PROVE  HistoriesFollowed(n + 1, EntryStep(n, e, c, hist, c \cap d), c, d, hist)
<1> DEFINE x == c \cap d
           f == EntryStep(n, e, c, hist, x)
<1>1. n \in Nat /\ Histories \subseteq Nat /\ Histories \subseteq States
  BY Tables DEF Histories
<1>2. CASE n \notin e.entry
  <2>1. f = e
    BY <1>2 DEF EntryStep
  <2> HIDE DEF f
  <2> SUFFICES ASSUME NEW t \in e.taken, NEW h \in Histories,
                      Trans[t].target = {h}, Parent[h] \notin c \ d
               PROVE  IF h < n + 1 THEN EnteredFor(h, e.entry, hist) ELSE h \in e.entry
    BY <2>1 DEF HistoriesFollowed, f
  <2>2. IF h < n THEN EnteredFor(h, e.entry, hist) ELSE h \in e.entry
    BY DEF HistoriesFollowed
  <2>3. h # n => (h < n <=> h < n + 1)
    BY <1>1
  <2>4. h = n => ~(h < n)
    BY <1>1
  <2>5. QED
    BY <1>2, <2>2, <2>3, <2>4
<1>3. CASE n \in e.entry
  <2>1. f = CompleteState(n, e, c, hist, x)
    BY <1>3 DEF EntryStep
  <2>2. /\ e.entry \ {n} \subseteq f.entry
        /\ Type[n] # "initial" => e.entry \subseteq f.entry
        /\ \A t \in f.taken \ e.taken, h \in Histories :
              Trans[t].target = {h} => h > n /\ h \in f.entry
    BY <2>1, CompleteStateTakes
  <2>3. e.entry \cap ProperStates \subseteq f.entry
    <3>1. Type[n] = "initial" => n \notin ProperStates
      BY DEF ProperStates, IsProper, Pseudo
    <3> HIDE DEF f
    <3>2. QED
      BY <2>2, <3>1
  <2>4. n \in Histories /\ Parent[n] \notin c \ d => EnteredFor(n, f.entry, hist)
    BY <2>1, CompleteHistoryEnters
  <2> HIDE DEF f
  <2> SUFFICES ASSUME NEW t \in f.taken, NEW h \in Histories,
                      Trans[t].target = {h}, Parent[h] \notin c \ d
               PROVE  IF h < n + 1 THEN EnteredFor(h, f.entry, hist) ELSE h \in f.entry
    BY DEF HistoriesFollowed, f
  <2>5. CASE h = n
    <3>1. h < n + 1
      BY <1>1, <2>5
    <3>2. QED
      BY <2>4, <2>5, <3>1
  <2>6. CASE h # n /\ t \in e.taken
    <3>1. IF h < n THEN EnteredFor(h, e.entry, hist) ELSE h \in e.entry
      BY <2>6 DEF HistoriesFollowed
    <3>2. h < n <=> h < n + 1
      BY <1>1, <2>6
    <3>3. EnteredFor(h, e.entry, hist) => EnteredFor(h, f.entry, hist)
      BY <2>3, EnteredStays DEF Remembered
    <3>4. QED
      BY <2>2, <2>6, <3>1, <3>2, <3>3
  <2>7. CASE h # n /\ t \notin e.taken
    <3>1. h > n /\ h \in f.entry
      BY <2>2, <2>7
    <3>2. ~(h < n + 1)
      BY <1>1, <3>1
    <3>3. QED
      BY <3>1, <3>2
  <2>8. QED
    BY <2>5, <2>6, <2>7
<1>4. QED
  BY <1>2, <1>3

(***************************************************************************)
(* At the end of the pass every history that was a target is entered.      *)
(***************************************************************************)
LEMMA EntrySetFollows ==
    ASSUME WellFormedChart, NEW targets \in SUBSET States, NEW taken \in SUBSET TransIdx,
           \A t \in taken : Trans[t].target \subseteq targets,
           NEW c, NEW d, NEW hist, Remembered(c, d, hist)
    PROVE  LET e == EstablishEntrySet(targets, taken, c, hist, c \cap d)
           IN \A t \in e.taken, h \in Histories :
                 Trans[t].target = {h} /\ Parent[h] \notin c \ d => EnteredFor(h, e.entry, hist)
<1> DEFINE x == c \cap d
           N == NumStates
<1>0. PICK pass : IsEntryPass(pass, targets, taken, c, hist, x)
  <2> HIDE DEF x
  <2>1. QED
    BY EntryPass
<1>1. /\ pass \in [0 .. N -> EntrySets]
      /\ EstablishEntrySet(targets, taken, c, hist, x) = pass[N]
      /\ pass[0] = [entry |-> WithAncestors(targets), taken |-> taken]
      /\ \A s \in States : pass[s + 1] = EntryStep(s, pass[s], c, hist, x)
  BY <1>0 DEF IsEntryPass
<1>2. N \in Nat /\ States = 0 .. N - 1 /\ 0 \in 0 .. N
  BY Tables DEF States
<1>3. Histories \subseteq Nat /\ \A h \in Histories : h < N
  BY Tables DEF Histories, States
<1> DEFINE S == {n \in 0 .. N : HistoriesFollowed(n, pass[n], c, d, hist)}
<1> HIDE DEF N
<1>4. 0 \in S
  <2>1. pass[0].entry = WithAncestors(targets) /\ pass[0].taken = taken
    BY <1>1
  <2>2. ASSUME NEW t \in taken, NEW h \in Histories, Trans[t].target = {h}
        PROVE  ~(h < 0) /\ h \in WithAncestors(targets)
    BY <1>3, <2>2 DEF WithAncestors
  <2>3. HistoriesFollowed(0, pass[0], c, d, hist)
    BY <2>1, <2>2 DEF HistoriesFollowed
  <2>4. QED
    BY <1>2, <2>3
<1>5. ASSUME NEW n \in 0 .. N - 1, n \in S
      PROVE  n + 1 \in S
  <2>1. n \in States /\ n \in 0 .. N /\ n + 1 \in 0 .. N
    BY <1>2
  <2>2. pass[n] \in EntrySets /\ HistoriesFollowed(n, pass[n], c, d, hist)
    BY <1>1, <1>5, <2>1
  <2>3. HistoriesFollowed(n + 1, EntryStep(n, pass[n], c, hist, x), c, d, hist)
    BY <2>1, <2>2, EntryStepFollows
  <2>4. pass[n + 1] = EntryStep(n, pass[n], c, hist, x)
    BY <1>1, <2>1
  <2>5. QED
    BY <2>1, <2>3, <2>4
<1> HIDE DEF S
<1>6. N \in S
  <2>1. 0 .. N \subseteq S
    BY <1>2, <1>4, <1>5, IntervalInduction
  <2>2. QED
    BY <1>2, <2>1
<1>7. HistoriesFollowed(N, pass[N], c, d, hist)
  BY <1>6 DEF S
<1>8. QED
  BY <1>1, <1>3, <1>7 DEF HistoriesFollowed, N

(***************************************************************************)
(* Whatever of a frame is left, a history that is the target of one of the *)
(* transitions taken, default transitions included, is entered as it is    *)
(* remembered and nothing else of what it is about is, or by its default   *)
(* transition if nothing is remembered.                                    *)
(***************************************************************************)
THEOREM HistoryEntered ==
    ASSUME WellFormedChart, NEW targets \in SUBSET (States \ {0}), NEW taken \in SUBSET TransIdx,
           \A t \in taken : Trans[t].target \subseteq targets,
           NEW c, NEW d, NEW hist, NEW init, Frame(c, d), Remembered(c, d, hist),
           EntryInv(0, WithAncestors(targets), c, d),
           targets # {} \/ 0 \in c \ d,
           NEW h \in Histories
    PROVE  LET m == Microstep(targets, taken, c, hist, c \cap d, init)
               known == hist \cap Completion[h]
           IN (\E t \in m.taken : Trans[t].target = {h}) /\ Parent[h] \in m.entered =>
                 IF known # {}
                 THEN m.config \cap Completion[h] = known
                 ELSE \A t \in DefaultTransitions(h) : Trans[t].target \subseteq m.config
<1> DEFINE m == Microstep(targets, taken, c, hist, c \cap d, init)
           e == EstablishEntrySet(targets, taken, c, hist, c \cap d)
           k == c \ (c \cap d)
           known == Completion[h] \cap hist
<1>1. /\ m.config = k \cup ((e.entry \ k) \cap ProperStates)
      /\ m.entered = (e.entry \ k) \cap ProperStates
      /\ m.taken = e.taken
  BY DEF Microstep, MoveTo
<1>2. LegalConfiguration(m.config)
  <2>1. LegalWithin(m.config, targets, c, d)
    BY FrameStepLegal
  <2>2. QED
    BY <2>1 DEF LegalWithin
<1>3. targets \in SUBSET States
  OBVIOUS
<1>4. \A t \in e.taken, g \in Histories :
         Trans[t].target = {g} /\ Parent[g] \notin c \ d => EnteredFor(g, e.entry, hist)
  BY <1>3, EntrySetFollows
<1> HIDE DEF m, e
<1> SUFFICES ASSUME NEW u \in m.taken, Trans[u].target = {h}, Parent[h] \in m.entered
             PROVE  IF known # {}
                    THEN m.config \cap Completion[h] = known
                    ELSE \A t \in DefaultTransitions(h) : Trans[t].target \subseteq m.config
  BY DEF m
<1>5. Parent[h] \notin c \ d /\ Parent[h] \in m.config
  BY <1>1
<1>6. EnteredFor(h, e.entry, hist)
  BY <1>1, <1>4, <1>5
<1>7. e.entry \cap ProperStates \subseteq m.config
  BY <1>1
<1>8. EnteredFor(h, m.config, hist)
  BY <1>6, <1>7, EnteredStays DEF Remembered
<1>9. CASE known # {}
  <2>1. Whole(h, known)
    BY <1>5, <1>9 DEF Remembered
  <2>2. known \subseteq m.config \cap Completion[h]
    BY <1>8, <1>9 DEF EnteredFor
  <2> HIDE DEF known
  <2>3. m.config \cap Completion[h] = known
    BY <1>2, <1>5, <2>1, <2>2, WholeIsAll
  <2>4. QED
    BY <1>9, <2>3
<1>10. CASE known = {}
  BY <1>8, <1>10 DEF EnteredFor
<1>11. QED
  BY <1>9, <1>10

(***************************************************************************)
(* What REMEMBER_HISTORY makes of one history whose parent is not kept:    *)
(* what is active if the parent is left, and otherwise what it was before, *)
(* as long as no deep history is around it.                                *)
(***************************************************************************)
LEMMA RememberedFor ==
    ASSUME HistoriesApart, NEW c, LegalConfiguration(c), NEW d,
           NEW hist, hist \subseteq ProperStates, NEW h \in Histories, Parent[h] \notin c \ d
    PROVE  RememberHistory(hist, c, c \cap d) \cap Completion[h] =
              IF Parent[h] \in c \cap d THEN c \cap Completion[h] ELSE hist \cap Completion[h]
<1> DEFINE R == Renewed(c \cap d, NumStates)
           after == RememberHistory(hist, c, c \cap d)
<1>1. c \subseteq ProperStates
  BY LegalMeans
<1>2. after = (hist \ R) \cup (c \cap R)
  BY <1>1, RememberedStates
<1>3. \A x : x \in R <=> \E g \in Histories : Parent[g] \in c \cap d /\ x \in Completion[g]
  <2>1. \A g \in Histories : g < NumStates
    BY Tables DEF Histories, States
  <2>2. QED
    BY <2>1 DEF Renewed
<1> HIDE DEF R, after
<1>4. CASE Parent[h] \in c \cap d
  <2>1. Completion[h] \subseteq R
    BY <1>3, <1>4
  <2>2. QED
    BY <1>2, <1>4, <2>1 DEF after
<1>5. CASE Parent[h] \notin c \cap d
  <2>1. Parent[h] \notin c
    BY <1>5
  <2>2. ASSUME NEW x \in Completion[h], x \in R
        PROVE  FALSE
    <3>1. PICK g \in Histories : Parent[g] \in c \cap d /\ x \in Completion[g]
      BY <1>3, <2>2
    <3>2. Type[g] = "deep" /\ Parent[h] \in Descendants[Parent[g]]
      BY <2>1, <2>2, <3>1, SharedMeansAround
    <3>3. QED
      BY <3>2 DEF HistoriesApart
  <2>3. QED
    BY <1>2, <1>5, <2>2 DEF after
<1>6. QED
  BY <1>4, <1>5

=============================================================================
