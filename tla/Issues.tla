------------------------------- MODULE Issues -------------------------------
(***************************************************************************)
(* The static checks of InterpreterIssue::forInterpreter that predict how  *)
(* a chart can behave: which states are reachable, which configurations    *)
(* there are, and whether a set of targets can be active together.         *)
(***************************************************************************)
EXTENDS Chart

IsAtomic(s) == IsProper(s) /\ Type[s] # "parallel" /\ ChildStates[s] = {}

\* getInitialStates: the attribute, the <initial> element, or the first child.
GetInitialStates(s) ==
    LET initial == {i \in Children[s] : Type[i] = "initial"}
    IN CASE Type[s] = "parallel" -> ChildStates[s]
         [] Type[s] = "compound" /\ InitialAttr[s] # {} -> InitialAttr[s]
         [] Type[s] = "compound" /\ InitialAttr[s] = {} /\ initial # {} ->
                UNION {Trans[t].target : t \in DefaultTransitions(Min(initial))}
         [] Type[s] = "compound" /\ InitialAttr[s] = {} /\ initial = {} -> {Min(ChildStates[s])}
         [] OTHER -> {}

\* Mutant: the ancestors of a state that is reachable are not looked at.
ReachableFromBelow(s) ==
    GetInitialStates(s) \cup UNION {Trans[t].target : t \in DefaultTransitions(s)}

\* What a state that is reachable makes reachable; the ancestors only of an atomic one.
ReachableFrom(s) ==
    GetInitialStates(s)
        \cup (UNION {Trans[t].target : t \in DefaultTransitions(s)})
        \cup (IF IsAtomic(s) THEN Ancestors[s] ELSE {})

(***************************************************************************)
(* The loop of getReachableStates.  Every round but the last finds a state *)
(* that was not reachable before, so there are at most as many as states.  *)
(***************************************************************************)
FirstRound == [reachable |-> {}, additions |-> {0}]

NextRound(r) ==
    LET known == r.reachable \cup r.additions
    IN [reachable |-> known,
        additions |-> (UNION {ReachableFrom(s) : s \in r.additions}) \ known]

Reach ==
    LET round[n \in 0 .. NumStates] == IF n = 0 THEN FirstRound ELSE NextRound(round[n - 1])
    IN round[NumStates]

GetReachableStates == Reach.reachable

-----------------------------------------------------------------------------

\* Each region's configurations are combined with those of the regions before it.
Combine(sofar, nested) ==
    IF sofar = {} THEN nested ELSE {c \cup d : c \in sofar, d \in nested}

(***************************************************************************)
(* getAllConfigurations, without <scxml>, which it leaves out of the sets. *)
(***************************************************************************)
AllConfigurations[s \in States] ==
    LET self == IF s = 0 THEN {} ELSE {s}
        nested(c) == {d \cup self : d \in AllConfigurations[c]}
        pass[i \in 0 .. NumStates] ==
            IF i = 0 THEN {}
            ELSE IF i - 1 \notin ChildStates[s] THEN pass[i - 1]
            ELSE IF Type[s] = "parallel" THEN Combine(pass[i - 1], nested(i - 1))
            ELSE pass[i - 1] \cup nested(i - 1)
    IN IF ChildStates[s] = {} THEN {{s}} ELSE pass[NumStates]

-----------------------------------------------------------------------------

\* Mutant: states of different regions are taken to exclude each other.
HasLegalCompletionInLine(targets) ==
    \A s1, s2 \in targets : s1 = s2 \/ s1 \in Descendants[s2] \/ s2 \in Descendants[s1]

\* Two states may be nested in one another or in any common <parallel>.
HasLegalCompletion(targets) ==
    \A s1, s2 \in targets :
        \/ s1 = s2
        \/ s1 \in Descendants[s2] \/ s2 \in Descendants[s1]
        \/ \E p \in Ancestors[s1] \cap Ancestors[s2] : Type[p] = "parallel"
=============================================================================
