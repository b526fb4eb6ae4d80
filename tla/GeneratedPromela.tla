--------------------------- MODULE GeneratedPromela ---------------------------
(***************************************************************************)
(* The microstep of the Promela code that ChartToPromela generates.  The   *)
(* class extends ChartToC and shares its tables; writeFSMEstablishEntrySet *)
(* emits a third version of the entry set, which differs from the C code   *)
(* in the <initial> and the compound case.                                 *)
(***************************************************************************)
EXTENDS GeneratedC

(***************************************************************************)
(* What a history remembers; the nested histories are added for every deep *)
(* history and for every one with another history below its parent.        *)
(***************************************************************************)
PRestoredByHistory(h, e, history) ==
    LET restored == e.entry \cup (CCompletion[h] \cap history)
        nested == {s \in CCompletion[h] \cap restored : s > h /\ HasHistoryChild(s)}
    IN [e EXCEPT !.entry =
            restored \cup IF Type[h] = "deep" \/ HasNestedHistory(h)
                          THEN UNION {Children[s] \cap Histories : s \in nested} ELSE {}]

PEnterHistory(h, e, config, history) ==
    IF CCompletion[h] \cap history # {} \/ Parent[h] \in config
    THEN PRestoredByHistory(h, e, history)
    ELSE IF DefaultTransitions(h) = {} THEN e
    ELSE CDefaultOfHistory(h, Min(DefaultTransitions(h)), e)

(***************************************************************************)
(* The targets of an <initial> are entered; the loop that adds their       *)
(* ancestors starts at the next state and ends with the first one that is  *)
(* no target.                                                              *)
(***************************************************************************)
PEnterInitial(s, e) ==
    IF DefaultTransitions(s) = {} THEN e
    ELSE LET targets == TargetSet(DefaultTransitions(s))
             first == {k \in targets : (s + 1) .. k \subseteq targets /\ k > s}
         IN [entry |-> (e.entry \ {s}) \cup targets \cup UNION {Ancestors[k] : k \in first},
             taken |-> e.taken \cup DefaultTransitions(s)]

(***************************************************************************)
(* The test for a completion that is no child has lost its negation, and   *)
(* its loop starts one state late: it only adds the ancestors of a child.  *)
(***************************************************************************)
\* Mutant: the states that are kept are not looked at.
PEnterCompoundAlways(s, e, config, exit) ==
    IF e.entry \cap Children[s] # {} THEN e ELSE [e EXCEPT !.entry = @ \cup CCompletion[s]]

PEnterCompound(s, e, config, exit) ==
    IF \/ e.entry \cap Children[s] # {}
       \/ config \cap Children[s] # {} /\ exit \cap Children[s] = {}
    THEN e
    ELSE LET below == {c \in CCompletion[s] : c > s + 1}
         IN [e EXCEPT !.entry = @ \cup CCompletion[s]
                \cup IF CCompletion[s] \cap Children[s] # {} /\ below # {}
                     THEN Ancestors[Min(below)] ELSE {}]

PCompleteState(s, e, config, history, exit) ==
    CASE Type[s] = "parallel" -> [e EXCEPT !.entry = @ \cup CCompletion[s]]
      [] IsHistory(s) -> PEnterHistory(s, e, config, history)
      [] Type[s] = "initial" -> PEnterInitial(s, e)
      [] Type[s] = "compound" -> PEnterCompound(s, e, config, exit)
      [] OTHER -> e

PEstablishEntrySet(targets, taken, config, history, exit) ==
    LET pass[i \in 0 .. NumStates] ==
            IF i = 0 THEN [entry |-> WithAncestors(targets), taken |-> taken]
            ELSE LET e == pass[i - 1]
                 IN IF i - 1 \in e.entry
                    THEN PCompleteState(i - 1, e, config, history, exit)
                    ELSE e
    IN pass[NumStates]

PMicrostep(targets, taken, config, history, exit) ==
    LET e == PEstablishEntrySet(targets, taken, config, history, exit)
        kept == config \ exit
        entered == (e.entry \ kept) \cap ProperStates
    IN [config |-> kept \cup entered,
        entered |-> entered,
        taken |-> e.taken,
        done |-> UNION {CDoneParallels(f, kept \cup {s \in entered : s <= f}) :
                          f \in {g \in entered : Type[g] = "final"}}]
=============================================================================
